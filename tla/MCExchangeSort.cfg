\* The exchange sort of cbor_get_assertion against the newest-first order.
SPECIFICATION Spec
INVARIANT SortedNewestFirst

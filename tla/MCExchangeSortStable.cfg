\* Spec 4.4 asks for a stable sort of equally old candidates.
SPECIFICATION Spec
INVARIANT SortIsStable

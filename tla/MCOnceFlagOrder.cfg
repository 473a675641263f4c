SPECIFICATION Spec
CONSTANT Procs = {p1, p2, p3}
INVARIANT CopiesOrdered

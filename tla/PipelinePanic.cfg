SPECIFICATION Spec
INVARIANT PanicIs500

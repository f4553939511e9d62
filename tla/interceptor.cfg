\* Both modules come and go as often as they like, two threads in any call.
CONSTANT Threads = {t1, t2}
SPECIFICATION Spec
INVARIANTS NoDanglingEntry HandOnReady
PROPERTIES WrappersEnd

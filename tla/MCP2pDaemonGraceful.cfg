\* One daemon: does a SIGINT to a running node lead to the shutdown?
CONSTANTS
    d1 = d1
    d2 = d2
    Daemons = {d1}
SPECIFICATION Spec
PROPERTY GracefulStop

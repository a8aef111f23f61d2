CONSTANTS
    Workers = {w1}
    Main = main
    Launches <- DaemonLaunch
    Present <- Certificates
    MaxConnections = 1
    NULL = NULL
SPECIFICATION Spec
INVARIANT CertificateFound
CHECK_DEADLOCK FALSE

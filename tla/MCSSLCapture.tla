---------------------------- MODULE MCSSLCapture ----------------------------
(* Two threads, two connections, calls nested two deep.                     *)
EXTENDS SSLCapture

CONSTANTS t1, t2, s1, s2

MCCalls == [t \in {t1, t2} |->
    IF t = t1 THEN {"SSL_write", "SSL_read_ex"} ELSE {"SSL_read"}]
=============================================================================

----------------------------- MODULE MCDnsProxy -----------------------------
EXTENDS DnsProxy, TLC

\* Goroutines are interchangeable as far as safety is concerned.
HandlerSymmetry == Permutations(Handler)
=============================================================================

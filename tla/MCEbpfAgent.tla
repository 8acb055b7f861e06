------------------------------ MODULE MCEbpfAgent ------------------------------
EXTENDS EbpfAgent

\* A thread of one stream and one of another.
MCKeyOf == [t1 |-> "a", t2 |-> "b"]
MCThreads == DOMAIN MCKeyOf
MCKeys == {"a", "b"}

x == FALSE
nl == TRUE

\* A piece of a line, a buffer longer than MaxData with a newline in it, and
\* a writev of more than MaxIov buffers.
MCCalls == { << <<x>> >>, << <<x, nl, x>> >>, << <<x>>, <<nl>>, <<x>> >> }
=============================================================================

------------------------- MODULE AbstractConnection -------------------------
(***************************************************************************)
(* The vector of message listeners of a connection (AbstractConnection,    *)
(* comms-lib), as a sequence.                                              *)
(***************************************************************************)
EXTENDS Integers, FiniteSets, Sequences

addMessageListener(s, l) == Append(s, l)

\* remove_if() moves the listeners other than l to the front and leaves what is
\* behind them as it was; erase() is then given one iterator and not a range:
\* it takes away the first element behind them and keeps the others.  With one
\* registration of l there is no other.  Without any the iterator is end(),
\* and erasing it undefined.
removeMessageListener(s, l) ==
    LET others == {k \in DOMAIN s : s[k] # l}
        kept == Cardinality(others)
        MovedTo(k) == Cardinality({j \in others : j <= k})
    IN  [k \in 1 .. Len(s) - 1 |->
            IF k <= kept THEN s[CHOOSE j \in others : MovedTo(j) = k] ELSE s[k + 1]]
=============================================================================

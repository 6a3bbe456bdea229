---------------------------- MODULE SequenceUtils ----------------------------
\* Operations on queues that are arrays in the code.
EXTENDS Integers, SequencesExt

\* A sequence, of whatever elements.
IsSequence(s) == s \in Seq(Range(s))

\* array.splice(array.indexOf(e), 1): s without one occurrence of e, if any.
Without(s, e) ==
    IF \E i \in DOMAIN s : s[i] = e
    THEN RemoveAt(s, CHOOSE i \in DOMAIN s : s[i] = e)
    ELSE s

\* Numbers in their order, the largest first.
Descending(S) ==
    [i \in 1..Cardinality(S) |-> CHOOSE x \in S : Cardinality({y \in S : y > x}) = i - 1]

\* array.push(array.shift()): the first element goes to the end.
ToTheEnd(s) == Append(Tail(s), Head(s))

\* array.filter(e => set.has(e))
OnlyOf(s, S) ==
    LET kept[n \in 0..Len(s)] ==
            IF n = 0 THEN <<>>
            ELSE IF s[n] \in S THEN Append(kept[n - 1], s[n]) ELSE kept[n - 1]
    IN kept[Len(s)]
=============================================================================

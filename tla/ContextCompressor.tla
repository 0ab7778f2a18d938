------------------------- MODULE ContextCompressor -------------------------
(***************************************************************************)
(* compress_history() of context_compressor.py: what of a conversation is  *)
(* sent to a model.  A message without text is left out and not counted; a *)
(* short history is sent as it is; of a long one the recent messages,      *)
(* behind one message that stands for the older ones.                      *)
(***************************************************************************)
EXTENDS Integers, Sequences, FiniteSets

CONSTANTS
    RecentVerbatimCount,     \* 20
    CompressionThreshold     \* 30

ASSUME CompressionAssumption ==
    /\ RecentVerbatimCount \in Nat \ {0} /\ CompressionThreshold \in Nat
    /\ RecentVerbatimCount < CompressionThreshold

\* _summarize gives a summary, or nothing when no provider answers: then a note of
\* how many messages were omitted takes its place.
Notes == {"summary", "omitted"}

\* What a model is sent: the note in front ("none" if there is none), the number of
\* messages it stands for, and the messages sent verbatim, each under its place in the
\* history.
Empty == [note |-> "none", folded |-> 0, verbatim |-> <<>>]

\* The places of the messages that say anything: what `normalized' holds.
Said(past) == {i \in 1 .. Len(past) : ~past[i].blank}

\* Mutation: one message too few.
LastButOne(said) ==
    {i \in said : Cardinality({j \in said : j > i}) < RecentVerbatimCount - 1}

\* Mutation: the oldest messages are kept.
Oldest(said) == {i \in said : Cardinality({j \in said : j < i}) < RecentVerbatimCount}

\* normalized[-RECENT_VERBATIM_COUNT:]
Recent(said) == {i \in said : Cardinality({j \in said : j > i}) < RecentVerbatimCount}

IsLong(said) == Cardinality(said) > CompressionThreshold

Compress(past, note) ==
    LET said == Said(past)
        sent == IF IsLong(said) THEN Recent(said) ELSE said
    IN  [note |-> IF IsLong(said) THEN note ELSE "none",
         folded |-> IF IsLong(said) THEN Cardinality(said) - RecentVerbatimCount ELSE 0,
         verbatim |-> [i \in sent |-> past[i]]]
=============================================================================

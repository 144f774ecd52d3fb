----------------------------- MODULE MC_Storage ------------------------------
(* The buffers for TLC: the thread of a buffer with two signals and a topic   *)
(* that it cannot store, time maps, and one signal's ring with its            *)
(* reductions.  A behaviour is of one of them, which `which` names; the       *)
(* buffer and the time map stay as they began in the behaviours of another,   *)
(* and the variables of the signal are 0.                                     *)
EXTENDS Buffer

\* The application's commands; the second signal stays with what it was given.
Given ==
    [cmd : {"size", "hold"}, on : BOOLEAN] \cup [cmd : {"add"}, sig : {"s1", "s2"}] \cup [cmd : {"req"}, sig : {"s1"}, id : {1}]
    \cup [cmd : {"topic"}, sig : {"s1"}, topic : {"t1", "t2"}]
    \cup {[cmd |-> "clear"], [cmd |-> "remove", sig |-> "s1"], [cmd |-> "topic", sig |-> "s2", topic |-> "t1"]}

MaxCounter == 8

VARIABLES
    which,      \* the part whose behaviour this is
    m_t, need_t, told_t, b_s, got_s, gaps_s

\* Time maps at every second sample id
Map == INSTANCE Tmap WITH
    EntrySet <- {[t |-> 3 * c, c |-> c] : c \in {k \in 0..MaxCounter : k % 2 = 0}}, SampleIds <- 0..MaxCounter+1,
    InitialSize <- 2, MaxAlloc <- 8, OlderTimes <- FALSE, ExactExpire <- FALSE,
    m <- m_t, need <- need_t, told <- told_t
MapVars == <<m_t, need_t, told_t>>

Sig == INSTANCE BufferSignal WITH
    N <- 8, r0 <- 2, rN <- 2, Lengths <- {1, 3}, Gaps <- {-4, -1, 1, 3, 9}, MaxId <- 18, MaxGaps <- 1,
    LengthMax <- 6, SummaryMax <- 4, Period <- 3, b <- b_s, got <- got_s, gaps <- gaps_s
SigVars == <<b_s, got_s, gaps_s>>
SigIdle == b_s = 0 /\ got_s = 0 /\ gaps_s = 0

AllVars == <<which, vars, MapVars, SigVars>>

AllInit ==
    /\ Init /\ Map!Init
    /\ \/ which \in {"tmap", "buffer"} /\ SigIdle
       \/ which = "signal" /\ Sig!Init

AllNext ==
    \/ which = "tmap" /\ Map!Next /\ UNCHANGED <<which, vars, SigVars>>
    \/ which = "signal" /\ Sig!Next /\ UNCHANGED <<which, vars, MapVars>>
    \/ which = "buffer" /\ Next /\ UNCHANGED <<which, MapVars, SigVars>>
    \/ which \in {"signal", "buffer"} /\ UNCHANGED AllVars      \* these may stop

AllSpec ==
    /\ AllInit /\ [][AllNext]_AllVars
    /\ WF_vars(which = "buffer" /\ Thread)
    /\ WF_vars(which = "buffer" /\ Frontend)
    /\ WF_vars(which = "buffer" /\ Removed)

------------------------------------------------------------------------------
\* The operations of the time map's ring are those of the list of entries that tmap.h
\* describes, and its searches find the entry in charge (tmap.c).
ListSpec == Map!ListSpec
FindIsInCharge == Map!FindIsInCharge

\* A request to a signal is answered with what was received.  Samples: those in the buffer, in
\* order, and NaN for the ones that were skipped, however blocks wrapped, repeated or left
\* gaps; a summary in one entry: every sample of its range once, whatever levels it is put
\* together from (samples_get, summary_get of buffer_signal.c).
AnswersExact == which = "signal" => Sig!SamplesExact /\ Sig!SummaryExact

\* Removing a buffer, which blocks the frontend thread, ends (_buffer_remove_inner).
RemoveEnds == []<>(which = "buffer" => ~removing)

\* JSDRV_ASSERT(index < self->N) in summary_level0_get_by_idx never fails.
AssertsHold == which = "signal" => Sig!AssertsHold
==============================================================================

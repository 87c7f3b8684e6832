----------------------------- MODULE ErrorRing -----------------------------
(***************************************************************************)
(* The diagnostics of a C handle (DbInner in libobj): the last RingLen     *)
(* messages are owned by a ring, obj_errmsg returns the latest without a   *)
(* lock, and recording a message frees the one it displaces, after the     *)
(* lock is given back.  A message is the number of the error it is for.    *)
(***************************************************************************)
EXTENDS Naturals

CONSTANTS
    Callers,  \* the threads that call the C interface
    RingLen   \* ERROR_RING_LEN

ASSUME RingAssumption == RingLen \in Nat \ {0}

VARIABLES
    seq,    \* error_seq: errors so far
    ring,   \* error_ring: the message in each slot, 0 for none
    last,   \* last_error: what obj_errmsg returns
    locked, \* error_lock
    stage,  \* where each caller is in set_error, "quiet" for nowhere
    msg,    \* the message it records
    out,    \* the message it has displaced
    freed,  \* the messages whose storage is gone
    gone    \* has the handle been dropped?

ringVars == <<seq, ring, last, locked, stage, msg, out, freed, gone>>

Slots == 0 .. RingLen - 1
Stages == {"quiet", "lock", "swap", "publish", "free"}
SlotOf(m) == (m - 1) % RingLen
Messages == {ring[i] : i \in Slots} \ {0}

RingInit ==
    /\ seq = 0 /\ ring = [i \in Slots |-> 0] /\ last = 0 /\ locked = FALSE
    /\ stage = [t \in Callers |-> "quiet"]
    /\ msg = [t \in Callers |-> 0] /\ out = [t \in Callers |-> 0]
    /\ freed = {} /\ gone = FALSE

Enter(t, s) == stage' = [stage EXCEPT ![t] = s]

\* A call fails: set_error makes the string.
Record(t) ==
    /\ stage[t] = "quiet"
    /\ Enter(t, "lock")
    /\ UNCHANGED <<seq, ring, last, locked, msg, out, freed, gone>>

\* Faulty: without the lock.
ClaimUnlocked(t) ==
    /\ stage[t] = "lock"
    /\ seq' = seq + 1
    /\ msg' = [msg EXCEPT ![t] = seq + 1]
    /\ Enter(t, "swap")
    /\ UNCHANGED <<ring, last, locked, out, freed, gone>>

\* error_lock.lock and error_seq.fetch_add
Claim(t) ==
    /\ stage[t] = "lock" /\ ~ locked
    /\ locked' = TRUE
    /\ seq' = seq + 1
    /\ msg' = [msg EXCEPT ![t] = seq + 1]
    /\ Enter(t, "swap")
    /\ UNCHANGED <<ring, last, out, freed, gone>>

\* error_ring[slot].swap
Swap(t) ==
    /\ stage[t] = "swap"
    /\ out' = [out EXCEPT ![t] = ring[SlotOf(msg[t])]]
    /\ ring' = [ring EXCEPT ![SlotOf(msg[t])] = msg[t]]
    /\ Enter(t, "publish")
    /\ UNCHANGED <<seq, last, locked, msg, freed, gone>>

\* last_error.store, and the guard is dropped.
Publish(t) ==
    /\ stage[t] = "publish"
    /\ last' = msg[t]
    /\ locked' = FALSE
    /\ Enter(t, "free")
    /\ UNCHANGED <<seq, ring, msg, out, freed, gone>>

\* CString::from_raw of what was displaced.
FreeDisplaced(t) ==
    /\ stage[t] = "free"
    /\ freed' = freed \cup ({out[t]} \ {0})
    /\ msg' = [msg EXCEPT ![t] = 0] /\ out' = [out EXCEPT ![t] = 0]
    /\ Enter(t, "quiet")
    /\ UNCHANGED <<seq, ring, last, locked, gone>>

\* DbInner::drop
DropRing ==
    /\ gone' = TRUE
    /\ freed' = freed \cup Messages
    /\ UNCHANGED <<seq, ring, last, locked, stage, msg, out>>

\* What set_error and the drop rely on: a call fails on a handle that is there,
\* which is dropped once, when no call is recording.
RingNext ==
    \/ \E t \in Callers :
          \/ ~ gone /\ Record(t)
          \/ Claim(t) \/ Swap(t) \/ Publish(t) \/ FreeDisplaced(t)
    \/ ~ gone /\ (\A t \in Callers : stage[t] = "quiet") /\ DropRing

RingSpec == RingInit /\ [][RingNext]_ringVars

\* The pointer, read at any moment; 0 stands for the text "(no error)".
obj_errmsg == last

\* As long as the handle is there, the message obj_errmsg returns is not
\* freed, nor one it returned before until RingLen newer ones have been
\* published, whichever threads record errors meanwhile (set_error).
MessagesReadable == gone \/ \A m \in freed : m + RingLen <= obj_errmsg
=============================================================================

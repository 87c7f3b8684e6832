------------------------------ MODULE WriteLock ------------------------------
(***************************************************************************)
(* How a write transaction gets to be the only one:                        *)
(* crates/obj-core/src/txn.rs (TxnEnv, WriteSerialGuard, WriteTxn) and     *)
(* platform/lock.rs (WriterLock).  Two layers: a gate, one AtomicBool per  *)
(* open handle, and the WRITER_LOCK byte of the lock sidecar, an open-file-*)
(* description lock.  Every thread of a handle goes through the handle's   *)
(* one lock-file descriptor, so the byte excludes other handles only: a    *)
(* second request through the descriptor that holds it is granted, and any *)
(* unlock through it frees the byte.                                       *)
(***************************************************************************)
EXTENDS FiniteSets

CONSTANTS
    Envs,    \* open handles on the file, in one process or several (TxnEnv)
    Threads, \* threads that write
    EnvOf,   \* the handle each of them uses
    NoEnv    \* the byte is free

ASSUME EnvOfAssumption == EnvOf \in [Threads -> Envs]
ASSUME NoEnvAssumption == NoEnv \notin Envs

VARIABLES
    pc,   \* where each thread is in WriteTxn::begin, commit or rollback
    gate, \* TxnEnv.write_serialization of each handle
    byte  \* the handle whose descriptor holds WRITER_LOCK, as the OS sees it

vars == <<pc, gate, byte>>

PCs == {"idle", "gate", "byte", "writing", "unlock"}

Init ==
    /\ pc = [t \in Threads |-> "idle"]
    /\ gate = [e \in Envs |-> FALSE]
    /\ byte = NoEnv

Goto(t, l) == pc' = [pc EXCEPT ![t] = l]
SetGate(t, held) == gate' = [gate EXCEPT ![EnvOf[t]] = held]

\* WriteTxn::begin: the gate first, by a CAS in a bounded retry loop.
Begin(t) == pc[t] = "idle" /\ Goto(t, "gate") /\ UNCHANGED <<gate, byte>>

\* Faulty: the gate is stored to, not compared and exchanged.
TakeGateUnchecked(t) ==
    /\ pc[t] = "gate"
    /\ SetGate(t, TRUE)
    /\ Goto(t, "byte")
    /\ UNCHANGED byte

TakeGate(t) ==
    /\ pc[t] = "gate" /\ ~ gate[EnvOf[t]]
    /\ SetGate(t, TRUE)
    /\ Goto(t, "byte")
    /\ UNCHANGED byte

\* Busy(WriterInProcess): the deadline passed; the CAS is weak, so this may
\* happen to a thread that found the gate free.
GateBusy(t) == pc[t] = "gate" /\ Goto(t, "idle") /\ UNCHANGED <<gate, byte>>

\* Faulty: the lock belongs to the thread.
TakeByteForThread(t) ==
    /\ pc[t] = "byte" /\ byte = NoEnv
    /\ byte' = t
    /\ Goto(t, "writing")
    /\ UNCHANGED gate

\* F_OFD_SETLK through the handle's descriptor; the transaction begins.
TakeByte(t) ==
    /\ pc[t] = "byte" /\ byte \in {NoEnv, EnvOf[t]}
    /\ byte' = EnvOf[t]
    /\ Goto(t, "writing")
    /\ UNCHANGED gate

\* Faulty: the error path keeps the gate.
ByteFailsShut(t) == pc[t] = "byte" /\ Goto(t, "idle") /\ UNCHANGED <<gate, byte>>

\* Busy(Writer) at the deadline, or the system call failed: the gate is
\* given back before the error returns.
ByteFails(t) ==
    /\ pc[t] = "byte"
    /\ SetGate(t, FALSE)
    /\ Goto(t, "idle")
    /\ UNCHANGED byte

\* commit, rollback and Drop give the gate back first ...
ReleaseGate(t) ==
    /\ pc[t] = "writing"
    /\ SetGate(t, FALSE)
    /\ Goto(t, "unlock")
    /\ UNCHANGED byte

\* Faulty: the transaction ends without unlocking the byte.
ForgetByte(t) == pc[t] = "unlock" /\ Goto(t, "idle") /\ UNCHANGED <<gate, byte>>

\* ... and the byte in a second step, whoever of the handle uses it now.
ReleaseByte(t) ==
    /\ pc[t] = "unlock"
    /\ byte' = IF byte = EnvOf[t] THEN NoEnv ELSE byte
    /\ Goto(t, "idle")
    /\ UNCHANGED gate

\* The process that owns the handle dies; the OS closes its descriptors.
Die(e) ==
    /\ pc' = [t \in Threads |-> IF EnvOf[t] = e THEN "idle" ELSE pc[t]]
    /\ gate' = [gate EXCEPT ![e] = FALSE]
    /\ byte' = IF byte = e THEN NoEnv ELSE byte

Step(t) ==
    \/ Begin(t) \/ TakeGate(t) \/ GateBusy(t) \/ TakeByte(t) \/ ByteFails(t)
    \/ ReleaseGate(t) \/ ReleaseByte(t)

Next == (\E t \in Threads : Step(t)) \/ (\E e \in Envs : Die(e))

Spec == Init /\ [][Next]_vars

\* A thread inside begin, commit or rollback keeps running (its retry loops
\* are bounded), and a transaction is finished by its owner.
FairSpec ==
    /\ Spec
    /\ \A t \in Threads :
          /\ WF_vars(TakeGate(t) \/ GateBusy(t))
          /\ WF_vars(TakeByte(t) \/ ByteFails(t))
          /\ WF_vars(ReleaseGate(t) \/ ReleaseByte(t))

-----------------------------------------------------------------------------
TypeOK ==
    /\ pc \in [Threads -> PCs]
    /\ gate \in [Envs -> BOOLEAN]
    /\ byte \in Envs \cup {NoEnv}

Writers == {t \in Threads : pc[t] = "writing"}

\* The gate serialises the writers of one handle, from the moment they ask
\* for the byte (acquire: "the in-process gate is the authoritative
\* same-process serializer").
OneWriterPerEnv ==
    \A t, u \in Threads :
        (EnvOf[t] = EnvOf[u] /\ {pc[t], pc[u]} \subseteq {"byte", "writing"}) => t = u

\* At most one WriteTxn across all the handles on the file (WriteTxn).
SingleWriter == \A t, u \in Writers : t = u

\* Nothing outlives its owner: a gate that is shut has a thread between its
\* acquisition and its release, a byte that is held a thread of that handle
\* that will unlock it.  A failed begin, a crash, or an unlock that comes
\* late leaves no lock behind that would wedge every later writer.
NoOrphanedLock ==
    /\ \A e \in Envs : gate[e] =>
          \E t \in Threads : EnvOf[t] = e /\ pc[t] \in {"byte", "writing"}
    /\ byte # NoEnv =>
          \E t \in Threads : EnvOf[t] = byte /\ pc[t] \in {"writing", "unlock"}

\* The byte, once every writer has been given up or finished, comes free.
ByteComesFree == byte # NoEnv ~> byte = NoEnv

\* A handle used by one writing thread each: the premise under which the
\* order of the two releases cannot be observed.
OneThreadPerEnv == \A t, u \in Threads : EnvOf[t] = EnvOf[u] => t = u
=============================================================================

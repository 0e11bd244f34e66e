------------------------------ MODULE NvsMemory ------------------------------
(***************************************************************************)
(* components/device_memory: init_nvs, read_flash and write_flash, called  *)
(* by any task.                                                            *)
(*                                                                         *)
(* The NVS library (external) stores a blob as a whole: a call that fails, *)
(* or that the power cuts short, leaves the old blob or the new one.       *)
(* nvs_close is called with whatever is on the stack when nvs_open has     *)
(* failed, which may be the handle of another task.                        *)
(***************************************************************************)
EXTENDS Integers

CONSTANTS
  NvsTasks,   \* tasks that use the memory
  Names,      \* names of blobs
  Contents,   \* contents of blobs
  MaxSize     \* the largest data_size

ASSUME NvsAssumption == MaxSize \in Nat

Blobs == [size : 1 .. MaxSize, data : Contents]
NO_BLOB == [size |-> 0]
UNKNOWN == [size |-> -1]

VARIABLES
  nvs,        \* what is in flash under each name
  nvs_state,  \* "off", "ready", or "failed": what init_nvs came to
  nvs_call,   \* the call each task is in
  kept        \* history: the blob of the last write that was given one and
              \* returned true, until the name is written again or the memory
              \* is erased

nvsVars == <<nvs, nvs_state, nvs_call, kept>>

NoNvsCall == [pc |-> "none", name |-> "", blob |-> NO_BLOB, open |-> FALSE,
              overtaken |-> FALSE]

NvsInit ==
  /\ nvs = [n \in Names |-> NO_BLOB]
  /\ nvs_state = "off"
  /\ nvs_call = [t \in NvsTasks |-> NoNvsCall]
  /\ kept = [n \in Names |-> UNKNOWN]

(***************************************************************************)
(* init_nvs, called once by device_init, which ignores its result.         *)
(***************************************************************************)
InitNvs ==
  /\ nvs_state = "off"
  /\ nvs_state' \in {"ready", "failed"}
  /\ UNCHANGED <<nvs, nvs_call, kept>>

\* ESP_ERR_NVS_NO_FREE_PAGES or ESP_ERR_NVS_NEW_VERSION_FOUND: everything is
\* erased before the second attempt.
InitNvsErases ==
  /\ nvs_state = "off"
  /\ nvs_state' \in {"ready", "failed"}
  /\ nvs' = [n \in Names |-> NO_BLOB]
  /\ kept' = [n \in Names |-> UNKNOWN]
  /\ UNCHANGED nvs_call

(***************************************************************************)
(* What read_flash and write_flash share.                                  *)
(***************************************************************************)
\* The label exit after a failed nvs_open: nvs_close gets an arbitrary value.
CloseArbitrary(t) ==
  \/ nvs_call' = [nvs_call EXCEPT ![t] = NoNvsCall]
  \/ \E u \in NvsTasks \ {t} :
       /\ nvs_call[u].open
       /\ nvs_call' = [nvs_call EXCEPT ![t] = NoNvsCall, ![u].open = FALSE]

\* For a NULL pointer (given is FALSE) and for a data_size of 0 the answer is
\* ESP_ERR_INVALID_ARG, which bool makes true: nothing is read or stored, and
\* the caller cannot tell it from success.
BeginNvs(t, op, name, blob, given) ==
  /\ nvs_call[t].pc = "none" /\ nvs_state # "off"
  /\ nvs_call' = [nvs_call EXCEPT ![t] =
       IF ~given \/ blob.size = 0 THEN NoNvsCall
       ELSE [pc |-> op, name |-> name, blob |-> blob, open |-> FALSE,
             overtaken |-> FALSE]]
  /\ UNCHANGED <<nvs, nvs_state, kept>>

Open(t, from, to) ==
  /\ nvs_call[t].pc = from
  /\ \/ /\ nvs_state = "ready"
        /\ nvs_call' = [nvs_call EXCEPT ![t].pc = to, ![t].open = TRUE]
     \/ CloseArbitrary(t)
  /\ UNCHANGED <<nvs, nvs_state, kept>>

\* A step that failed: the handle is closed and false is returned.
Refused(t) ==
  /\ nvs_call' = [nvs_call EXCEPT ![t] = NoNvsCall]
  /\ UNCHANGED <<nvs, nvs_state, kept>>

(***************************************************************************)
(* write_flash                                                             *)
(***************************************************************************)
WriteOpen(t) == Open(t, "write_open", "set_blob")

Overtake(t, name) ==
  [u \in NvsTasks |->
     IF u # t /\ nvs_call[u].pc = "commit" /\ nvs_call[u].name = name
     THEN [nvs_call[u] EXCEPT !.overtaken = TRUE] ELSE nvs_call[u]]

\* Mutant of SetBlob: its result is not looked at.
SetBlobUnchecked(t) ==
  LET c == nvs_call[t] IN
  /\ c.pc = "set_blob"
  /\ \E stored \in {TRUE, FALSE} :
       /\ stored => c.open
       /\ nvs' = IF stored THEN [nvs EXCEPT ![c.name] = c.blob] ELSE nvs
  /\ nvs_call' = [Overtake(t, c.name) EXCEPT ![t].pc = "commit"]
  /\ kept' = [kept EXCEPT ![c.name] = UNKNOWN]
  /\ UNCHANGED nvs_state

SetBlob(t) ==
  LET c == nvs_call[t] IN
  /\ c.pc = "set_blob"
  /\ \/ /\ c.open
        /\ nvs' = [nvs EXCEPT ![c.name] = c.blob]
        /\ nvs_call' = [Overtake(t, c.name) EXCEPT ![t].pc = "commit"]
        /\ kept' = [kept EXCEPT ![c.name] = UNKNOWN]
        /\ UNCHANGED nvs_state
     \/ Refused(t)

\* nvs_commit, nvs_close, and the answer true.
Commit(t) ==
  LET c == nvs_call[t] IN
  /\ c.pc = "commit"
  /\ \/ /\ c.open
        /\ nvs_call' = [nvs_call EXCEPT ![t] = NoNvsCall]
        /\ kept' = IF c.overtaken THEN kept
                   ELSE [kept EXCEPT ![c.name] = c.blob]
        /\ UNCHANGED <<nvs, nvs_state>>
     \/ Refused(t)

(***************************************************************************)
(* read_flash                                                              *)
(***************************************************************************)
ReadOpen(t) == Open(t, "read_open", "get_blob")

\* A blob that is larger than the buffer is refused; a smaller one fills the
\* front of it, and true is returned all the same.
GetBlob(t) ==
  LET c == nvs_call[t] IN
  /\ c.pc = "get_blob"
  /\ \/ /\ c.open /\ nvs[c.name] # NO_BLOB /\ nvs[c.name].size <= c.blob.size
        /\ nvs_call' = [nvs_call EXCEPT ![t] = [NoNvsCall EXCEPT
             !.pc = "answer", !.name = c.name, !.blob = nvs[c.name]]]
        /\ UNCHANGED <<nvs, nvs_state, kept>>
     \/ Refused(t)

\* The caller has the buffer.
ReadReturns(t) == nvs_call[t].pc = "answer" /\ Refused(t)

\* The power goes: what is in flash stays.
NvsReset ==
  /\ nvs_state' = "off"
  /\ nvs_call' = [t \in NvsTasks |-> NoNvsCall]
  /\ UNCHANGED <<nvs, kept>>

NvsCallStep(t) ==
  \/ \E n \in Names, b \in Blobs \union {NO_BLOB}, given \in BOOLEAN :
       BeginNvs(t, "write_open", n, b, given)
  \/ \E n \in Names, k \in 0 .. MaxSize, given \in BOOLEAN :
       BeginNvs(t, "read_open", n, [size |-> k], given)
  \/ WriteOpen(t) \/ SetBlob(t) \/ Commit(t)
  \/ ReadOpen(t) \/ GetBlob(t) \/ ReadReturns(t)

NvsWork == InitNvs \/ InitNvsErases \/ \E t \in NvsTasks : NvsCallStep(t)

NvsNext == NvsWork \/ NvsReset

NvsSpec == NvsInit /\ [][NvsNext]_nvsVars

(***************************************************************************)
(* Properties.                                                             *)
(***************************************************************************)

\* A blob that write_flash was given and answered true for is in flash, through
\* any loss of power and beside any other calls, until the name is written
\* again or init_nvs erases the memory.  A call that failed, and one whose
\* handle another task has closed, never counts as done.
\*
\* The answer alone does not say that much.  write_flash answers true also for
\* a data_size of 0 and for a NULL pointer, and stores nothing then (BeginNvs):
\* what is claimed of such a call is only that the blob kept before it stays.
WriteIsDurable ==
  \A n \in Names : kept[n] = UNKNOWN \/ nvs[n] = kept[n]
=============================================================================

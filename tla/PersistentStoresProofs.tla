------------------------ MODULE PersistentStoresProofs ------------------------
(***************************************************************************)
(* What the stores of the device promise, proved for every set of files,   *)
(* tasks, names, blobs, records and sizes of the tag's memory:             *)
(* BootIsComplete of the firmware slots, WriteIsDurable of the NVS memory  *)
(* and ReadsBack of the NDEF message of the NFC tag, of each by itself.    *)
(***************************************************************************)
EXTENDS PersistentStores, SequenceTheorems, TLAPS

(***************************************************************************)
(* The firmware update.  The invariant says what BootIsComplete is silent  *)
(* on: the slot that is written is the one that neither runs nor will be   *)
(* started, and it holds exactly what was received, so that the comparison *)
(* of the tag, which is about what was received, decides about what is in  *)
(* flash.                                                                  *)
(***************************************************************************)

HasHandle == ota_ctx # NO_HANDLE

\* The slot behind the handle is an idle one, and only a finished update makes
\* boot and running differ.
HandleIsIdleSlot ==
  /\ boot # running => ota.pc = "restart"
  /\ ota.pc \in {"read", "process", "end", "set_boot"} /\ HasHandle
       => ota_ctx = Other(running)

\* What was received is in flash, but for the chunk in hand.
FlashIsReceived ==
  /\ ota.pc \in {"header", "keys"} => ~HasHandle /\ ota.received = <<>>
  /\ ota.pc = "read" =>
       IF HasHandle THEN flash[ota_ctx] = ota.received ELSE ota.received = <<>>
  /\ ota.pc = "process" =>
       /\ Len(ota.chunk) <= ota.remaining
       /\ ota.received = IF HasHandle THEN flash[ota_ctx] \o ota.chunk
                         ELSE ota.chunk
  /\ ota.pc = "end" /\ HasHandle => flash[ota_ctx] = ota.received
  /\ ota.pc = "set_boot" => HasHandle /\ flash[ota_ctx] = ota.received

\* The image of a header that was accepted.
TagHolds ==
  /\ ota.pc \in {"keys", "read", "process", "end", "set_boot"}
       => ota.header \in Files
  /\ ota.pc \in {"end", "set_boot"} => ota.received = ota.header.image

OtaInv ==
  OtaTypeOK /\ HandleIsIdleSlot /\ FlashIsReceived /\ TagHolds /\ BootIsComplete

LEMMA NothingReceived == \A S : <<>> \in Seq(S)
OBVIOUS

LEMMA EmptyConcat == \A S : \A s \in Seq(S) : <<>> \o s = s
OBVIOUS

LEMMA ChunkIsSeq ==
  ASSUME NEW S, NEW n \in Nat, NEW d \in [1 .. n -> S]
  PROVE  d \in Seq(S) /\ Len(d) = n
OBVIOUS

LEMMA InitInv == OtaInit => OtaInv
BY OtaAssumption DEF OtaInit, OtaInv, OtaTypeOK, HandleIsIdleSlot,
  FlashIsReceived, TagHolds, BootIsComplete, Images, NoUpdate, NoFile, Slots,
  NO_HANDLE, HasHandle

\* What the steps that write no flash have in common.
LEMMA ResetInv == OtaInv /\ OtaReset => OtaInv'
BY DEF OtaInv, OtaReset, OtaTypeOK, HandleIsIdleSlot, FlashIsReceived, TagHolds,
  BootIsComplete, Images, NoUpdate, NoFile, Slots, NO_HANDLE, HasHandle

LEMMA FailInv == OtaInv /\ ota.pc # "restart" /\ Fail => OtaInv'
BY DEF OtaInv, Fail, OtaTypeOK, HandleIsIdleSlot, FlashIsReceived, TagHolds,
  BootIsComplete, Images, NoUpdate, NoFile, Slots, NO_HANDLE, HasHandle

LEMMA StartInv == OtaInv /\ StartUpdate => OtaInv'
<1> SUFFICES ASSUME OtaInv, StartUpdate PROVE OtaInv'
  OBVIOUS
<1>1. CASE OtaReset
  BY <1>1, ResetInv
<1>2. CASE ~OtaReset
  <2>1. /\ ota.pc = "idle"
        /\ ota' = [NoUpdate EXCEPT !.pc = "header"]
        /\ ota_ctx' = NO_HANDLE
        /\ UNCHANGED <<flash, boot, running>>
    BY <1>2 DEF StartUpdate
  <2>2. ota' = [pc |-> "header", header |-> NoFile, remaining |-> 0,
                chunk |-> <<>>, received |-> <<>>]
    BY <2>1 DEF NoUpdate
  <2>3. OtaTypeOK'
    <3>1. ota' \in [pc : {"header"}, header : {NoFile}, remaining : Nat,
                     chunk : Seq(Units), received : Seq(Units)]
      BY <2>2, NothingReceived
    <3> QED
      BY <2>1, <3>1 DEF OtaInv, OtaTypeOK, NO_HANDLE
  <2>4. FlashIsReceived' /\ TagHolds'
    BY <2>1, <2>2 DEF FlashIsReceived, TagHolds, HasHandle
  <2>5. HandleIsIdleSlot' /\ BootIsComplete'
    BY <2>1, <2>2 DEF OtaInv, HandleIsIdleSlot, BootIsComplete, Images,
      HasHandle
  <2> QED
    BY <2>3, <2>4, <2>5 DEF OtaInv
<1> QED BY <1>1, <1>2

LEMMA HeaderInv == OtaInv /\ ReadHeader => OtaInv'
<1> SUFFICES ASSUME OtaInv, ReadHeader PROVE OtaInv'
  OBVIOUS
<1>1. CASE Fail
  BY <1>1, FailInv DEF ReadHeader
<1>2. CASE ~Fail
  <2>1. PICK f \in Files :
          /\ ota.pc = "header" /\ check_header(f)
          /\ ota' = [ota EXCEPT !.pc = "keys", !.header = f,
                                !.remaining = f.bin_size]
          /\ UNCHANGED <<flash, boot, running, ota_ctx>>
    BY <1>2 DEF ReadHeader
  <2>2. f.bin_size \in Nat
    BY OtaAssumption
  <2> QED
    BY <2>1, <2>2 DEF OtaInv, OtaTypeOK, HandleIsIdleSlot, FlashIsReceived,
      TagHolds, BootIsComplete, Images, Slots, NO_HANDLE, HasHandle
<1> QED BY <1>1, <1>2

LEMMA KeysInv == OtaInv /\ SetupKeys => OtaInv'
<1> SUFFICES ASSUME OtaInv, SetupKeys PROVE OtaInv'
  OBVIOUS
<1>1. CASE Fail
  BY <1>1, FailInv DEF SetupKeys, Goto
<1>2. CASE ~Fail
  BY <1>2 DEF SetupKeys, Goto, OtaInv, OtaTypeOK, HandleIsIdleSlot,
    FlashIsReceived, TagHolds, BootIsComplete, Images, Slots, NO_HANDLE,
    HasHandle
<1> QED BY <1>1, <1>2

LEMMA ChunkInv == OtaInv /\ ReadChunk => OtaInv'
<1> SUFFICES ASSUME OtaInv, ReadChunk PROVE OtaInv'
  OBVIOUS
<1>1. CASE Fail
  BY <1>1, FailInv DEF ReadChunk
<1>2. CASE ~Fail
  <2>1. PICK data \in [1 .. ChunkLen -> Units] :
          /\ ota.pc = "read"
          /\ ota' = [ota EXCEPT !.pc = "process", !.chunk = data,
                                !.received = @ \o data]
          /\ UNCHANGED <<flash, boot, running, ota_ctx>>
    BY <1>2 DEF ReadChunk
  <2>2. ChunkLen \in Nat
    BY OtaAssumption DEF ChunkLen, OtaInv, OtaTypeOK
  <2>3. data \in Seq(Units)
    BY <2>2, ChunkIsSeq
  <2>7. Len(data) <= ota.remaining
    BY <2>2, ChunkIsSeq, OtaAssumption DEF ChunkLen, OtaInv, OtaTypeOK
  <2>4. ota.received \in Seq(Units) /\ ota.received \o data \in Seq(Units)
    BY <2>3 DEF OtaInv, OtaTypeOK
  <2>5. OtaTypeOK'
    BY <2>1, <2>3, <2>4 DEF OtaInv, OtaTypeOK
  <2>6. FlashIsReceived'
    BY <2>1, <2>3, <2>7, EmptyConcat
    DEF OtaInv, OtaTypeOK, FlashIsReceived, HasHandle
  <2> QED
    BY <2>1, <2>5, <2>6 DEF OtaInv, OtaTypeOK, HandleIsIdleSlot, TagHolds,
      BootIsComplete, HasHandle
<1> QED BY <1>1, <1>2

LEMMA BeginInv == OtaInv /\ ProcessBegin => OtaInv'
<1> SUFFICES ASSUME OtaInv, ProcessBegin PROVE OtaInv'
  OBVIOUS
<1>1. CASE Fail
  BY <1>1, FailInv DEF ProcessBegin
<1>2. CASE ~Fail
  <2>1. /\ ota.pc = "process" /\ ota_ctx = NO_HANDLE
        /\ ota_ctx' = Other(running)
        /\ flash' = [flash EXCEPT ![Other(running)] = <<>>]
        /\ UNCHANGED <<boot, running, ota>>
    BY <1>2 DEF ProcessBegin
  <2>2. Other(running) \in Slots /\ Other(running) # boot
    BY <2>1 DEF OtaInv, OtaTypeOK, HandleIsIdleSlot, Slots, Other
  <2>3. OtaTypeOK'
    BY <2>1, <2>2 DEF OtaInv, OtaTypeOK
  <2>4. FlashIsReceived'
    BY <2>1, <2>2, EmptyConcat
    DEF OtaInv, OtaTypeOK, FlashIsReceived, HasHandle, Slots, NO_HANDLE
  <2>5. BootIsComplete'
    BY <2>1, <2>2 DEF OtaInv, OtaTypeOK, BootIsComplete, Images
  <2> QED
    BY <2>1, <2>3, <2>4, <2>5 DEF OtaInv, HandleIsIdleSlot, TagHolds, HasHandle
<1> QED BY <1>1, <1>2

LEMMA WriteInv == OtaInv /\ ProcessWrite => OtaInv'
<1> SUFFICES ASSUME OtaInv, ProcessWrite PROVE OtaInv'
  OBVIOUS
<1>1. CASE Fail
  BY <1>1, FailInv DEF ProcessWrite
<1>2. CASE ~Fail
  <2>1. /\ ota.pc = "process" /\ ota_ctx # NO_HANDLE
        /\ flash' = [flash EXCEPT ![ota_ctx] = @ \o ota.chunk]
        /\ UNCHANGED <<boot, running, ota_ctx>>
    BY <1>2 DEF ProcessWrite
  <2>2. ota_ctx \in Slots /\ ota_ctx # boot
    BY <2>1 DEF OtaInv, OtaTypeOK, HandleIsIdleSlot, HasHandle, Slots, Other
  <2>3. flash[ota_ctx] \o ota.chunk \in Seq(Units)
    BY <2>2 DEF OtaInv, OtaTypeOK
  <2>4. flash' \in [Slots -> Seq(Units)]
    BY <2>1, <2>2, <2>3 DEF OtaInv, OtaTypeOK
  <2>5. BootIsComplete'
    BY <2>1, <2>2 DEF OtaInv, OtaTypeOK, BootIsComplete, Images
  <2>6. CASE ota' = NoUpdate
    BY <2>1, <2>4, <2>5, <2>6 DEF OtaInv, OtaTypeOK, HandleIsIdleSlot,
      FlashIsReceived, TagHolds, HasHandle, NoUpdate, NoFile
  <2>7. CASE ota' # NoUpdate
    <3>1. ota' = [ota EXCEPT !.pc = "read", !.chunk = <<>>,
                             !.remaining = @ - Len(ota.chunk)]
      BY <1>2, <2>7 DEF ProcessWrite
    <3>2. ota.remaining - Len(ota.chunk) \in Nat
      BY <2>1 DEF OtaInv, OtaTypeOK, FlashIsReceived
    <3>3. OtaTypeOK'
      <4>1. <<>> \in Seq(Units)
        BY NothingReceived
      <4> QED
        BY <2>1, <2>4, <3>1, <3>2, <4>1 DEF OtaInv, OtaTypeOK
    <3>4. ota'.pc = "read" /\ ota'.received = ota.received
            /\ ota'.header = ota.header
      BY <3>1 DEF OtaInv, OtaTypeOK
    <3>5. FlashIsReceived'
      <4>1. ota.received = flash[ota_ctx] \o ota.chunk
        BY <2>1 DEF OtaInv, FlashIsReceived, HasHandle
      <4>2. flash'[ota_ctx] = ota.received
        BY <2>1, <2>2, <4>1 DEF OtaInv, OtaTypeOK
      <4> QED
        BY <2>1, <3>4, <4>2 DEF FlashIsReceived, HasHandle
    <3> QED
      BY <2>1, <2>5, <3>3, <3>4, <3>5 DEF OtaInv, HandleIsIdleSlot, TagHolds,
        HasHandle
  <2> QED BY <2>6, <2>7
<1> QED BY <1>1, <1>2

LEMMA TagInv == OtaInv /\ CheckTag => OtaInv'
<1> SUFFICES ASSUME OtaInv, CheckTag PROVE OtaInv'
  OBVIOUS
<1>1. CASE Fail
  BY <1>1, FailInv DEF CheckTag
<1>2. CASE ~Fail
  BY <1>2 DEF CheckTag, OtaInv, OtaTypeOK, HandleIsIdleSlot, FlashIsReceived,
    TagHolds, BootIsComplete, Images, HasHandle
<1> QED BY <1>1, <1>2

LEMMA EndInv == OtaInv /\ OtaEnd => OtaInv'
<1> SUFFICES ASSUME OtaInv, OtaEnd PROVE OtaInv'
  OBVIOUS
<1>1. CASE Fail
  BY <1>1, FailInv DEF OtaEnd, Goto
<1>2. CASE ~Fail
  BY <1>2 DEF OtaEnd, Goto, OtaInv, OtaTypeOK, HandleIsIdleSlot,
    FlashIsReceived, TagHolds, BootIsComplete, Images, HasHandle
<1> QED BY <1>1, <1>2

LEMMA SetBootInv == OtaInv /\ SetBootPartition => OtaInv'
<1> SUFFICES ASSUME OtaInv, SetBootPartition PROVE OtaInv'
  OBVIOUS
<1>1. CASE Fail
  BY <1>1, FailInv DEF SetBootPartition, Goto
<1>2. CASE ~Fail
  <2>1. /\ ota.pc = "set_boot" /\ ota' = [ota EXCEPT !.pc = "restart"]
        /\ boot' = ota_ctx
        /\ UNCHANGED <<flash, running, ota_ctx>>
    BY <1>2 DEF SetBootPartition, Goto
  <2>2. ota_ctx \in Slots
    BY <2>1 DEF OtaInv, OtaTypeOK, FlashIsReceived, HasHandle
  <2>3. flash[ota_ctx] = ota.header.image /\ ota.header \in Files
    BY <2>1 DEF OtaInv, FlashIsReceived, TagHolds
  <2>4. BootIsComplete'
    BY <2>1, <2>3 DEF BootIsComplete, Images
  <2> QED
    BY <2>1, <2>2, <2>4 DEF OtaInv, OtaTypeOK, HandleIsIdleSlot,
      FlashIsReceived, TagHolds, HasHandle
<1> QED BY <1>1, <1>2

LEMMA NextInv == OtaInv /\ [OtaNext]_otaVars => OtaInv'
<1> SUFFICES ASSUME OtaInv, [OtaNext]_otaVars PROVE OtaInv'
  OBVIOUS
<1>1. CASE UNCHANGED otaVars
  BY <1>1 DEF otaVars, OtaInv, OtaTypeOK, HandleIsIdleSlot, FlashIsReceived,
    TagHolds, BootIsComplete, Images, HasHandle
<1>2. CASE StartUpdate \/ OtaReset
  BY <1>2, StartInv, ResetInv
<1>3. CASE OtaStep
  BY <1>3, HeaderInv, KeysInv, ChunkInv, BeginInv, WriteInv, TagInv, EndInv,
    SetBootInv, ResetInv DEF OtaStep, EspRestart
<1> QED BY <1>1, <1>2, <1>3 DEF OtaNext

\* Type correctness of the update, for every set of files and all sizes.
THEOREM OtaTypeCorrect == OtaSpec => []OtaTypeOK
<1>1. OtaInv => OtaTypeOK
  BY DEF OtaInv
<1> QED BY InitInv, NextInv, <1>1, PTL DEF OtaSpec

\* Whatever is sent to ota_update_stream and whenever the power goes, the slot
\* the boot loader will start holds the whole of an image.
THEOREM BootAlwaysComplete == OtaSpec => []BootIsComplete
<1>1. OtaInv => BootIsComplete
  BY DEF OtaInv
<1> QED BY InitInv, NextInv, <1>1, PTL DEF OtaSpec

(***************************************************************************)
(* The NVS memory.  WriteIsDurable is silent on the calls under way: one   *)
(* that has stored its blob, and that no other call for the same name has  *)
(* overtaken, will answer true for what is in flash.                       *)
(***************************************************************************)
Writing == {"write_open", "set_blob", "commit"}

Calls == [pc : Writing \union {"none", "read_open", "get_blob", "answer"},
          name : Names \union {""},
          blob : Blobs \union [size : 0 .. MaxSize],
          open : BOOLEAN, overtaken : BOOLEAN]

NvsTypeOK ==
  /\ nvs \in [Names -> Blobs \union {NO_BLOB}]
  /\ nvs_state \in {"off", "ready", "failed"}
  /\ nvs_call \in [NvsTasks -> Calls]
  /\ kept \in [Names -> Blobs \union {UNKNOWN}]

\* A call has the arguments it was made with, and none outlives the power.
CallsAreReal ==
  \A t \in NvsTasks :
    /\ nvs_call[t].pc # "none" =>
         nvs_state # "off" /\ nvs_call[t].name \in Names
    /\ nvs_call[t].pc \in Writing => nvs_call[t].blob \in Blobs

StoredIsInFlash ==
  \A t \in NvsTasks :
    nvs_call[t].pc = "commit" /\ ~nvs_call[t].overtaken =>
      nvs[nvs_call[t].name] = nvs_call[t].blob

NvsInv == NvsTypeOK /\ CallsAreReal /\ StoredIsInFlash /\ WriteIsDurable

LEMMA NoCallType == NoNvsCall \in Calls /\ NoNvsCall.pc = "none"
BY NvsAssumption DEF NoNvsCall, NO_BLOB, Calls

\* What one assignment to a call leaves alone.
LEMMA OvertakenCall ==
  ASSUME NEW c \in Calls, NEW d, d = [c EXCEPT !.overtaken = TRUE]
  PROVE  d \in Calls /\ d.pc = c.pc /\ d.name = c.name /\ d.blob = c.blob
           /\ d.overtaken
BY DEF Calls

LEMMA ClosedCall ==
  ASSUME NEW c \in Calls, NEW d, d = [c EXCEPT !.open = FALSE]
  PROVE  d \in Calls /\ d.pc = c.pc /\ d.name = c.name /\ d.blob = c.blob
           /\ d.overtaken = c.overtaken
BY DEF Calls

LEMMA StoredCall ==
  ASSUME NEW c \in Calls, NEW d, d = [c EXCEPT !.pc = "commit"]
  PROVE  d \in Calls /\ d.pc = "commit" /\ d.name = c.name /\ d.blob = c.blob
BY DEF Calls, Writing

LEMMA NvsInitInv == NvsInit => NvsInv
<1> SUFFICES ASSUME NvsInit PROVE NvsInv
  OBVIOUS
<1>1. nvs = [n \in Names |-> NO_BLOB] /\ kept = [n \in Names |-> UNKNOWN]
        /\ nvs_state = "off" /\ nvs_call = [t \in NvsTasks |-> NoNvsCall]
  BY DEF NvsInit
<1>2. NvsTypeOK
  BY <1>1, NoCallType DEF NvsTypeOK
<1>3. \A t \in NvsTasks : nvs_call[t].pc = "none"
  BY <1>1, NoCallType
<1> QED
  BY <1>1, <1>2, <1>3
  DEF NvsInv, CallsAreReal, StoredIsInFlash, WriteIsDurable, Writing

\* A call that ends, whatever its answer, leaves the others as they are.
LEMMA RefusedInv ==
  ASSUME NvsInv, NEW t \in NvsTasks, Refused(t)
  PROVE  NvsInv'
<1>1. nvs_call' = [nvs_call EXCEPT ![t] = NoNvsCall]
        /\ UNCHANGED <<nvs, nvs_state, kept>>
  BY DEF Refused
<1>2. NvsTypeOK'
  BY <1>1, NoCallType DEF NvsInv, NvsTypeOK
<1>3. \A u \in NvsTasks : nvs_call'[u].pc = "none" \/ nvs_call'[u] = nvs_call[u]
  BY <1>1, NoCallType DEF NvsInv, NvsTypeOK
<1> QED
  BY <1>1, <1>2, <1>3
  DEF NvsInv, CallsAreReal, StoredIsInFlash, WriteIsDurable, Writing

\* nvs_close of whatever is on the stack takes a handle from another call and
\* nothing else.
LEMMA CloseArbitraryInv ==
  ASSUME NvsInv, NEW t \in NvsTasks, CloseArbitrary(t),
         UNCHANGED <<nvs, nvs_state, kept>>
  PROVE  NvsInv'
<1>1. CASE nvs_call' = [nvs_call EXCEPT ![t] = NoNvsCall]
  BY <1>1, RefusedInv DEF Refused
<1>2. CASE nvs_call' # [nvs_call EXCEPT ![t] = NoNvsCall]
  <2>1. PICK u \in NvsTasks \ {t} :
          nvs_call' = [nvs_call EXCEPT ![t] = NoNvsCall, ![u].open = FALSE]
    BY <1>2 DEF CloseArbitrary
  <2>2. NvsTypeOK'
    BY <2>1, NoCallType, ClosedCall DEF NvsInv, NvsTypeOK
  <2>3. \A v \in NvsTasks :
          \/ nvs_call'[v].pc = "none"
          \/ /\ nvs_call'[v].pc = nvs_call[v].pc
             /\ nvs_call'[v].name = nvs_call[v].name
             /\ nvs_call'[v].blob = nvs_call[v].blob
             /\ nvs_call'[v].overtaken = nvs_call[v].overtaken
    <3>1. nvs_call[u] \in Calls /\ nvs_call'[t] = NoNvsCall
            /\ nvs_call'[u] = [nvs_call[u] EXCEPT !.open = FALSE]
            /\ \A v \in NvsTasks \ {t, u} : nvs_call'[v] = nvs_call[v]
      BY <2>1 DEF NvsInv, NvsTypeOK
    <3> QED
      BY <3>1, NoCallType, ClosedCall
  <2> QED
    BY <2>2, <2>3
    DEF NvsInv, CallsAreReal, StoredIsInFlash, WriteIsDurable, Writing
<1> QED BY <1>1, <1>2

LEMMA BeginNvsInv ==
  ASSUME NvsInv, NEW t \in NvsTasks, NEW n \in Names,
         NEW op \in {"write_open", "read_open"},
         NEW b \in Blobs \union [size : 0 .. MaxSize],
         NEW given \in BOOLEAN,
         op = "write_open" => b \in Blobs \union {NO_BLOB},
         BeginNvs(t, op, n, b, given)
  PROVE  NvsInv'
<1>1. CASE ~given \/ b.size = 0
  BY <1>1, RefusedInv DEF BeginNvs, Refused
<1>2. CASE given /\ b.size # 0
  <2> DEFINE c == [pc |-> op, name |-> n, blob |-> b, open |-> FALSE,
                   overtaken |-> FALSE]
  <2>1. nvs_call' = [nvs_call EXCEPT ![t] = c] /\ nvs_state # "off"
          /\ UNCHANGED <<nvs, nvs_state, kept>>
    BY <1>2 DEF BeginNvs
  <2>2. op = "write_open" => b \in Blobs
    BY <1>2 DEF NO_BLOB
  <2>3. NvsTypeOK'
    BY <2>1 DEF NvsInv, NvsTypeOK, Writing, Calls
  <2> QED
    BY <2>1, <2>2, <2>3
    DEF NvsInv, NvsTypeOK, CallsAreReal, StoredIsInFlash, WriteIsDurable, Writing
<1> QED BY <1>1, <1>2

LEMMA OpenInv ==
  ASSUME NvsInv, NEW t \in NvsTasks, WriteOpen(t) \/ ReadOpen(t)
  PROVE  NvsInv'
<1>1. CASE CloseArbitrary(t)
  BY <1>1, CloseArbitraryInv DEF WriteOpen, ReadOpen, Open
<1>2. CASE ~CloseArbitrary(t)
  <2>1. PICK to \in {"set_blob", "get_blob"} :
          /\ nvs_call[t].pc \in {"write_open", "read_open"}
          /\ to = "set_blob" => nvs_call[t].pc = "write_open"
          /\ nvs_call' = [nvs_call EXCEPT ![t].pc = to, ![t].open = TRUE]
          /\ UNCHANGED <<nvs, nvs_state, kept>>
    BY <1>2 DEF WriteOpen, ReadOpen, Open
  <2>2. PICK c : /\ c = [nvs_call[t] EXCEPT !.pc = to, !.open = TRUE]
                 /\ nvs_call' = [nvs_call EXCEPT ![t] = c]
    BY <2>1 DEF NvsInv, NvsTypeOK
  <2>3. /\ c \in Calls /\ c.pc = to /\ c.name = nvs_call[t].name
        /\ c.blob = nvs_call[t].blob
    <3>1. nvs_call[t] \in Calls /\ to \in {"set_blob", "get_blob"}
      BY DEF NvsInv, NvsTypeOK
    <3> QED
      BY <3>1, <2>2 DEF Calls, Writing
  <2>4. NvsTypeOK'
    BY <2>1, <2>2, <2>3 DEF NvsInv, NvsTypeOK
  <2>5. nvs_call'[t] = c /\ \A u \in NvsTasks \ {t} : nvs_call'[u] = nvs_call[u]
    BY <2>2 DEF NvsInv, NvsTypeOK
  <2> QED
    BY <2>1, <2>3, <2>4, <2>5, ZenonT(30)
    DEF NvsInv, CallsAreReal, StoredIsInFlash, WriteIsDurable, Writing
<1> QED BY <1>1, <1>2

\* Storing a blob is what may break a promise: it forgets the promise that was
\* given for the name, and overtakes the calls that were about to give one.
LEMMA SetBlobInv ==
  ASSUME NvsInv, NEW t \in NvsTasks, SetBlob(t)
  PROVE  NvsInv'
<1>1. CASE Refused(t)
  BY <1>1, RefusedInv
<1>2. CASE ~Refused(t)
  <2> DEFINE c == nvs_call[t]
  <2>1. /\ c.pc = "set_blob"
        /\ nvs' = [nvs EXCEPT ![c.name] = c.blob]
        /\ nvs_call' = [Overtake(t, c.name) EXCEPT ![t].pc = "commit"]
        /\ kept' = [kept EXCEPT ![c.name] = UNKNOWN]
        /\ UNCHANGED nvs_state
    BY <1>2 DEF SetBlob
  <2>2. c.name \in Names /\ c.blob \in Blobs /\ nvs_state # "off"
    BY <2>1 DEF NvsInv, CallsAreReal, Writing
  <2>3. nvs_call'[t] = [c EXCEPT !.pc = "commit"]
    BY <2>1 DEF Overtake
  <2>4. \A u \in NvsTasks \ {t} :
          nvs_call'[u] =
            IF nvs_call[u].pc = "commit" /\ nvs_call[u].name = c.name
            THEN [nvs_call[u] EXCEPT !.overtaken = TRUE] ELSE nvs_call[u]
    BY <2>1 DEF Overtake
  <2>5. /\ nvs_call'[t] \in Calls /\ nvs_call'[t].name = c.name
        /\ nvs_call'[t].blob = c.blob
    BY <2>3, StoredCall DEF NvsInv, NvsTypeOK
  <2>10. \A u \in NvsTasks \ {t} :
           /\ nvs_call'[u] \in Calls /\ nvs_call'[u].pc = nvs_call[u].pc
           /\ nvs_call'[u].name = nvs_call[u].name
           /\ nvs_call'[u].blob = nvs_call[u].blob
           /\ nvs_call[u].pc = "commit" /\ ~nvs_call'[u].overtaken =>
                nvs_call'[u] = nvs_call[u] /\ nvs_call[u].name # c.name
    BY <2>4, OvertakenCall, ZenonT(30) DEF NvsInv, NvsTypeOK
  <2>11. nvs_call' \in [NvsTasks -> Calls]
    <3>1. \A u \in NvsTasks : nvs_call'[u] \in Calls
      BY <2>5, <2>10
    <3> QED
      BY <2>1, <3>1 DEF Overtake
  <2>6. NvsTypeOK'
    BY <2>1, <2>2, <2>11 DEF NvsInv, NvsTypeOK
  <2>7. CallsAreReal'
    BY <2>1, <2>2, <2>5, <2>10 DEF NvsInv, CallsAreReal, Writing
  <2>8. StoredIsInFlash'
    <3>1. nvs'[c.name] = c.blob
      BY <2>1, <2>2 DEF NvsInv, NvsTypeOK
    <3>2. \A n \in Names \ {c.name} : nvs'[n] = nvs[n]
      BY <2>1, <2>2 DEF NvsInv, NvsTypeOK
    <3>3. SUFFICES ASSUME NEW u \in NvsTasks, nvs_call'[u].pc = "commit",
                          ~nvs_call'[u].overtaken
                   PROVE  nvs'[nvs_call'[u].name] = nvs_call'[u].blob
      BY DEF StoredIsInFlash
    <3>4. CASE u = t
      BY <2>5, <3>1, <3>4
    <3>5. CASE u # t
      <4>1. nvs_call'[u] = nvs_call[u] /\ nvs_call[u].name # c.name
        BY <2>10, <3>3, <3>5
      <4>2. nvs_call[u].name \in Names
        BY <3>3, <4>1 DEF NvsInv, CallsAreReal
      <4> QED
        BY <3>2, <3>3, <4>1, <4>2 DEF NvsInv, StoredIsInFlash
    <3> QED BY <3>4, <3>5
  <2>9. WriteIsDurable'
    BY <2>1, <2>2 DEF NvsInv, NvsTypeOK, WriteIsDurable
  <2> QED BY <2>6, <2>7, <2>8, <2>9 DEF NvsInv
<1> QED BY <1>1, <1>2

LEMMA CommitInv ==
  ASSUME NvsInv, NEW t \in NvsTasks, Commit(t)
  PROVE  NvsInv'
<1>1. CASE Refused(t)
  BY <1>1, RefusedInv
<1>2. CASE ~Refused(t)
  <2> DEFINE c == nvs_call[t]
  <2>1. /\ c.pc = "commit"
        /\ nvs_call' = [nvs_call EXCEPT ![t] = NoNvsCall]
        /\ kept' = IF c.overtaken THEN kept
                   ELSE [kept EXCEPT ![c.name] = c.blob]
        /\ UNCHANGED <<nvs, nvs_state>>
    BY <1>2 DEF Commit
  <2>2. c.name \in Names /\ c.blob \in Blobs
    BY <2>1 DEF NvsInv, CallsAreReal, Writing
  <2>3. ~c.overtaken => nvs[c.name] = c.blob
    BY <2>1 DEF NvsInv, StoredIsInFlash
  <2>4. \A u \in NvsTasks :
          nvs_call'[u].pc = "none" \/ nvs_call'[u] = nvs_call[u]
    BY <2>1, NoCallType DEF NvsInv, NvsTypeOK
  <2>5. NvsTypeOK'
    <3>1. kept' \in [Names -> Blobs \union {UNKNOWN}]
      BY <2>1, <2>2 DEF NvsInv, NvsTypeOK
    <3> QED
      BY <2>1, <3>1, NoCallType DEF NvsInv, NvsTypeOK
  <2>6. WriteIsDurable'
    BY <2>1, <2>2, <2>3 DEF NvsInv, NvsTypeOK, WriteIsDurable
  <2>7. CallsAreReal' /\ StoredIsInFlash'
    BY <2>1, <2>4 DEF NvsInv, CallsAreReal, StoredIsInFlash, Writing
  <2> QED BY <2>5, <2>6, <2>7 DEF NvsInv
<1> QED BY <1>1, <1>2

LEMMA GetBlobInv ==
  ASSUME NvsInv, NEW t \in NvsTasks, GetBlob(t)
  PROVE  NvsInv'
<1>1. CASE Refused(t)
  BY <1>1, RefusedInv
<1>2. CASE ~Refused(t)
  <2> DEFINE c == nvs_call[t]
             a == [NoNvsCall EXCEPT !.pc = "answer", !.name = c.name,
                                    !.blob = nvs[c.name]]
  <2>1. /\ c.pc = "get_blob" /\ nvs[c.name] # NO_BLOB
        /\ nvs_call' = [nvs_call EXCEPT ![t] = a]
        /\ UNCHANGED <<nvs, nvs_state, kept>>
    BY <1>2 DEF GetBlob
  <2>2. c.name \in Names /\ nvs_state # "off"
    BY <2>1 DEF NvsInv, CallsAreReal
  <2>3. nvs[c.name] \in Blobs
    BY <2>1, <2>2 DEF NvsInv, NvsTypeOK
  <2>4. a \in Calls /\ a.pc = "answer" /\ a.name = c.name
    BY <2>2, <2>3, NoCallType DEF Calls
  <2> HIDE DEF a
  <2>5. NvsTypeOK'
    BY <2>1, <2>4 DEF NvsInv, NvsTypeOK
  <2> QED
    BY <2>1, <2>2, <2>4, <2>5
    DEF NvsInv, NvsTypeOK, CallsAreReal, StoredIsInFlash, WriteIsDurable, Writing
<1> QED BY <1>1, <1>2

\* init_nvs runs before any call, and may erase everything.
LEMMA InitNvsInv ==
  ASSUME NvsInv, InitNvs \/ InitNvsErases
  PROVE  NvsInv'
<1>1. nvs_state = "off" /\ nvs_state' \in {"ready", "failed"}
        /\ UNCHANGED nvs_call
  BY DEF InitNvs, InitNvsErases
<1>2. \A t \in NvsTasks : nvs_call[t].pc = "none"
  BY <1>1 DEF NvsInv, CallsAreReal
<1>3. \/ UNCHANGED <<nvs, kept>>
      \/ nvs' = [n \in Names |-> NO_BLOB] /\ kept' = [n \in Names |-> UNKNOWN]
  BY DEF InitNvs, InitNvsErases
<1>4. NvsTypeOK'
  BY <1>1, <1>3 DEF NvsInv, NvsTypeOK
<1> QED
  BY <1>1, <1>2, <1>3, <1>4
  DEF NvsInv, CallsAreReal, StoredIsInFlash, WriteIsDurable, Writing

LEMMA NvsResetInv == NvsInv /\ NvsReset => NvsInv'
<1> SUFFICES ASSUME NvsInv, NvsReset PROVE NvsInv'
  OBVIOUS
<1>1. /\ nvs_state' = "off" /\ nvs_call' = [t \in NvsTasks |-> NoNvsCall]
      /\ UNCHANGED <<nvs, kept>>
  BY DEF NvsReset
<1>2. NvsTypeOK'
  BY <1>1, NoCallType DEF NvsInv, NvsTypeOK
<1>3. \A t \in NvsTasks : nvs_call'[t].pc = "none"
  BY <1>1, NoCallType
<1> QED
  BY <1>1, <1>2, <1>3
  DEF NvsInv, CallsAreReal, StoredIsInFlash, WriteIsDurable, Writing

LEMMA NvsCallInv ==
  ASSUME NvsInv, NEW t \in NvsTasks, NvsCallStep(t)
  PROVE  NvsInv'
<1>1. CASE \E n \in Names, b \in Blobs \union {NO_BLOB}, given \in BOOLEAN :
             BeginNvs(t, "write_open", n, b, given)
  <2>1. NO_BLOB \in [size : 0 .. MaxSize]
    BY NvsAssumption DEF NO_BLOB
  <2> QED
    BY <1>1, <2>1, BeginNvsInv
<1>2. CASE \E n \in Names, k \in 0 .. MaxSize, given \in BOOLEAN :
             BeginNvs(t, "read_open", n, [size |-> k], given)
  BY <1>2, BeginNvsInv
<1>3. CASE ReadReturns(t)
  BY <1>3, RefusedInv DEF ReadReturns
<1> QED
  BY <1>1, <1>2, <1>3, OpenInv, SetBlobInv, CommitInv, GetBlobInv
  DEF NvsCallStep

LEMMA NvsNextInv == NvsInv /\ [NvsNext]_nvsVars => NvsInv'
<1> SUFFICES ASSUME NvsInv, [NvsNext]_nvsVars PROVE NvsInv'
  OBVIOUS
<1>1. CASE UNCHANGED nvsVars
  BY <1>1 DEF nvsVars, NvsInv, NvsTypeOK, CallsAreReal, StoredIsInFlash,
    WriteIsDurable
<1> QED
  BY <1>1, NvsCallInv, InitNvsInv, NvsResetInv DEF NvsNext, NvsWork

\* A blob that write_flash was given and answered true for stays in flash, for
\* any number of tasks, names and blobs, and whatever handle a failed nvs_open
\* makes it close.  The answer true to a call that was given nothing (a size of
\* 0, a NULL pointer) stands for no blob, and takes none away.
THEOREM WritesAreDurable == NvsSpec => []WriteIsDurable
<1>1. NvsInv => WriteIsDurable
  BY DEF NvsInv
<1> QED BY NvsInitInv, NvsNextInv, <1>1, PTL DEF NvsSpec

(***************************************************************************)
(* The NDEF message.  While every transfer of it is done, the records lie  *)
(* one behind the other, the length field in front of them tells their     *)
(* end, and only the record in hand may be missing.  Between the steps of  *)
(* st25dv_ndef_write_content the length field is ahead of the records; when*)
(* it grows, their bytes are in content_buff only.                         *)
(***************************************************************************)
\* Places for the records rs, and for what follows the last.
Positions(rs) == [1 .. Len(rs) + 1 -> Nat]

TypeLen(r) == Len(r.type)
BodyLen(r) == Len(r.payload)
Size(r) == 4 + TypeLen(r) + BodyLen(r)

\* The first byte of a record with a short length and an ID length.
Flags(tnf) == {Bit(mb, 128) + Bit(me, 64) + 24 + tnf : mb, me \in BOOLEAN}

\* The records that fit record_data.
Records == {r \in [tnf : {2, 4}, type : Seq(Nat), payload : Seq(Nat)] :
              TypeLen(r) \in {15, 16} /\ BodyLen(r) \in 0 .. 255 /\ Size(r) <= 256}

\* The bytes of record r lie in m from a on.
Laid(m, a, r) ==
  /\ m[a] \in Flags(r.tnf)
  /\ m[a + 1] = TypeLen(r) /\ m[a + 2] = BodyLen(r) /\ m[a + 3] = 0
  /\ \A i \in 1 .. TypeLen(r) : m[a + 3 + i] = r.type[i]
  /\ \A i \in 1 .. BodyLen(r) : m[a + 3 + TypeLen(r) + i] = r.payload[i]

\* p[k] is the address of record k of the message rs, which begins at s.
Places(rs, p, s) ==
  /\ s \in {10, 12} /\ p[1] = s
  /\ \A k \in 1 .. Len(rs) : p[k + 1] = p[k] + Size(rs[k])
  /\ \A j, k \in 1 .. Len(rs) + 1 : j < k => p[j] + Size(rs[j]) <= p[k]

\* The first n records are in m.
UpTo(m, rs, p, n) == \A k \in 1 .. n : Laid(m, p[k], rs[k])

\* The bytes from a to b are the same.
Same(m, m2, a, b) == \A x \in a .. b - 1 : m2[x] = m[x]

Uint16 == {n \in Nat : n <= 65535}

\* The length field in front of the records, which begin at s.
Header(m, s, total) ==
  /\ m[8] = NDEF_MESSAGE
  /\ \/ s = 10 /\ total \in 0 .. 254 /\ m[9] = total
     \/ /\ s = 12 /\ total \in Uint16
        /\ m[9] = 255 /\ m[10] = total \div 256 /\ m[11] = total % 256

Last == Len(message.records)
End(p) == p[Last + 1]

\* st25dv_ndef_read has passed count records.
Reading(p, s) ==
  /\ reader.pc = "record" =>
       /\ reader.count \in 0 .. Last - 1 /\ reader.address = p[reader.count + 1]
       /\ reader.l = End(p) - s
  /\ reader.pc = "done" => reader.count = Last
  /\ reader.pc # "idle" =>
       /\ reader.num \in Nat \ {0}
       /\ reader.out = IF reader.num <= reader.count THEN message.records[reader.num]
                       ELSE NoRecord

\* The message has its terminator.
Closed(p, s) ==
  /\ UpTo(tag, message.records, p, Last)
  /\ Header(tag, s, End(p) - s)
  /\ End(p) < MEMORY /\ tag[End(p)] = TERMINATOR_TLV
  /\ Reading(p, s)

\* All its records are there, and the next is to come.
Unended(p, s) ==
  /\ UpTo(tag, message.records, p, Last)
  /\ Header(tag, s, End(p) - s)
  /\ End(p) <= MEMORY /\ next = End(p)

\* record_data has the record r.
IsData(r) == Len(writer.data) = Size(r) /\ Laid(writer.data, 1, r)

\* the record in hand is the last of the message and not yet on the tag
Pending(p, s) ==
  /\ Last > 1 /\ p[Last] < 256 /\ p[Last] <= MEMORY
  /\ IsData(message.records[Last])
  /\ writer.length = Size(message.records[Last])
  /\ writer.pc \in {"read_l", "write_l", "grow_l", "record"} =>
       UpTo(tag, message.records, p, Last - 1)
  /\ writer.pc \in {"read_l", "write_l", "grow_l"} =>
       Header(tag, s, p[Last] - s)
  /\ writer.pc \in {"read_l", "write_l", "record"} => writer.address = p[Last]
  /\ writer.pc = "write_l" => writer.l = Bytes(9, 3)
  /\ writer.pc \in {"grow_l", "grow_move"} =>
       /\ s = 10 /\ writer.address = p[Last] + 2 /\ writer.address < 256
       /\ writer.l[1] = p[Last] - s
       /\ Len(writer.content) = p[Last] - s
       /\ \A k \in 1 .. Last - 1 : Laid(writer.content, p[k] - 9, message.records[k])
  /\ writer.pc = "grow_move" => Header(tag, 12, End(p) - s)
  /\ writer.pc = "record" => Header(tag, s, End(p) - s)

\* The first record is in hand, with the head of the message.
First ==
  /\ Last = 1 /\ writer.pc = "record" /\ writer.address = 8
  /\ Len(writer.data) = 2 + Size(message.records[1])
  /\ writer.data[1] = NDEF_MESSAGE /\ writer.data[2] = Size(message.records[1])
  /\ Size(message.records[1]) <= 254
  /\ Laid(writer.data, 3, message.records[1])

TagContents ==
  \/ First
  \/ \E p \in Positions(message.records), s \in {10, 12} :
       /\ Places(message.records, p, s)
       /\ IF ~message.open THEN Closed(p, s)
          ELSE IF writer.pc \in {"idle", "terminator"} THEN Unended(p, s)
          ELSE Pending(p, s)

\* What holds whether or not the transfers are done.
TagBase ==
  /\ DOMAIN tag = 0 .. MEMORY - 1
  /\ message \in [records : Seq(Records), open : BOOLEAN, intact : BOOLEAN]
  /\ writer.pc \in {"idle", "read_l", "write_l", "grow_l",
                    "grow_move", "record", "terminator"}
  /\ writer.address \in Nat /\ Len(writer.data) \in Nat
  /\ DOMAIN writer = {"pc", "me", "data", "length", "address", "l", "content"}
  /\ DOMAIN reader = {"pc", "num", "count", "address", "l", "out"}
  /\ reader.pc \in {"idle", "record", "done"}
  /\ next \in Nat
  /\ ~message.open => next = 8 /\ writer.pc = "idle"
  /\ message.open => reader.pc = "idle"
  /\ message.open \/ message.intact => Last > 0

NdInv == TagBase /\ (message.intact => TagContents)

LEMMA RecordFacts ==
  ASSUME NEW r \in Records
  PROVE  /\ r.tnf \in {2, 4} /\ r.type \in Seq(Nat) /\ r.payload \in Seq(Nat)
         /\ TypeLen(r) \in Nat /\ TypeLen(r) >= 15 /\ TypeLen(r) <= 16
         /\ BodyLen(r) \in Nat /\ BodyLen(r) <= 255
         /\ Size(r) \in Nat /\ Size(r) >= 19 /\ Size(r) <= 256
         /\ Size(r) = 4 + TypeLen(r) + BodyLen(r)
<1>1. r \in [tnf : {2, 4}, type : Seq(Nat), payload : Seq(Nat)]
  BY DEF Records
<1>2. TypeLen(r) \in {15, 16} /\ BodyLen(r) \in 0 .. 255 /\ Size(r) <= 256
  BY DEF Records
<1>3. r.tnf \in {2, 4} /\ r.type \in Seq(Nat) /\ r.payload \in Seq(Nat)
  BY <1>1
<1>4. Size(r) = 4 + TypeLen(r) + BodyLen(r)
  BY DEF Size
<1>5. TypeLen(r) \in Nat /\ TypeLen(r) >= 15 /\ TypeLen(r) <= 16
  BY <1>2
<1>6. BodyLen(r) \in Nat /\ BodyLen(r) <= 255
  BY <1>2
<1>7. Size(r) \in Nat /\ Size(r) >= 19
  BY <1>4, <1>5, <1>6
<1> QED BY <1>2, <1>3, <1>4, <1>5, <1>6, <1>7

LEMMA RecordSame ==
  ASSUME NEW r \in Records
  PROVE  r = [tnf |-> r.tnf, type |-> r.type, payload |-> r.payload]
<1>1. r \in [tnf : {2, 4}, type : Seq(Nat), payload : Seq(Nat)]
  BY DEF Records
<1> QED BY <1>1

LEMMA FlagFacts ==
  ASSUME NEW tnf \in {2, 4}, NEW v \in Flags(tnf)
  PROVE  /\ v \in Nat /\ v # TERMINATOR_TLV
         /\ v % 8 = tnf /\ Flag(v, 16) /\ Flag(v, 8)
<1>1. \A b \in BOOLEAN : Bit(b, 128) \in {0, 128} /\ Bit(b, 64) \in {0, 64}
  BY DEF Bit
<1>2. PICK x \in {0, 128}, y \in {0, 64} : v = x + y + 24 + tnf
  BY <1>1 DEF Flags
<1> QED BY <1>2 DEF Flag, TERMINATOR_TLV

\* Bytes that are copied are the same record elsewhere.
LEMMA CopyLaid ==
  ASSUME NEW r \in Records, NEW m, NEW a \in Int, NEW n, NEW b \in Int,
         Laid(m, a, r), \A i \in 0 .. Size(r) - 1 : n[b + i] = m[a + i]
  PROVE  Laid(n, b, r)
<1>0. /\ TypeLen(r) \in Nat /\ BodyLen(r) \in Nat
      /\ Size(r) = 4 + TypeLen(r) + BodyLen(r)
  BY RecordFacts
<1>1. /\ n[b] = m[a] /\ n[b + 1] = m[a + 1] /\ n[b + 2] = m[a + 2]
      /\ n[b + 3] = m[a + 3]
  <2>1. b + 0 = b /\ a + 0 = a
    OBVIOUS
  <2>2. \A i \in 0 .. 3 : i \in 0 .. Size(r) - 1
    BY <1>0
  <2>3. n[b + 0] = m[a + 0]
    BY <2>2
  <2> QED BY <2>1, <2>2, <2>3
<1>2. \A i \in 1 .. TypeLen(r) : n[b + 3 + i] = r.type[i]
  <2> TAKE i \in 1 .. TypeLen(r)
  <2>1. 3 + i \in 0 .. Size(r) - 1 /\ b + (3 + i) = b + 3 + i /\ a + (3 + i) = a + 3 + i
    BY <1>0
  <2>2. n[b + (3 + i)] = m[a + (3 + i)]
    BY <2>1
  <2>3. m[a + 3 + i] = r.type[i]
    BY DEF Laid
  <2> QED BY <2>1, <2>2, <2>3
<1>3. \A i \in 1 .. BodyLen(r) : n[b + 3 + TypeLen(r) + i] = r.payload[i]
  <2> TAKE i \in 1 .. BodyLen(r)
  <2> DEFINE j == 3 + TypeLen(r) + i
  <2>1. /\ j \in 0 .. Size(r) - 1
        /\ b + j = b + 3 + TypeLen(r) + i /\ a + j = a + 3 + TypeLen(r) + i
    BY <1>0
  <2>2. n[b + j] = m[a + j]
    BY <2>1
  <2>3. m[a + 3 + TypeLen(r) + i] = r.payload[i]
    BY DEF Laid
  <2> QED BY <2>1, <2>2, <2>3
<1> QED BY <1>1, <1>2, <1>3 DEF Laid

\* A transfer puts its data where it is told and leaves the rest.
LEMMA StoredBytes ==
  ASSUME NEW a \in Nat, NEW data, Len(data) \in Nat, a + Len(data) <= MEMORY,
         tag' = Stored(a, data)
  PROVE  /\ DOMAIN tag' = 0 .. MEMORY - 1
         /\ \A i \in 1 .. Len(data) : tag'[a + i - 1] = data[i]
         /\ \A x \in 0 .. MEMORY - 1 : x < a \/ x >= a + Len(data) => tag'[x] = tag[x]
<1>1. DOMAIN tag' = 0 .. MEMORY - 1
  BY DEF Stored
<1>2. ASSUME NEW i \in 1 .. Len(data) PROVE tag'[a + i - 1] = data[i]
  <2>1. /\ a + i - 1 \in 0 .. MEMORY - 1 /\ a + i - 1 >= a /\ a + i - 1 < a + Len(data)
        /\ (a + i - 1) - a + 1 = i
    BY TagAssumption
  <2>2. tag'[a + i - 1] = data[(a + i - 1) - a + 1]
    BY <2>1 DEF Stored
  <2> QED BY <2>1, <2>2
<1>3. \A x \in 0 .. MEMORY - 1 : x < a \/ x >= a + Len(data) => tag'[x] = tag[x]
  BY DEF Stored
<1> QED BY <1>1, <1>2, <1>3

LEMMA WrittenLaid ==
  ASSUME NEW r \in Records, NEW a \in Nat, NEW data, Len(data) \in Nat,
         a + Len(data) <= MEMORY, tag' = Stored(a, data),
         NEW j \in Nat \ {0}, Laid(data, j, r), j + Size(r) - 1 <= Len(data),
         NEW b, b = a + j - 1
  PROVE  Laid(tag', b, r)
<1>0. Size(r) \in Nat
  BY RecordFacts
<1>1. \A i \in 1 .. Len(data) : tag'[a + i - 1] = data[i]
  BY StoredBytes
<1>2. \A i \in 0 .. Size(r) - 1 : tag'[b + i] = data[j + i]
  <2> TAKE i \in 0 .. Size(r) - 1
  <2>1. j + i \in 1 .. Len(data) /\ a + (j + i) - 1 = b + i
    BY <1>0
  <2>2. tag'[a + (j + i) - 1] = data[j + i]
    BY <1>1, <2>1
  <2> QED BY <2>1, <2>2
<1>3. b \in Int /\ j \in Int
  OBVIOUS
<1> DEFINE t == tag'
<1> HIDE DEF t
<1>4. \A i \in 0 .. Size(r) - 1 : t[b + i] = data[j + i]
  BY <1>2 DEF t
<1>5. Laid(t, b, r)
  BY <1>3, <1>4, CopyLaid
<1> QED BY <1>5 DEF t

LEMMA UntouchedLaid ==
  ASSUME NEW r \in Records, NEW a \in Nat, NEW data, Len(data) \in Nat,
         a + Len(data) <= MEMORY, tag' = Stored(a, data),
         NEW b \in Nat, Laid(tag, b, r), b + Size(r) <= MEMORY,
         b + Size(r) <= a \/ b >= a + Len(data)
  PROVE  Laid(tag', b, r)
<1>0. Size(r) \in Nat
  BY RecordFacts
<1>1. \A x \in 0 .. MEMORY - 1 : x < a \/ x >= a + Len(data) => tag'[x] = tag[x]
  BY StoredBytes
<1>2. \A i \in 0 .. Size(r) - 1 : tag'[b + i] = tag[b + i]
  BY <1>0, <1>1, TagAssumption
<1> DEFINE t == tag'
<1> HIDE DEF t
<1>4. \A i \in 0 .. Size(r) - 1 : t[b + i] = tag[b + i]
  BY <1>2 DEF t
<1>5. Laid(t, b, r)
  BY <1>4, CopyLaid
<1> QED BY <1>5 DEF t

(***************************************************************************)
(* What st25dv_ndef_write_content puts together.                           *)
(***************************************************************************)
\* d is s, of length n, and then t, of length k.
IsJoin(d, s, n, t, k) ==
  /\ d \in Seq(Nat) /\ Len(d) = n + k
  /\ \A i \in 1 .. n : d[i] = s[i]
  /\ \A i \in 1 .. k : d[n + i] = t[i]

LEMMA Joined ==
  ASSUME NEW s \in Seq(Nat), NEW t \in Seq(Nat), NEW n \in Nat, NEW k \in Nat,
         Len(s) = n, Len(t) = k
  PROVE  IsJoin(s \o t, s, n, t, k)
<1>1. /\ s \o t \in Seq(Nat) /\ Len(s \o t) = Len(s) + Len(t)
      /\ \A i \in 1 .. Len(s) + Len(t) :
           (s \o t)[i] = IF i <= Len(s) THEN s[i] ELSE t[i - Len(s)]
  BY ConcatProperties, Zenon
<1>2. \A i \in 1 .. n + k : (s \o t)[i] = IF i <= n THEN s[i] ELSE t[i - n]
  BY <1>1
<1>3. \A i \in 1 .. n : (s \o t)[i] = s[i]
  <2> TAKE i \in 1 .. n
  <2>1. i \in 1 .. n + k /\ i <= n
    OBVIOUS
  <2> QED BY <1>2, <2>1, Zenon
<1>4. \A i \in 1 .. k : (s \o t)[n + i] = t[i]
  <2> TAKE i \in 1 .. k
  <2>1. PICK j \in 1 .. n + k : j = n + i
    OBVIOUS
  <2>2. ~(j <= n) /\ j - n = i
    BY <2>1
  <2>3. (s \o t)[j] = t[j - n]
    BY <1>2, <2>2, Zenon
  <2> QED BY <2>1, <2>2, <2>3, Zenon
<1>5. Len(s \o t) = n + k
  BY <1>1, Zenon
<1> QED BY <1>1, <1>3, <1>4, <1>5, Zenon DEF IsJoin

AreParts(d, h, nh, x, y, z, t, nt, b, nb) ==
  /\ Len(d) = nh + 4 + nt + nb
  /\ \A i \in 1 .. nh : d[i] = h[i]
  /\ d[nh + 1] = x /\ d[nh + 2] = y /\ d[nh + 3] = z /\ d[nh + 4] = 0
  /\ \A i \in 1 .. nt : d[nh + 4 + i] = t[i]
  /\ \A i \in 1 .. nb : d[nh + 4 + nt + i] = b[i]

LEMMA Parts ==
  ASSUME NEW h \in Seq(Nat), NEW t \in Seq(Nat), NEW b \in Seq(Nat),
         NEW x \in Nat, NEW y \in Nat, NEW z \in Nat,
         NEW nh \in Nat, NEW nt \in Nat, NEW nb \in Nat,
         Len(h) = nh, Len(t) = nt, Len(b) = nb,
         NEW d, d = h \o <<x, y>> \o <<z>> \o << 0 >> \o t \o b
  PROVE  AreParts(d, h, nh, x, y, z, t, nt, b, nb)
<1> DEFINE u1 == h \o <<x, y>>
           u2 == u1 \o <<z>>
           u3 == u2 \o <<0>>
           u4 == u3 \o t
<1>1. /\ <<x, y>> \in Seq(Nat) /\ Len(<<x, y>>) = 2 /\ 2 \in Nat
      /\ <<z>> \in Seq(Nat) /\ Len(<<z>>) = 1 /\ 1 \in Nat
      /\ <<0>> \in Seq(Nat) /\ Len(<<0>>) = 1
      /\ nh + 2 \in Nat /\ nh + 2 + 1 \in Nat /\ nh + 2 + 1 + 1 \in Nat
      /\ nh + 2 + 1 + 1 + nt \in Nat
  OBVIOUS
<1>a. IsJoin(u1, h, nh, <<x, y>>, 2)
  BY <1>1, Joined
<1> HIDE DEF u1
<1>2. /\ u1 \in Seq(Nat) /\ Len(u1) = nh + 2
      /\ \A i \in 1 .. nh : u1[i] = h[i]
      /\ \A i \in 1 .. 2 : u1[nh + i] = <<x, y>>[i]
  BY <1>a, Zenon DEF IsJoin
<1>b. IsJoin(u2, u1, nh + 2, <<z>>, 1)
  BY <1>1, <1>2, Joined
<1> HIDE DEF u2
<1>3. /\ u2 \in Seq(Nat) /\ Len(u2) = nh + 2 + 1
      /\ \A i \in 1 .. nh + 2 : u2[i] = u1[i]
      /\ \A i \in 1 .. 1 : u2[nh + 2 + i] = <<z>>[i]
  BY <1>b, Zenon DEF IsJoin
<1>c. IsJoin(u3, u2, nh + 2 + 1, <<0>>, 1)
  BY <1>1, <1>3, Joined
<1> HIDE DEF u3
<1>4. /\ u3 \in Seq(Nat) /\ Len(u3) = nh + 2 + 1 + 1
      /\ \A i \in 1 .. nh + 2 + 1 : u3[i] = u2[i]
      /\ \A i \in 1 .. 1 : u3[nh + 2 + 1 + i] = <<0>>[i]
  BY <1>c, Zenon DEF IsJoin
<1>d. IsJoin(u4, u3, nh + 2 + 1 + 1, t, nt)
  BY <1>1, <1>4, Joined
<1> HIDE DEF u4
<1>5. /\ u4 \in Seq(Nat) /\ Len(u4) = nh + 2 + 1 + 1 + nt
      /\ \A i \in 1 .. nh + 2 + 1 + 1 : u4[i] = u3[i]
      /\ \A i \in 1 .. nt : u4[nh + 2 + 1 + 1 + i] = t[i]
  BY <1>d, Zenon DEF IsJoin
<1>6. d = u4 \o b
  BY DEF u1, u2, u3, u4
<1>e. IsJoin(d, u4, nh + 2 + 1 + 1 + nt, b, nb)
  <2>1. IsJoin(u4 \o b, u4, nh + 2 + 1 + 1 + nt, b, nb)
    BY <1>1, <1>5, Joined
  <2> QED BY <2>1, <1>6, Zenon
<1>7. /\ d \in Seq(Nat) /\ Len(d) = nh + 2 + 1 + 1 + nt + nb
      /\ \A i \in 1 .. nh + 2 + 1 + 1 + nt : d[i] = u4[i]
      /\ \A i \in 1 .. nb : d[nh + 2 + 1 + 1 + nt + i] = b[i]
  BY <1>e, Zenon DEF IsJoin
<1>8. \A i \in 1 .. nh + 4 : d[i] = u3[i]
  <2> TAKE i \in 1 .. nh + 4
  <2>1. i \in 1 .. nh + 2 + 1 + 1 /\ i \in 1 .. nh + 2 + 1 + 1 + nt
    OBVIOUS
  <2> QED BY <2>1, <1>5, <1>7, Zenon
<1>9. \A i \in 1 .. nh : d[i] = h[i]
  <2> TAKE i \in 1 .. nh
  <2>1. i \in 1 .. nh + 2 /\ i \in 1 .. nh + 2 + 1 /\ i \in 1 .. nh + 4
    OBVIOUS
  <2> QED BY <2>1, <1>2, <1>3, <1>4, <1>8, ZenonT(30)
<1>10. d[nh + 1] = x /\ d[nh + 2] = y
  <2>1. /\ nh + 1 \in 1 .. nh + 2 /\ nh + 1 \in 1 .. nh + 2 + 1 /\ nh + 1 \in 1 .. nh + 4
        /\ nh + 2 \in 1 .. nh + 2 /\ nh + 2 \in 1 .. nh + 2 + 1 /\ nh + 2 \in 1 .. nh + 4
        /\ 1 \in 1 .. 2 /\ 2 \in 1 .. 2 /\ <<x, y>>[1] = x /\ <<x, y>>[2] = y
    OBVIOUS
  <2>2. d[nh + 1] = u1[nh + 1] /\ d[nh + 2] = u1[nh + 2]
    BY <2>1, <1>3, <1>4, <1>8, Zenon
  <2>3. u1[nh + 1] = <<x, y>>[1] /\ u1[nh + 2] = <<x, y>>[2]
    BY <2>1, <1>2, Zenon
  <2> QED BY <2>1, <2>2, <2>3
<1>11. d[nh + 3] = z
  <2>1. /\ nh + 2 + 1 \in 1 .. nh + 2 + 1 /\ nh + 2 + 1 \in 1 .. nh + 4
        /\ 1 \in 1 .. 1 /\ <<z>>[1] = z /\ nh + 2 + 1 = nh + 3
    OBVIOUS
  <2>2. d[nh + 2 + 1] = u2[nh + 2 + 1]
    BY <2>1, <1>4, <1>8, Zenon
  <2>3. u2[nh + 2 + 1] = <<z>>[1]
    BY <2>1, <1>3, Zenon
  <2> QED BY <2>1, <2>2, <2>3
<1>12. d[nh + 4] = 0
  <2>1. /\ nh + 2 + 1 + 1 \in 1 .. nh + 4
        /\ 1 \in 1 .. 1 /\ <<0>>[1] = 0 /\ nh + 2 + 1 + 1 = nh + 4
    OBVIOUS
  <2> QED BY <2>1, <1>4, <1>8, Zenon
<1>13. \A i \in 1 .. nt : d[nh + 4 + i] = t[i]
  <2> TAKE i \in 1 .. nt
  <2>1. nh + 2 + 1 + 1 + i \in 1 .. nh + 2 + 1 + 1 + nt /\ nh + 2 + 1 + 1 + i = nh + 4 + i
    OBVIOUS
  <2> QED BY <2>1, <1>5, <1>7, Zenon
<1>14. nh + 2 + 1 + 1 + nt = nh + 4 + nt
  OBVIOUS
<1>15. \A i \in 1 .. nb : d[nh + 4 + nt + i] = b[i]
  BY <1>7, <1>14, Zenon
<1>16. Len(d) = nh + 4 + nt + nb
  BY <1>7, <1>14, Zenon
<1> QED BY <1>9, <1>10, <1>11, <1>12, <1>13, <1>15, <1>16, Zenon DEF AreParts

\* A long payload does not fit record_data.
LEMMA LongParts ==
  ASSUME NEW h \in Seq(Nat), NEW f \in Seq(Nat), NEW l \in Seq(Nat),
         NEW t \in Seq(Nat), NEW b \in Seq(Nat), NEW nb \in Nat, Len(b) = nb,
         NEW d, d = h \o f \o l \o << 0 >> \o t \o b
  PROVE  \E n \in Nat : Len(d) = n /\ n > nb
<1> DEFINE u1 == h \o f
           u2 == u1 \o l
           u3 == u2 \o <<0>>
           u4 == u3 \o t
<1>1. PICK nh \in Nat, nf \in Nat, nl \in Nat, nt \in Nat :
        Len(h) = nh /\ Len(f) = nf /\ Len(l) = nl /\ Len(t) = nt
  OBVIOUS
<1>2. /\ <<0>> \in Seq(Nat) /\ Len(<<0>>) = 1 /\ 1 \in Nat
      /\ nh + nf \in Nat /\ nh + nf + nl \in Nat /\ nh + nf + nl + 1 \in Nat
      /\ nh + nf + nl + 1 + nt \in Nat
  OBVIOUS
<1>a. IsJoin(u1, h, nh, f, nf)
  BY <1>1, Joined
<1> HIDE DEF u1
<1>b. IsJoin(u2, u1, nh + nf, l, nl)
  <2>1. u1 \in Seq(Nat) /\ Len(u1) = nh + nf
    BY <1>a, Zenon DEF IsJoin
  <2> QED BY <1>1, <1>2, <2>1, Joined
<1> HIDE DEF u2
<1>c. IsJoin(u3, u2, nh + nf + nl, <<0>>, 1)
  <2>1. u2 \in Seq(Nat) /\ Len(u2) = nh + nf + nl
    BY <1>b, Zenon DEF IsJoin
  <2> QED BY <1>1, <1>2, <2>1, Joined
<1> HIDE DEF u3
<1>d. IsJoin(u4, u3, nh + nf + nl + 1, t, nt)
  <2>1. u3 \in Seq(Nat) /\ Len(u3) = nh + nf + nl + 1
    BY <1>c, Zenon DEF IsJoin
  <2> QED BY <1>1, <1>2, <2>1, Joined
<1> HIDE DEF u4
<1>e. IsJoin(u4 \o b, u4, nh + nf + nl + 1 + nt, b, nb)
  <2>1. u4 \in Seq(Nat) /\ Len(u4) = nh + nf + nl + 1 + nt
    BY <1>d, Zenon DEF IsJoin
  <2> QED BY <1>1, <1>2, <2>1, Joined
<1>6. Len(u4 \o b) = nh + nf + nl + 1 + nt + nb
  BY <1>e, Zenon DEF IsJoin
<1>7. d = u4 \o b
  BY DEF u1, u2, u3, u4
<1>8. nh + nf + nl + 1 + nt + nb \in Nat /\ nh + nf + nl + 1 + nt + nb > nb
  OBVIOUS
<1> QED BY <1>6, <1>7, <1>8, Zenon

LEMMA TextFacts ==
  ASSUME NEW n \in Nat, NEW c \in Nat
  PROVE  Text(n, c) \in Seq(Nat) /\ Len(Text(n, c)) = n
BY DEF Text

\* record_data has the record r, behind the head of the message if it is the first.
IsNextData(data, r) == Len(data) = Size(r) /\ Laid(data, 1, r)
IsFirstData(data, r) ==
  /\ Size(r) <= 254 /\ Len(data) = 2 + Size(r)
  /\ data[1] = NDEF_MESSAGE /\ data[2] = Size(r) /\ Laid(data, 3, r)

\* The records of the two callers, in record_data.
LEMMA RecordDataFacts ==
  ASSUME NEW n \in Nat, NEW r, r = AppLauncher(n) \/ r = JsonRecord(n),
         NEW mb \in BOOLEAN, NEW me \in BOOLEAN,
         Len(RecordData(mb, me, r)) <= RECORD_BUF_SIZE
  PROVE  /\ r \in Records /\ RecordLength(r) = Size(r)
         /\ ~mb => IsNextData(RecordData(mb, me, r), r)
         /\ mb => IsFirstData(RecordData(mb, me, r), r)
<1>1. /\ r \in [tnf : {2, 4}, type : Seq(Nat), payload : Seq(Nat)]
      /\ Len(r.type) \in {15, 16} /\ Len(r.payload) = n
  <2>1. \A k \in Nat : /\ Text(n, k) \in Seq(Nat) /\ Len(Text(n, k)) = n
                       /\ Text(15, k) \in Seq(Nat) /\ Len(Text(15, k)) = 15
                       /\ Text(16, k) \in Seq(Nat) /\ Len(Text(16, k)) = 16
    BY TextFacts
  <2>2. CASE r = AppLauncher(n)
    BY <2>1, <2>2 DEF AppLauncher
  <2>3. CASE r = JsonRecord(n)
    BY <2>1, <2>3 DEF JsonRecord
  <2> QED BY <2>2, <2>3
<1>2. PICK nt \in {15, 16} : nt = Len(r.type)
  BY <1>1
<1> DEFINE t == r.type
           b == r.payload
           h == IF mb THEN TlvHead(r) ELSE <<>>
           x == Bit(mb, 128) + Bit(me, 64) + Bit(n <= 255, 16) + 8 + r.tnf
           d == RecordData(mb, me, r)
<1>3. /\ t \in Seq(Nat) /\ b \in Seq(Nat) /\ Len(t) = nt /\ Len(b) = n
      /\ nt \in Nat /\ r.tnf \in {2, 4}
  BY <1>1, <1>2
<1>4. x \in Nat
  BY <1>3 DEF Bit
<1>5. d = h \o <<x, nt>> \o PayloadLength(n) \o <<0>> \o t \o b
  BY <1>3 DEF RecordData
<1>6. RecordLength(r) = 3 + (IF n > 255 THEN 4 ELSE 1) + nt + n
  BY <1>3 DEF RecordLength
<1>7. h \in Seq(Nat)
  BY <1>3, <1>6 DEF TlvHead, NDEF_MESSAGE
<1> HIDE DEF t, b, h, x, d
<1>8. n <= 255
  <2> SUFFICES ASSUME n > 255 PROVE FALSE
    OBVIOUS
  <2>1. PayloadLength(n) \in Seq(Nat) /\ <<x, nt>> \in Seq(Nat)
    BY <1>3, <1>4 DEF PayloadLength
  <2>2. PICK k \in Nat : Len(d) = k /\ k > n
    BY <1>3, <1>5, <1>7, <2>1, LongParts
  <2>3. Len(d) <= 256
    BY DEF d, RECORD_BUF_SIZE
  <2>4. k <= 256
    BY <2>2, <2>3, Zenon
  <2> QED BY <2>2, <2>4
<1>9. d = h \o <<x, nt>> \o <<n>> \o <<0>> \o t \o b
  BY <1>5, <1>8, SMTT(30) DEF PayloadLength
<1>10. PICK nh \in Nat : Len(h) = nh
  BY <1>7
<1>11. /\ Len(d) = nh + 4 + nt + n
       /\ \A i \in 1 .. nh : d[i] = h[i]
       /\ d[nh + 1] = x /\ d[nh + 2] = nt /\ d[nh + 3] = n /\ d[nh + 4] = 0
       /\ \A i \in 1 .. nt : d[nh + 4 + i] = t[i]
       /\ \A i \in 1 .. n : d[nh + 4 + nt + i] = b[i]
  <2>1. AreParts(d, h, nh, x, nt, n, t, nt, b, n)
    BY <1>3, <1>4, <1>7, <1>9, <1>10, Parts
  <2> QED BY <2>1, Zenon DEF AreParts
<1>12. TypeLen(r) = nt /\ BodyLen(r) = n /\ Size(r) = 4 + nt + n
  BY <1>3 DEF TypeLen, BodyLen, Size, t, b
<1>13. RecordLength(r) = Size(r)
  BY <1>3, <1>6, <1>8, <1>12
<1>14. nh + 4 + nt + n <= 256
  <2>1. Len(d) <= 256
    BY DEF d, RECORD_BUF_SIZE
  <2> QED BY <2>1, <1>11, Zenon
<1>15. r \in Records
  <2>1. nt \in Nat
    OBVIOUS
  <2>2. 4 + nt + n <= 256
    BY <2>1, <1>14
  <2>3. Size(r) <= 256 /\ TypeLen(r) \in {15, 16} /\ BodyLen(r) \in 0 .. 255
    <3>1. nt \in {15, 16} /\ n \in 0 .. 255
      BY <1>8
    <3> QED BY <3>1, <2>2, <1>12, ZenonT(30)
  <2> QED BY <1>1, <2>3, Zenon DEF Records
<1>16. x \in Flags(r.tnf)
  BY <1>3, <1>8 DEF Flags, Bit, x
<1>17. Laid(d, nh + 1, r)
  <2>1. /\ nh + 1 + 1 = nh + 2 /\ nh + 1 + 2 = nh + 3 /\ nh + 1 + 3 = nh + 4
    OBVIOUS
  <2>2. \A i \in 1 .. nt : d[nh + 1 + 3 + i] = t[i]
    BY <2>1, <1>11, Zenon
  <2>3. \A i \in 1 .. n : d[nh + 1 + 3 + nt + i] = b[i]
    BY <2>1, <1>11, Zenon
  <2> QED BY <1>11, <1>12, <1>16, <2>1, <2>2, <2>3, Zenon DEF Laid, t, b
<1>18. CASE ~mb
  <2>1. h = <<>> /\ Len(h) = 0
    BY <1>18 DEF h
  <2>2. nh = 0
    BY <2>1, <1>10
  <2>3. Len(d) = Size(r) /\ Laid(d, 1, r)
    <3>1. nh + 1 = 1 /\ nh + 4 + nt + n = 4 + nt + n
      BY <2>2, <1>3
    <3> QED BY <3>1, <1>11, <1>12, <1>17, Zenon
  <2>4. IsNextData(d, r)
    BY <2>3, Zenon DEF IsNextData
  <2> HIDE DEF d
  <2> QED BY <2>4, <1>13, <1>15, <1>18 DEF d
<1>19. CASE mb
  <2>1. Size(r) <= 254
    <3>1. SUFFICES ASSUME Size(r) > 254 PROVE FALSE
      BY <1>3, <1>12
    <3>2. h = <<NDEF_MESSAGE>> \o <<255, Size(r) \div 256, Size(r) % 256>>
      BY <1>13, <1>19, <3>1 DEF h, TlvHead
    <3>3. PICK u \in Seq(Nat) : u = <<NDEF_MESSAGE>> /\ Len(u) = 1
      <4>1. <<NDEF_MESSAGE>> \in Seq(Nat) /\ Len(<<NDEF_MESSAGE>>) = 1
        BY DEF NDEF_MESSAGE
      <4> QED BY <4>1
    <3>5. PICK a \in Nat, c \in Nat : a = Size(r) \div 256 /\ c = Size(r) % 256
      BY <1>3, <1>12
    <3>6. PICK w \in Seq(Nat) : w = <<255, a, c>> /\ Len(w) = 3
      <4>1. <<255, a, c>> \in Seq(Nat) /\ Len(<<255, a, c>>) = 3
        OBVIOUS
      <4> QED BY <4>1
    <3>7. Len(h) = 1 + 3
      <4>1. h = u \o w
        BY <3>2, <3>3, <3>5, <3>6
      <4>2. IsJoin(u \o w, u, 1, w, 3)
        <5>1. 1 \in Nat /\ 3 \in Nat
          OBVIOUS
        <5>2. Len(u) = 1 /\ Len(w) = 3
          BY <3>3, <3>6
        <5> QED BY <5>1, <5>2, Joined
      <4> QED BY <4>1, <4>2, Zenon DEF IsJoin
    <3>4. nh = 4
      <4>1. nh = 1 + 3
        BY <3>7, <1>10, Zenon
      <4> QED BY <4>1
    <3>8. nt \in Nat
      OBVIOUS
    <3>9. 4 + nt + n > 254
      BY <3>1, <1>12, Zenon
    <3>10. 4 + 4 + nt + n <= 256
      BY <3>4, <1>14, Zenon
    <3> QED BY <3>8, <3>9, <3>10
  <2>2. h = <<NDEF_MESSAGE>> \o <<Size(r)>>
    BY <1>3, <1>12, <1>13, <1>19, <2>1 DEF h, TlvHead
  <2>3. IsJoin(h, <<NDEF_MESSAGE>>, 1, <<Size(r)>>, 1)
    <3>1. /\ <<NDEF_MESSAGE>> \in Seq(Nat) /\ Len(<<NDEF_MESSAGE>>) = 1
          /\ \A a \in Nat : <<a>> \in Seq(Nat) /\ Len(<<a>>) = 1
          /\ 1 \in Nat
      BY DEF NDEF_MESSAGE
    <3>2. Size(r) \in Nat
      BY <1>3, <1>12
    <3> QED BY <2>2, <3>1, <3>2, Joined, Zenon
  <2>4. nh = 2 /\ h[1] = NDEF_MESSAGE /\ h[2] = Size(r)
    <3>1. /\ Len(h) = 1 + 1
          /\ \A i \in 1 .. 1 : h[i] = <<NDEF_MESSAGE>>[i]
          /\ \A i \in 1 .. 1 : h[1 + i] = <<Size(r)>>[i]
      BY <2>3, Zenon DEF IsJoin
    <3> QED BY <3>1, <1>10, SMTT(30)
  <2>5. /\ nh + 1 = 3 /\ nh + 4 + nt + n = 2 + (4 + nt + n)
        /\ 1 \in 1 .. nh /\ 2 \in 1 .. nh
    BY <2>4, <1>3
  <2>6. Len(d) = 2 + Size(r) /\ Laid(d, 3, r) /\ d[1] = NDEF_MESSAGE /\ d[2] = Size(r)
    BY <2>4, <2>5, <1>11, <1>12, <1>17, Zenon
  <2>7. IsFirstData(d, r)
    BY <2>1, <2>6 DEF IsFirstData
  <2> HIDE DEF d
  <2> QED BY <2>7, <1>13, <1>15, <1>19 DEF d
<1> QED BY <1>18, <1>19

LEMMA FirstData ==
  ASSUME NEW n \in Nat, NEW r, r = AppLauncher(n) \/ r = JsonRecord(n),
         NEW me \in BOOLEAN, NEW data, data = RecordData(TRUE, me, r),
         Len(RecordData(TRUE, me, r)) <= RECORD_BUF_SIZE
  PROVE  r \in Records /\ IsFirstData(data, r)
<1>1. TRUE \in BOOLEAN
  OBVIOUS
<1> QED BY <1>1, RecordDataFacts, Zenon

LEMMA NextData ==
  ASSUME NEW n \in Nat, NEW r, r = AppLauncher(n) \/ r = JsonRecord(n),
         NEW me \in BOOLEAN, NEW data, data = RecordData(FALSE, me, r),
         Len(RecordData(FALSE, me, r)) <= RECORD_BUF_SIZE
  PROVE  r \in Records /\ RecordLength(r) = Size(r) /\ IsNextData(data, r)
<1>1. FALSE \in BOOLEAN
  OBVIOUS
<1> QED BY <1>1, RecordDataFacts, Zenon

(***************************************************************************)
(* What st25dv_ndef_read finds where a record lies.                        *)
(***************************************************************************)
LEMMA ParseLaid ==
  ASSUME NEW r \in Records, NEW a \in Nat, Laid(tag, a, r)
  PROVE  /\ RecordAt(a).end = a + Size(r)
         /\ Read(RecordAt(a)) = r
<1> DEFINE nt == TypeLen(r)
           nb == BodyLen(r)
           v  == tag[a]
<1>1. /\ nt \in Nat /\ nb \in Nat /\ Size(r) = 4 + nt + nb /\ r.tnf \in {2, 4}
      /\ r.type \in Seq(Nat) /\ r.payload \in Seq(Nat)
  BY RecordFacts
<1>2. nt = Len(r.type) /\ nb = Len(r.payload)
  BY DEF TypeLen, BodyLen
<1>3. /\ v \in Flags(r.tnf) /\ tag[a + 1] = nt /\ tag[a + 2] = nb
      /\ \A i \in 1 .. nt : tag[a + 3 + i] = r.type[i]
      /\ \A i \in 1 .. nb : tag[a + 3 + nt + i] = r.payload[i]
  BY Zenon DEF Laid
<1> HIDE DEF nt, nb, v
<1>4. v \in Nat /\ v % 8 = r.tnf /\ Flag(v, 16) /\ Flag(v, 8)
  BY <1>1, <1>3, FlagFacts
<1> DEFINE x == [tnf |-> r.tnf, types |-> a + 4, payloads |-> a + 4 + nt,
                 end |-> a + 4 + nt + nb]
<1>5. RecordAt(a) = x
  <2>1. a + 2 + 1 + 1 = a + 4 /\ a + 2 + 1 + Bit(TRUE, 1) = a + 4
    BY DEF Bit
  <2>2. Flag(tag[a], 16) = TRUE /\ Flag(tag[a], 8) = TRUE /\ tag[a] % 8 = r.tnf
    BY <1>4 DEF v, Flag
  <2> QED BY <2>1, <2>2, <1>3, Zenon DEF RecordAt
<1>6. x.end = a + Size(r)
  BY <1>1
<1>7. x.tnf = r.tnf /\ x.types = a + 4 /\ x.payloads = a + 4 + nt /\ x.end = a + 4 + nt + nb
  OBVIOUS
<1> HIDE DEF x
<1>8. x.payloads - x.types = nt /\ x.end - x.payloads = nb
  BY <1>1, <1>7
<1>9. Bytes(x.types, nt) = r.type
  <2>1. Bytes(x.types, nt) = [i \in 1 .. nt |-> tag[x.types + i - 1]]
    BY DEF Bytes
  <2>2. \A i \in 1 .. nt : tag[x.types + i - 1] = r.type[i]
    <3> TAKE i \in 1 .. nt
    <3>1. x.types + i - 1 = a + 3 + i
      BY <1>1, <1>7
    <3> QED BY <3>1, <1>3, Zenon
  <2>3. r.type = [i \in 1 .. nt |-> r.type[i]]
    <3>1. r.type \in [1 .. nt -> Nat]
      BY <1>1, <1>2, LenProperties, Zenon
    <3> QED BY <3>1
  <2> QED BY <2>1, <2>2, <2>3
<1>10. Bytes(x.payloads, nb) = r.payload
  <2>1. Bytes(x.payloads, nb) = [i \in 1 .. nb |-> tag[x.payloads + i - 1]]
    BY DEF Bytes
  <2>2. \A i \in 1 .. nb : tag[x.payloads + i - 1] = r.payload[i]
    <3> TAKE i \in 1 .. nb
    <3>1. x.payloads + i - 1 = a + 3 + nt + i
      BY <1>1, <1>7
    <3> QED BY <3>1, <1>3, Zenon
  <2>3. r.payload = [i \in 1 .. nb |-> r.payload[i]]
    <3>1. r.payload \in [1 .. nb -> Nat]
      BY <1>1, <1>2, LenProperties, Zenon
    <3> QED BY <3>1
  <2> QED BY <2>1, <2>2, <2>3
<1>11. Read(x) = [tnf |-> r.tnf, type |-> r.type, payload |-> r.payload]
  BY <1>7, <1>8, <1>9, <1>10, Zenon DEF Read
<1>12. Read(x) = r
  BY <1>11, RecordSame
<1> QED BY <1>5, <1>6, <1>12

(***************************************************************************)
(* Places, headers and transfers.                                          *)
(***************************************************************************)
LEMMA PlaceFacts ==
  ASSUME NEW rs \in Seq(Records), NEW n \in Nat, n = Len(rs),
         NEW p \in Positions(rs), NEW s, Places(rs, p, s)
  PROVE  /\ s \in {10, 12} /\ p[1] = s
         /\ \A k \in 1 .. n + 1 : p[k] \in Nat /\ p[k] >= s
         /\ \A k \in 1 .. n : /\ rs[k] \in Records /\ Size(rs[k]) \in Nat
                              /\ p[k + 1] = p[k] + Size(rs[k])
         /\ \A j, k \in 1 .. n + 1 : j < k => p[j] + Size(rs[j]) <= p[k]
<1>1. \A k \in 1 .. n + 1 : p[k] \in Nat
  BY DEF Positions
<1>2. \A k \in 1 .. n : rs[k] \in Records
  BY ElementOfSeq
<1>3. \A k \in 1 .. n : Size(rs[k]) \in Nat
  BY <1>2, RecordFacts
<1>4. /\ s \in {10, 12} /\ p[1] = s
      /\ \A k \in 1 .. n : p[k + 1] = p[k] + Size(rs[k])
      /\ \A j, k \in 1 .. n + 1 : j < k => p[j] + Size(rs[j]) <= p[k]
  BY Zenon DEF Places
<1>5. \A k \in 1 .. n + 1 : p[k] >= s
  <2> TAKE k \in 1 .. n + 1
  <2>1. CASE k = 1
    BY <2>1, <1>4
  <2>2. CASE k # 1
    <3>1. 1 \in 1 .. n + 1 /\ 1 < k /\ 1 \in 1 .. n
      BY <2>2
    <3>2. p[1] + Size(rs[1]) <= p[k] /\ Size(rs[1]) \in Nat /\ p[k] \in Nat /\ p[1] \in Nat
      BY <3>1, <1>1, <1>3, <1>4
    <3> QED BY <3>2, <1>4
  <2> QED BY <2>1, <2>2
<1> QED BY <1>1, <1>2, <1>3, <1>4, <1>5, Zenon

LEMMA HeaderSame ==
  ASSUME NEW m, NEW n, NEW s \in {10, 12}, NEW total, Header(m, s, total),
         Same(m, n, 8, s)
  PROVE  Header(n, s, total)
<1>1. n[8] = m[8] /\ n[9] = m[9]
  BY DEF Same
<1>2. s = 12 => n[10] = m[10] /\ n[11] = m[11]
  BY DEF Same
<1>3. CASE s = 10
  BY <1>1, <1>3 DEF Header
<1>4. CASE s = 12
  <2>1. n[10] = m[10] /\ n[11] = m[11] /\ s # 10
    BY <1>2, <1>4
  <2> QED BY <1>1, <1>4, <2>1, ZenonT(30) DEF Header
<1> QED BY <1>3, <1>4

LEMMA UpToSame ==
  ASSUME NEW rs \in Seq(Records), NEW n \in Nat, n = Len(rs),
         NEW p \in Positions(rs), NEW s, Places(rs, p, s),
         NEW m, NEW m2, NEW j \in 0 .. n, UpTo(m, rs, p, j),
         Same(m, m2, s, p[j + 1])
  PROVE  UpTo(m2, rs, p, j)
<1>1. /\ s \in {10, 12}
      /\ \A k \in 1 .. n + 1 : p[k] \in Nat /\ p[k] >= s
      /\ \A k \in 1 .. n : rs[k] \in Records /\ Size(rs[k]) \in Nat
      /\ \A i, k \in 1 .. n + 1 : i < k => p[i] + Size(rs[i]) <= p[k]
  BY PlaceFacts
<1>2. SUFFICES ASSUME NEW k \in 1 .. j PROVE Laid(m2, p[k], rs[k])
  BY DEF UpTo
<1>3. Laid(m, p[k], rs[k])
  BY DEF UpTo
<1>4. /\ k \in 1 .. n /\ k \in 1 .. n + 1 /\ j + 1 \in 1 .. n + 1 /\ k < j + 1
  OBVIOUS
<1>5. /\ p[k] \in Nat /\ p[k] >= s /\ p[j + 1] \in Nat /\ rs[k] \in Records
      /\ Size(rs[k]) \in Nat /\ p[k] + Size(rs[k]) <= p[j + 1]
  BY <1>1, <1>4
<1>6. \A i \in 0 .. Size(rs[k]) - 1 : m2[p[k] + i] = m[p[k] + i]
  <2> TAKE i \in 0 .. Size(rs[k]) - 1
  <2>1. p[k] + i \in s .. p[j + 1] - 1
    BY <1>1, <1>5, SMTT(30)
  <2> QED BY <2>1 DEF Same
<1>7. p[k] \in Int
  BY <1>5
<1> QED BY <1>3, <1>5, <1>6, <1>7, CopyLaid

LEMMA Done ==
  ASSUME NEW a \in Nat, NEW data, NEW m, Transfer(a, data, m),
         "intact" \in DOMAIN m, message'.intact
  PROVE  tag' = Stored(a, data) /\ a + Len(data) <= MEMORY /\ message' = m
<1>1. Spoilt(m).intact = FALSE
  BY DEF Spoilt
<1> QED BY <1>1 DEF Transfer

LEMMA ByteSame == \A x \in 0 .. 255 : x % 256 = x
<1> TAKE x \in 0 .. 255
<1> QED OBVIOUS

LEMMA ThreeBytes ==
  ASSUME NEW a \in Nat, NEW x \in Nat, NEW y \in Nat, NEW d, d = <<a>> \o <<x, y>>
  PROVE  Len(d) = 3 /\ d[1] = a /\ d[2] = x /\ d[3] = y
<1>1. <<x, y>> \in Seq(Nat) /\ Len(<<x, y>>) = 2
  OBVIOUS
<1>2. <<a>> \in Seq(Nat) /\ Len(<<a>>) = 1
  OBVIOUS
<1>3. 1 \in Nat /\ 2 \in Nat
  OBVIOUS
<1>4. IsJoin(<<a>> \o <<x, y>>, <<a>>, 1, <<x, y>>, 2)
  BY <1>1, <1>2, <1>3, Joined
<1>5. IsJoin(d, <<a>>, 1, <<x, y>>, 2)
  BY <1>4, Zenon
<1>6. /\ Len(d) = 1 + 2
      /\ \A i \in 1 .. 1 : d[i] = <<a>>[i]
      /\ \A i \in 1 .. 2 : d[1 + i] = <<x, y>>[i]
  BY <1>5, Zenon DEF IsJoin
<1>7. <<a>>[1] = a /\ <<x, y>>[1] = x /\ <<x, y>>[2] = y
  OBVIOUS
<1>8. d[1] = <<a>>[1] /\ d[1 + 1] = <<x, y>>[1] /\ d[1 + 2] = <<x, y>>[2]
  <2>1. 1 \in 1 .. 1 /\ 1 \in 1 .. 2 /\ 2 \in 1 .. 2
    OBVIOUS
  <2> QED BY <2>1, <1>6, Zenon
<1>9. 1 + 1 = 2 /\ 1 + 2 = 3
  OBVIOUS
<1> QED BY <1>6, <1>7, <1>8, <1>9, Zenon

LEMMA IsShort ==
  ASSUME NEW n \in Nat, n <= 254 PROVE n \in 0 .. 254
OBVIOUS

LEMMA IsWord ==
  ASSUME NEW n \in Nat, n <= 65535
  PROVE  n \in Uint16
BY DEF Uint16

LEMMA WordFacts ==
  ASSUME NEW n \in Uint16
  PROVE  \E x \in 0 .. 255, y \in Nat : x = n \div 256 /\ y = n % 256
<1>1. n \in Nat /\ n <= 65535
  BY DEF Uint16
<1>2. n \div 256 \in 0 .. 255 /\ n % 256 \in Nat
  BY <1>1
<1> QED BY <1>2

LongLength(n) == <<255>> \o TwoBytes(n)

LEMMA LengthBytes ==
  ASSUME NEW n \in Uint16
  PROVE  /\ Len(LongLength(n)) = 3 /\ LongLength(n)[1] = 255
         /\ LongLength(n)[2] = n \div 256 /\ LongLength(n)[3] = n % 256
<1>1. PICK x \in 0 .. 255, y \in Nat : x = n \div 256 /\ y = n % 256
  BY WordFacts
<1>2. x % 256 = x
  BY ByteSame
<1>3. TwoBytes(n) = <<x, y>>
  BY <1>1, <1>2 DEF TwoBytes
<1>4. \A d : d = <<255>> \o <<x, y>> => Len(d) = 3 /\ d[1] = 255 /\ d[2] = x /\ d[3] = y
  <2>1. 255 \in Nat /\ x \in Nat
    OBVIOUS
  <2> QED BY <2>1, ThreeBytes
<1>5. PICK d : d = <<255>> \o <<x, y>>
  OBVIOUS
<1>6. Len(d) = 3 /\ d[1] = 255 /\ d[2] = x /\ d[3] = y
  BY <1>4, <1>5
<1>7. LongLength(n) = d
  BY <1>3, <1>5 DEF LongLength
<1> QED BY <1>1, <1>6, <1>7

\* What TagBase says of the message.
LEMMA MessageFacts ==
  ASSUME TagBase
  PROVE  /\ message.records \in Seq(Records) /\ Last \in Nat
         /\ Last = Len(message.records)
         /\ message.open \in BOOLEAN /\ message.intact \in BOOLEAN
         /\ "intact" \in DOMAIN message
         /\ message.open \/ message.intact => Last > 0
<1>1. message \in [records : Seq(Records), open : BOOLEAN, intact : BOOLEAN]
  BY DEF TagBase
<1>2. message.records \in Seq(Records)
  BY <1>1
<1>3. Len(message.records) \in Nat
  BY <1>2
<1> QED BY <1>1, <1>2, <1>3 DEF TagBase, Last

(***************************************************************************)
(* The parts of the invariant that every step keeps, done or not.          *)
(***************************************************************************)
\* The values of message.
Messages == [records : Seq(Records), open : BOOLEAN, intact : BOOLEAN]

LEMMA TransferBase ==
  ASSUME TagBase, NEW a, NEW data, NEW m \in Messages, Transfer(a, data, m)
  PROVE  /\ DOMAIN tag' = 0 .. MEMORY - 1 /\ message' \in Messages
         /\ message'.records = m.records /\ message'.open = m.open
         /\ message'.intact => m.intact
<1>1. DOMAIN tag' = 0 .. MEMORY - 1
  BY DEF Transfer, Stored, TagBase
<1>2. /\ Spoilt(m) \in Messages /\ Spoilt(m).records = m.records
      /\ Spoilt(m).open = m.open /\ Spoilt(m).intact = FALSE
  BY DEF Spoilt, Messages
<1>3. message' = m \/ message' = Spoilt(m)
  BY DEF Transfer
<1> QED BY <1>1, <1>2, <1>3

LEMMA BaseFacts ==
  ASSUME TagBase
  PROVE  /\ DOMAIN tag = 0 .. MEMORY - 1 /\ message \in Messages
         /\ writer.pc \in {"idle", "read_l", "write_l", "grow_l",
                           "grow_move", "record", "terminator"}
         /\ writer.address \in Nat /\ Len(writer.data) \in Nat
         /\ DOMAIN writer = {"pc", "me", "data", "length", "address", "l", "content"}
         /\ DOMAIN reader = {"pc", "num", "count", "address", "l", "out"}
         /\ reader.pc \in {"idle", "record", "done"} /\ next \in Nat
         /\ (~message.open => next = 8 /\ writer.pc = "idle")
         /\ (message.open => reader.pc = "idle")
         /\ (message.open \/ message.intact => Len(message.records) > 0)
BY DEF TagBase, Last, Messages

LEMMA BaseFrom ==
  ASSUME DOMAIN tag' = 0 .. MEMORY - 1, message' \in Messages,
         writer.pc' \in {"idle", "read_l", "write_l", "grow_l",
                         "grow_move", "record", "terminator"},
         writer.address' \in Nat, Len(writer.data') \in Nat,
         DOMAIN writer' = {"pc", "me", "data", "length", "address", "l", "content"},
         DOMAIN reader' = {"pc", "num", "count", "address", "l", "out"},
         reader.pc' \in {"idle", "record", "done"}, next' \in Nat,
         ~message.open' => next' = 8 /\ writer.pc' = "idle",
         message.open' => reader.pc' = "idle",
         message.open' \/ message.intact' => Len(message.records') > 0
  PROVE  TagBase'
BY DEF TagBase, Last, Messages

\* A transfer of the message in the making.
LEMMA WritingBase ==
  ASSUME TagBase, NEW a, NEW data, Transfer(a, data, message), UNCHANGED <<next, reader>>,
         writer.pc # "idle",
         writer.pc' \in {"read_l", "write_l", "grow_l", "grow_move", "record", "terminator"},
         writer.address' = writer.address, writer.data' = writer.data,
         DOMAIN writer' = DOMAIN writer
  PROVE  TagBase'
<1>1. message \in Messages
  BY BaseFacts
<1>2. /\ DOMAIN tag' = 0 .. MEMORY - 1 /\ message' \in Messages
      /\ message'.records = message.records /\ message'.open = message.open
      /\ message'.intact => message.intact
  BY <1>1, TransferBase
<1> QED BY <1>2, BaseFacts, BaseFrom

LEMMA NotWritingBase ==
  ASSUME TagBase, UNCHANGED <<tag, writer, next, message>>,
         ~message.open, reader.pc' \in {"idle", "record", "done"},
         DOMAIN reader' = {"pc", "num", "count", "address", "l", "out"}
  PROVE  TagBase'
BY DEF TagBase, Last

LEMMA BaseSame == TagBase /\ UNCHANGED tagVars => TagBase'
BY DEF TagBase, Last, tagVars

LEMMA CcFileBase == TagBase /\ st25dv_ndef_write_ccfile => TagBase'
<1> SUFFICES ASSUME TagBase, st25dv_ndef_write_ccfile PROVE TagBase'
  OBVIOUS
<1>1. message \in Messages
  BY BaseFacts
<1>2. Transfer(0, CcFile, message) /\ UNCHANGED <<writer, next, reader>>
  BY DEF st25dv_ndef_write_ccfile
<1>3. /\ DOMAIN tag' = 0 .. MEMORY - 1 /\ message' \in Messages
      /\ message'.records = message.records /\ message'.open = message.open
      /\ message'.intact => message.intact
  BY <1>1, <1>2, TransferBase
<1> QED BY <1>2, <1>3, BaseFacts, BaseFrom

LEMMA CallsCompose ==
  ASSUME NEW mb \in BOOLEAN, NEW me \in BOOLEAN,
         st25dv_ndef_write_app_launcher_record(mb, me)
           \/ st25dv_ndef_write_json_record(mb, me)
  PROVE  \E n \in Nat : \E r : /\ r = AppLauncher(n) \/ r = JsonRecord(n)
                               /\ Compose(mb, me, r)
<1>1. CASE st25dv_ndef_write_app_launcher_record(mb, me)
  <2>1. PICK n \in Packages : Compose(mb, me, AppLauncher(n))
    BY <1>1, Zenon DEF st25dv_ndef_write_app_launcher_record
  <2>2. n \in Nat
    BY TagAssumption
  <2> QED BY <2>1, <2>2, Zenon
<1>2. CASE st25dv_ndef_write_json_record(mb, me)
  <2>1. PICK n \in Jsons : Compose(mb, me, JsonRecord(n))
    BY <1>2, Zenon DEF st25dv_ndef_write_json_record
  <2>2. n \in Nat
    BY TagAssumption
  <2> QED BY <2>1, <2>2, Zenon
<1> QED BY <1>1, <1>2

LEMMA ComposeBase ==
  ASSUME TagBase, NEW mb \in BOOLEAN, NEW me \in BOOLEAN, NEW n \in Nat, NEW r,
         r = AppLauncher(n) \/ r = JsonRecord(n), Compose(mb, me, r)
  PROVE  TagBase'
<1>1. Len(RecordData(mb, me, r)) <= RECORD_BUF_SIZE
  BY DEF Compose
<1>2. /\ r \in Records
      /\ Len(RecordData(mb, me, r)) = IF mb THEN 2 + Size(r) ELSE Size(r)
  <2>1. PICK d : d = RecordData(mb, me, r)
    OBVIOUS
  <2>2. /\ r \in Records
        /\ mb => IsFirstData(d, r)
        /\ ~mb => IsNextData(d, r)
    BY <1>1, <2>1, RecordDataFacts, Zenon
  <2> QED BY <2>1, <2>2 DEF IsFirstData, IsNextData
<1>3. Len(RecordData(mb, me, r)) \in Nat
  <2>1. Size(r) \in Nat
    BY <1>2, RecordFacts
  <2>2. 2 + Size(r) \in Nat
    BY <2>1
  <2> QED BY <2>1, <2>2, <1>2, Zenon
<1>4. PICK data : data = RecordData(mb, me, r) /\ Len(data) \in Nat
  BY <1>3, Zenon
<1>5. RecordAddress \in Nat
  BY BaseFacts DEF RecordAddress, CCFILE_LENGTH
<1>6. PICK address \in Nat : address = RecordAddress
  BY <1>5
<1>7. /\ reader.pc = "idle" /\ writer.pc = "idle" /\ mb = ~message.open
      /\ writer' = [Idle EXCEPT
           !.pc = IF mb THEN "record" ELSE "read_l", !.me = me,
           !.data = data, !.length = RecordLength(r), !.address = address]
      /\ message' = IF mb THEN [records |-> <<r>>, open |-> TRUE, intact |-> TRUE]
                    ELSE [message EXCEPT !.records = Append(@, r),
                                         !.intact = @ /\ next < 256]
      /\ UNCHANGED <<tag, next, reader>>
  BY <1>4, <1>6 DEF Compose, Ready
<1>8. /\ writer.pc' \in {"read_l", "record"} /\ writer.address' \in Nat
      /\ Len(writer.data') \in Nat
      /\ DOMAIN writer' = {"pc", "me", "data", "length", "address", "l", "content"}
  BY <1>4, <1>6, <1>7 DEF Idle
<1>9. /\ message' \in Messages /\ message.open'
      /\ Len(message.records') > 0
  <2>1. CASE mb
    <3>1. <<r>> \in Seq(Records) /\ Len(<<r>>) = 1
      BY <1>2
    <3> QED BY <2>1, <3>1, <1>7 DEF Messages
  <2>2. CASE ~mb
    <3>1. message.records \in Seq(Records) /\ message \in Messages
      BY BaseFacts DEF Messages
    <3>2. /\ Append(message.records, r) \in Seq(Records)
          /\ Len(Append(message.records, r)) = Len(message.records) + 1
          /\ Len(message.records) \in Nat
      BY <3>1, <1>2
    <3>3. Len(Append(message.records, r)) > 0
      BY <3>2
    <3> QED BY <2>2, <3>1, <3>2, <3>3, <1>7 DEF Messages
  <2> QED BY <2>1, <2>2
<1> QED BY <1>7, <1>8, <1>9, BaseFacts, BaseFrom

LEMMA ReadLBase == TagBase /\ ReadL => TagBase'
<1> SUFFICES ASSUME TagBase, ReadL PROVE TagBase'
  OBVIOUS
<1>1. /\ writer.pc' = "write_l" /\ writer.pc = "read_l"
      /\ writer.address' = writer.address /\ writer.data' = writer.data
      /\ DOMAIN writer' = DOMAIN writer
  BY BaseFacts DEF ReadL
<1>2. /\ message' \in Messages /\ message'.records = message.records
      /\ message'.open = message.open /\ (message'.intact => message.intact)
  BY BaseFacts, ZenonT(30) DEF ReadL, Spoilt, Messages
<1>3. UNCHANGED <<tag, next, reader>>
  BY DEF ReadL
<1> QED BY <1>1, <1>2, <1>3, BaseFacts, BaseFrom

LEMMA UpdateBase == TagBase /\ (UpdateLongL \/ UpdateShortL \/ GrowL \/ GrowMove) => TagBase'
<1> SUFFICES ASSUME TagBase, UpdateLongL \/ UpdateShortL \/ GrowL \/ GrowMove
             PROVE  TagBase'
  OBVIOUS
<1>1. /\ UNCHANGED <<next, reader>> /\ writer.pc # "idle"
      /\ \E a, data : Transfer(a, data, message)
  BY DEF UpdateLongL, UpdateShortL, GrowL, GrowMove
<1>2. \/ writer' = [writer EXCEPT !.pc = "record"]
      \/ writer' = [writer EXCEPT !.pc = "grow_move"]
      \/ writer' = [writer EXCEPT !.pc = "record", !.content = <<>>]
  BY DEF UpdateLongL, UpdateShortL, GrowL, GrowMove
<1>3. /\ writer.pc' \in {"record", "grow_move"}
      /\ writer.address' = writer.address /\ writer.data' = writer.data
      /\ DOMAIN writer' = DOMAIN writer
  BY <1>2, BaseFacts
<1> QED BY <1>1, <1>3, WritingBase

LEMMA GrowReadBase == TagBase /\ GrowRead => TagBase'
<1> SUFFICES ASSUME TagBase, GrowRead PROVE TagBase'
  OBVIOUS
<1>0. PICK a \in Nat : a = Moved(writer.address)
  BY BaseFacts DEF Moved
<1>1. /\ writer.pc' = "grow_l" /\ writer.pc = "write_l"
      /\ writer.address' = Moved(writer.address) /\ writer.data' = writer.data
      /\ DOMAIN writer' = DOMAIN writer
  BY BaseFacts DEF GrowRead
<1>2. /\ message' \in Messages /\ message'.records = message.records
      /\ message'.open = message.open /\ (message'.intact => message.intact)
  <2>1. message \in Messages
    BY BaseFacts
  <2>2. \E b \in BOOLEAN : message' = [message EXCEPT !.intact = @ /\ b]
    BY <2>1 DEF GrowRead, Spoilt, Messages
  <2> QED BY <2>1, <2>2 DEF Messages
<1>3. UNCHANGED <<tag, next, reader>>
  BY DEF GrowRead
<1> QED BY <1>0, <1>1, <1>2, <1>3, BaseFacts, BaseFrom

LEMMA IdleFacts ==
  /\ Idle.pc = "idle" /\ Idle.address = 0 /\ Len(Idle.data) = 0
  /\ DOMAIN Idle = {"pc", "me", "data", "length", "address", "l", "content"}
  /\ NotReading.pc = "idle"
  /\ DOMAIN NotReading = {"pc", "num", "count", "address", "l", "out"}
BY DEF Idle, NotReading

LEMMA WriteRecordBase == TagBase /\ WriteRecord => TagBase'
<1> SUFFICES ASSUME TagBase, WriteRecord PROVE TagBase'
  OBVIOUS
<1>1. message \in Messages /\ Transfer(writer.address, writer.data, message)
  BY BaseFacts DEF WriteRecord
<1>2. /\ DOMAIN tag' = 0 .. MEMORY - 1 /\ message' \in Messages
      /\ message'.records = message.records /\ message'.open = message.open
      /\ message'.intact => message.intact
  BY <1>1, TransferBase
<1>3. /\ next' \in Nat /\ UNCHANGED reader /\ message.open
  BY BaseFacts DEF WriteRecord
<1>4. /\ writer.pc' \in {"idle", "terminator"} /\ writer.address' \in Nat
      /\ Len(writer.data') \in Nat
      /\ DOMAIN writer' = {"pc", "me", "data", "length", "address", "l", "content"}
  <2>1. CASE writer' = Idle
    BY <2>1, IdleFacts
  <2>2. CASE writer' = [writer EXCEPT !.pc = "terminator"]
    BY <2>2, BaseFacts
  <2> QED BY <2>1, <2>2 DEF WriteRecord
<1> QED BY <1>2, <1>3, <1>4, BaseFacts, BaseFrom

LEMMA WriteTerminatorBase == TagBase /\ WriteTerminator => TagBase'
<1> SUFFICES ASSUME TagBase, WriteTerminator PROVE TagBase'
  OBVIOUS
<1>1. PICK m : m = [message EXCEPT !.open = FALSE]
  OBVIOUS
<1>2. /\ m \in Messages /\ m.records = message.records /\ m.open = FALSE
      /\ m.intact = message.intact
  BY <1>1, BaseFacts DEF Messages
<1>3. Transfer(next, <<TERMINATOR_TLV>>, m)
  BY <1>1 DEF WriteTerminator
<1>4. /\ DOMAIN tag' = 0 .. MEMORY - 1 /\ message' \in Messages
      /\ message'.records = m.records /\ message'.open = m.open
      /\ message'.intact => m.intact
  BY <1>2, <1>3, TransferBase
<1>5. /\ next' = 8 /\ writer' = Idle /\ UNCHANGED reader
  BY DEF WriteTerminator, CCFILE_LENGTH
<1>6. /\ writer.pc' = "idle" /\ writer.address' \in Nat /\ Len(writer.data') \in Nat
      /\ DOMAIN writer' = {"pc", "me", "data", "length", "address", "l", "content"}
  BY <1>5, IdleFacts
<1> QED BY <1>2, <1>4, <1>5, <1>6, BaseFacts, BaseFrom

LEMMA ReadTlvBase ==
  ASSUME TagBase, NEW num, ReadTlv(num) PROVE TagBase'
<1>1. reader.pc' = "record" /\ DOMAIN reader' = DOMAIN NotReading
  BY IdleFacts DEF ReadTlv
<1>2. UNCHANGED <<tag, writer, next, message>> /\ ~message.open
  BY DEF ReadTlv, Between
<1> QED BY <1>1, <1>2, IdleFacts, NotWritingBase

LEMMA ReaderBase ==
  TagBase /\ (ReadRecord \/ ReadLeaves \/ RecordReturned) => TagBase'
<1> SUFFICES ASSUME TagBase, ReadRecord \/ ReadLeaves \/ RecordReturned PROVE TagBase'
  OBVIOUS
<1>1. UNCHANGED <<tag, writer, next, message>> /\ ~message.open
  BY BaseFacts DEF ReadRecord, ReadLeaves, RecordReturned
<1>2. /\ reader.pc' \in {"idle", "record", "done"}
      /\ DOMAIN reader' = {"pc", "num", "count", "address", "l", "out"}
  BY BaseFacts, IdleFacts DEF ReadRecord, ReadLeaves, RecordReturned
<1> QED BY <1>1, <1>2, NotWritingBase

LEMMA TagResetBase == TagBase /\ TagReset => TagBase'
<1> SUFFICES ASSUME TagBase, TagReset PROVE TagBase'
  OBVIOUS
<1>1. /\ message' \in Messages /\ message'.records = message.records
      /\ message'.open = FALSE /\ (message'.intact => message.intact)
  BY BaseFacts DEF TagReset, Messages
<1>2. /\ next' = 8 /\ writer' = Idle /\ reader' = NotReading /\ UNCHANGED tag
  BY DEF TagReset, CCFILE_LENGTH
<1>3. /\ writer.pc' = "idle" /\ writer.address' \in Nat /\ Len(writer.data') \in Nat
      /\ DOMAIN writer' = {"pc", "me", "data", "length", "address", "l", "content"}
      /\ reader.pc' = "idle"
      /\ DOMAIN reader' = {"pc", "num", "count", "address", "l", "out"}
  BY <1>2, IdleFacts
<1> QED BY <1>1, <1>2, <1>3, BaseFacts, BaseFrom

LEMMA BaseStep == TagBase /\ [TagNext]_tagVars => TagBase'
<1> SUFFICES ASSUME TagBase, [TagNext]_tagVars PROVE TagBase'
  OBVIOUS
<1>1. CASE UNCHANGED tagVars
  BY <1>1, BaseSame
<1>2. CASE st25dv_ndef_write_ccfile
  BY <1>2, CcFileBase
<1>3. CASE \E mb, me \in BOOLEAN : \/ st25dv_ndef_write_app_launcher_record(mb, me)
                                   \/ st25dv_ndef_write_json_record(mb, me)
  <2>1. PICK mb \in BOOLEAN, me \in BOOLEAN :
          \/ st25dv_ndef_write_app_launcher_record(mb, me)
          \/ st25dv_ndef_write_json_record(mb, me)
    BY <1>3
  <2>2. PICK n \in Nat : \E r : (r = AppLauncher(n) \/ r = JsonRecord(n)) /\ Compose(mb, me, r)
    BY <2>1, CallsCompose
  <2> QED BY <2>2, ComposeBase
<1>4. CASE ReadL
  BY <1>4, ReadLBase
<1>5. CASE UpdateLongL \/ UpdateShortL \/ GrowL \/ GrowMove
  BY <1>5, UpdateBase
<1>6. CASE GrowRead
  BY <1>6, GrowReadBase
<1>7. CASE WriteRecord
  BY <1>7, WriteRecordBase
<1>8. CASE WriteTerminator
  BY <1>8, WriteTerminatorBase
<1>9. CASE \E num \in 1 .. MaxRecords : ReadTlv(num)
  BY <1>9, ReadTlvBase
<1>10. CASE ReadRecord \/ ReadLeaves \/ RecordReturned
  BY <1>10, ReaderBase
<1>11. CASE TagReset
  BY <1>11, TagResetBase
<1> QED BY <1>1, <1>2, <1>3, <1>4, <1>5, <1>6, <1>7, <1>8, <1>9, <1>10, <1>11
        DEF TagNext, TagWork

(***************************************************************************)
(* The contents, while every transfer is done.                             *)
(***************************************************************************)

\* Fixes the message of a state with its places.
LEMMA ClosedFacts ==
  ASSUME TagBase, message.intact, TagContents, ~message.open
  PROVE  \E p \in Positions(message.records), s \in {10, 12} :
           Places(message.records, p, s) /\ Closed(p, s)
<1>1. writer.pc = "idle"
  BY BaseFacts
<1>2. ~First
  BY <1>1 DEF First
<1> QED BY <1>2 DEF TagContents

LEMMA OpenFacts ==
  ASSUME TagBase, message.intact, TagContents, message.open,
         writer.pc \in {"idle", "terminator"}
  PROVE  \E p \in Positions(message.records), s \in {10, 12} :
           Places(message.records, p, s) /\ Unended(p, s)
<1>1. ~First
  BY DEF First
<1> QED BY <1>1 DEF TagContents

LEMMA PendingFacts ==
  ASSUME TagBase, message.intact, TagContents, writer.pc \notin {"idle", "terminator"}, ~First
  PROVE  \E p \in Positions(message.records), s \in {10, 12} :
           Places(message.records, p, s) /\ Pending(p, s)
<1>1. message.open
  BY BaseFacts
<1> QED BY <1>1 DEF TagContents

\* The tag is as it was from the end of the CC file to the end of the message.
LEMMA ClosedStays ==
  ASSUME TagBase, NEW p \in Positions(message.records), NEW s,
         Places(message.records, p, s), Closed(p, s), message' = message,
         \A x \in 8 .. End(p) : tag'[x] = tag[x], Reading(p, s)'
  PROVE  Closed(p, s)'
<1>0. PICK rs \in Seq(Records), n \in Nat : rs = message.records /\ n = Len(rs) /\ n = Last
  BY MessageFacts
<1>1. /\ s \in {10, 12}
      /\ \A k \in 1 .. n + 1 : p[k] \in Nat /\ p[k] >= s
  BY <1>0, PlaceFacts
<1>2. PICK e \in Nat : e = p[n + 1] /\ e = End(p) /\ e >= s
  <2>1. n + 1 \in 1 .. n + 1
    OBVIOUS
  <2> QED BY <2>1, <1>0, <1>1 DEF End
<1>3. PICK total : total = e - s
  OBVIOUS
<1>4. /\ UpTo(tag, rs, p, n) /\ Header(tag, s, total)
      /\ e < MEMORY /\ tag[e] = TERMINATOR_TLV
  BY <1>0, <1>2, <1>3, Zenon DEF Closed
<1> DEFINE t == tag'
<1>5. \A x \in 8 .. e : t[x] = tag[x]
  BY <1>2
<1> HIDE DEF t
<1>6. UpTo(t, rs, p, n)
  <2>1. n \in 0 .. n /\ Same(tag, t, s, p[n + 1])
    BY <1>1, <1>2, <1>5 DEF Same
  <2>2. Places(rs, p, s) /\ p \in Positions(rs)
    BY <1>0
  <2> QED BY <2>1, <2>2, <1>0, <1>4, UpToSame
<1>7. Header(t, s, total)
  <2>1. Same(tag, t, 8, s)
    BY <1>1, <1>2, <1>5 DEF Same
  <2> QED BY <2>1, <1>1, <1>4, HeaderSame
<1>8. t[e] = TERMINATOR_TLV
  <2>1. e \in 8 .. e
    BY <1>1, <1>2
  <2> QED BY <2>1, <1>4, <1>5
<1>9. /\ Last' = Last /\ End(p)' = End(p) /\ message.records' = message.records
  BY DEF Last, End
<1>10. /\ UpTo(tag', message.records', p, Last') /\ Header(tag', s, End(p)' - s)
       /\ End(p)' < MEMORY /\ tag'[End(p)'] = TERMINATOR_TLV
  BY <1>0, <1>2, <1>3, <1>4, <1>6, <1>7, <1>8, <1>9 DEF t
<1> QED BY <1>10 DEF Closed

LEMMA ClosedContents ==
  ASSUME ~message.open', NEW p \in Positions(message.records'), NEW s \in {10, 12},
         Places(message.records', p, s), Closed(p, s)'
  PROVE  TagContents'
BY DEF TagContents

LEMMA CcFileContents ==
  ASSUME TagBase, message.intact, TagContents, st25dv_ndef_write_ccfile, message'.intact
  PROVE  TagContents'
<1>1. ~message.open /\ reader.pc = "idle" /\ Transfer(0, CcFile, message) /\ reader' = reader
  BY DEF st25dv_ndef_write_ccfile, Between, Ready
<1>2. PICK p \in Positions(message.records), s \in {10, 12} :
        Places(message.records, p, s) /\ Closed(p, s)
  BY <1>1, ClosedFacts
<1>3. tag' = Stored(0, CcFile) /\ message' = message
  <2>1. "intact" \in DOMAIN message /\ 0 \in Nat
    BY MessageFacts
  <2> QED BY <2>1, <1>1, Done
<1>4. Len(CcFile) = 8
  BY DEF CcFile
<1>5. End(p) \in Nat /\ End(p) < MEMORY
  <2>1. PICK rs \in Seq(Records), n \in Nat : rs = message.records /\ n = Len(rs) /\ n = Last
    BY MessageFacts
  <2>2. n + 1 \in 1 .. n + 1
    OBVIOUS
  <2>3. p[n + 1] \in Nat
    BY <1>2, <2>1, <2>2, PlaceFacts
  <2> QED BY <1>2, <2>1, <2>3 DEF End, Closed
<1>6. \A x \in 8 .. End(p) : tag'[x] = tag[x]
  BY <1>3, <1>4, <1>5, TagAssumption DEF Stored
<1>7. Reading(p, s)'
  <2>1. reader.pc' = "idle"
    BY <1>1
  <2> QED BY <2>1 DEF Reading
<1>8. Closed(p, s)'
  BY <1>2, <1>3, <1>6, <1>7, ClosedStays
<1> QED BY <1>1, <1>2, <1>3, <1>8, ClosedContents

LEMMA TagResetContents ==
  ASSUME TagBase, message.intact => TagContents, TagReset, message'.intact
  PROVE  TagContents'
<1>1. /\ message'.open = FALSE /\ message'.intact = (message.intact /\ ~message.open)
      /\ message'.records = message.records
      /\ reader' = NotReading /\ tag' = tag
  BY BaseFacts DEF TagReset, Messages
<1>2. message.intact /\ ~message.open
  BY <1>1
<1>3. message' = message
  BY <1>1, <1>2, BaseFacts DEF TagReset, Messages
<1>4. PICK p \in Positions(message.records), s \in {10, 12} :
        Places(message.records, p, s) /\ Closed(p, s)
  BY <1>2, ClosedFacts
<1>5. Reading(p, s)'
  <2>1. reader.pc' = "idle"
    BY <1>1, IdleFacts
  <2> QED BY <2>1 DEF Reading
<1>6. Closed(p, s)'
  BY <1>1, <1>3, <1>4, <1>5, ClosedStays
<1> QED BY <1>1, <1>4, <1>6, ClosedContents

LEMMA ComposeFirst ==
  ASSUME TagBase, NEW me \in BOOLEAN, NEW n \in Nat, NEW r,
         r = AppLauncher(n) \/ r = JsonRecord(n), Compose(TRUE, me, r)
  PROVE  TagContents'
<1>1. Len(RecordData(TRUE, me, r)) <= RECORD_BUF_SIZE
  BY DEF Compose
<1>2. PICK data : data = RecordData(TRUE, me, r)
  OBVIOUS
<1>3. /\ r \in Records /\ Size(r) <= 254
      /\ Len(data) = 2 + Size(r)
      /\ data[1] = NDEF_MESSAGE /\ data[2] = Size(r) /\ Laid(data, 3, r)
  <2>1. r \in Records /\ IsFirstData(data, r)
    BY <1>1, <1>2, FirstData, Zenon
  <2> QED BY <2>1 DEF IsFirstData
<1>4. next = 8
  BY BaseFacts DEF Compose
<1>5. RecordAddress = 8
  BY <1>4 DEF RecordAddress, CCFILE_LENGTH
<1>6. /\ writer' = [Idle EXCEPT !.pc = "record", !.me = me, !.data = data,
                                !.length = RecordLength(r), !.address = 8]
      /\ message' = [records |-> <<r>>, open |-> TRUE, intact |-> TRUE]
  BY <1>2, <1>5 DEF Compose
<1>7. /\ writer'.pc = "record" /\ writer'.address = 8 /\ writer'.data = data
      /\ message'.records = <<r>>
  BY <1>6 DEF Idle
<1>8. /\ Len(message'.records) = 1 /\ message'.records[1] = r
  BY <1>7
<1>9. First'
  BY <1>3, <1>7, <1>8 DEF First, Last
<1> QED BY <1>9 DEF TagContents

\* a is rs, of length n, and then r.
IsAppend(a, rs, r, n) ==
  Len(a) = n + 1 /\ a[n + 1] = r /\ \A k \in 1 .. n : a[k] = rs[k]

LEMMA Appended ==
  ASSUME NEW rs \in Seq(Records), NEW r \in Records
  PROVE  IsAppend(Append(rs, r), rs, r, Len(rs))
<1>1. /\ Len(Append(rs, r)) = Len(rs) + 1 /\ Append(rs, r)[Len(rs) + 1] = r
      /\ \A k \in 1 .. Len(rs) : Append(rs, r)[k] = rs[k]
  BY AppendProperties
<1> QED BY <1>1, Zenon DEF IsAppend

MorePlaces(a, q, r, p, s, n) ==
  /\ Places(a, q, s)
  /\ \A k \in 1 .. n + 1 : q[k] = p[k]
  /\ q[n + 2] = p[n + 1] + Size(r)

\* The place of one more record.
LEMMA OnePlaceMore ==
  ASSUME NEW rs \in Seq(Records), NEW n \in Nat, n = Len(rs), n > 0, NEW r \in Records,
         NEW p \in Positions(rs), NEW s, Places(rs, p, s),
         NEW a, IsAppend(a, rs, r, n)
  PROVE  \E q \in Positions(a) : MorePlaces(a, q, r, p, s, n)
<1>1. /\ s \in {10, 12} /\ p[1] = s
      /\ \A k \in 1 .. n + 1 : p[k] \in Nat /\ p[k] >= s
      /\ \A k \in 1 .. n : /\ rs[k] \in Records /\ Size(rs[k]) \in Nat
                           /\ p[k + 1] = p[k] + Size(rs[k])
      /\ \A j, k \in 1 .. n + 1 : j < k => p[j] + Size(rs[j]) <= p[k]
  BY PlaceFacts, ZenonT(30)
<1>2. PICK z \in Nat : z = Size(r)
  BY RecordFacts
<1>4. /\ Len(a) = n + 1 /\ a[n + 1] = r
      /\ \A k \in 1 .. n : a[k] = rs[k]
  BY Zenon DEF IsAppend
<1> DEFINE q == [k \in 1 .. n + 1 + 1 |-> IF k <= n + 1 THEN p[k] ELSE p[n + 1] + z]
<1>5. /\ \A k \in 1 .. n + 1 : q[k] = p[k]
      /\ q[n + 2] = p[n + 1] + z
  OBVIOUS
<1>6. p[n + 1] \in Nat
  <2>1. n + 1 \in 1 .. n + 1
    OBVIOUS
  <2> QED BY <2>1, <1>1
<1>7. q \in [1 .. n + 1 + 1 -> Nat]
  BY <1>1, <1>6
<1> HIDE DEF q
<1>8. q \in Positions(a)
  BY <1>4, <1>7 DEF Positions
<1>9. \A k \in 1 .. n + 1 : q[k + 1] = q[k] + Size(a[k])
  <2> TAKE k \in 1 .. n + 1
  <2>1. CASE k = n + 1
    BY <2>1, <1>2, <1>4, <1>5
  <2>2. CASE k # n + 1
    <3>1. k \in 1 .. n /\ k + 1 \in 1 .. n + 1
      BY <2>2
    <3>2. q[k] = p[k] /\ q[k + 1] = p[k + 1] /\ a[k] = rs[k]
      BY <3>1, <1>4, <1>5
    <3> QED BY <3>1, <3>2, <1>1
  <2> QED BY <2>1, <2>2
<1>10. \A j, k \in 1 .. n + 1 + 1 : j < k => q[j] + Size(a[j]) <= q[k]
  <2> SUFFICES ASSUME NEW j \in 1 .. n + 1 + 1, NEW k \in 1 .. n + 1 + 1, j < k
               PROVE  q[j] + Size(a[j]) <= q[k]
    OBVIOUS
  <2>1. CASE k \in 1 .. n + 1
    <3>1. j \in 1 .. n /\ j \in 1 .. n + 1
      BY <2>1
    <3>2. q[j] = p[j] /\ q[k] = p[k] /\ a[j] = rs[j]
      BY <2>1, <3>1, <1>4, <1>5
    <3> QED BY <2>1, <3>1, <3>2, <1>1
  <2>2. CASE k = n + 2 /\ j = n + 1
    <3>1. q[j] = p[n + 1] /\ q[k] = p[n + 1] + z /\ Size(a[j]) = z
      <4>1. n + 1 \in 1 .. n + 1
        OBVIOUS
      <4> QED BY <2>2, <4>1, <1>2, <1>4, <1>5
    <3> QED BY <3>1, <1>2, <1>6
  <2>3. CASE k = n + 2 /\ j # n + 1
    <3>1. j \in 1 .. n /\ j \in 1 .. n + 1 /\ n + 1 \in 1 .. n + 1 /\ j < n + 1
      BY <2>3
    <3>2. q[j] = p[j] /\ q[k] = p[n + 1] + z /\ a[j] = rs[j]
      BY <2>3, <3>1, <1>4, <1>5
    <3>3. p[j] + Size(rs[j]) <= p[n + 1] /\ p[j] \in Nat /\ Size(rs[j]) \in Nat
      BY <3>1, <1>1
    <3> QED BY <3>2, <3>3, <1>2, <1>6
  <2> QED BY <2>1, <2>2, <2>3
<1>11. q[1] = s
  <2>1. 1 \in 1 .. n + 1
    OBVIOUS
  <2> QED BY <2>1, <1>1, <1>5
<1>12. Places(a, q, s)
  BY <1>1, <1>4, <1>9, <1>10, <1>11 DEF Places
<1>13. MorePlaces(a, q, r, p, s, n)
  BY <1>2, <1>5, <1>12 DEF MorePlaces
<1> QED BY <1>8, <1>13

LEMMA PendingContents ==
  ASSUME message.open', writer.pc' \notin {"idle", "terminator"},
         NEW p \in Positions(message.records'), NEW s \in {10, 12},
         Places(message.records', p, s), Pending(p, s)'
  PROVE  TagContents'
BY DEF TagContents

LEMMA ComposeNext ==
  ASSUME TagBase, message.intact, TagContents,
         NEW me \in BOOLEAN, NEW n \in Nat, NEW r,
         r = AppLauncher(n) \/ r = JsonRecord(n), Compose(FALSE, me, r), message'.intact
  PROVE  TagContents'
<1>1. Len(RecordData(FALSE, me, r)) <= RECORD_BUF_SIZE
  BY DEF Compose
<1>2. PICK data : data = RecordData(FALSE, me, r)
  OBVIOUS
<1>3. /\ r \in Records /\ RecordLength(r) = Size(r)
      /\ Len(data) = Size(r) /\ Laid(data, 1, r)
  <2>1. r \in Records /\ RecordLength(r) = Size(r) /\ IsNextData(data, r)
    BY <1>1, <1>2, NextData, Zenon
  <2> QED BY <2>1 DEF IsNextData
<1>4. message.open /\ writer.pc = "idle"
  BY BaseFacts DEF Compose, Ready
<1>5. PICK p \in Positions(message.records), s \in {10, 12} :
        Places(message.records, p, s) /\ Unended(p, s)
  BY <1>4, OpenFacts
<1>6. PICK rs \in Seq(Records), c \in Nat :
        rs = message.records /\ c = Len(rs) /\ c = Last /\ c > 0
  BY <1>4, MessageFacts
<1>7. /\ writer' = [Idle EXCEPT !.pc = "read_l", !.me = me, !.data = data,
                                !.length = RecordLength(r), !.address = RecordAddress]
      /\ message' = [message EXCEPT !.records = Append(@, r), !.intact = @ /\ next < 256]
      /\ tag' = tag
  BY <1>2 DEF Compose
<1>8. /\ message'.records = Append(rs, r) /\ message'.open /\ next < 256
  <2>1. message \in Messages
    BY BaseFacts
  <2> QED BY <2>1, <1>4, <1>6, <1>7 DEF Messages
<1>9. /\ writer'.pc = "read_l" /\ writer'.data = data
      /\ writer'.length = Size(r) /\ writer'.address = RecordAddress
  BY <1>3, <1>7 DEF Idle
<1>20. PICK a : a = Append(rs, r) /\ IsAppend(a, rs, r, c)
  <2>1. IsAppend(Append(rs, r), rs, r, Len(rs))
    BY <1>3, Appended
  <2> QED BY <2>1, <1>6, Zenon
<1>21. PICK q \in Positions(a) : MorePlaces(a, q, r, p, s, c)
  <2>1. Places(rs, p, s) /\ p \in Positions(rs)
    BY <1>5, <1>6
  <2> QED BY <2>1, <1>3, <1>6, <1>20, OnePlaceMore
<1>10. /\ Places(a, q, s)
       /\ \A k \in 1 .. c + 1 : q[k] = p[k]
       /\ q[c + 2] = p[c + 1] + Size(r)
  BY <1>21, Zenon DEF MorePlaces
<1>11. /\ UpTo(tag, rs, p, c) /\ Header(tag, s, p[c + 1] - s)
       /\ p[c + 1] <= MEMORY /\ next = p[c + 1]
  BY <1>5, <1>6 DEF Unended, End
<1>12. p[c + 1] \in Nat /\ p[c + 1] >= s
  <2>1. c + 1 \in 1 .. c + 1
    OBVIOUS
  <2> QED BY <2>1, <1>5, <1>6, PlaceFacts
<1>13. RecordAddress = p[c + 1]
  <2>1. next \in 0 .. 255 /\ next > 8 /\ next = p[c + 1]
    <3>1. next \in Nat /\ next < 256 /\ next >= s /\ s \in {10, 12}
      BY <1>5, <1>8, <1>11, <1>12
    <3>2. next \in 0 .. 255 /\ next > 8
      BY <3>1
    <3> QED BY <3>2, <1>11
  <2>2. next % 256 = next
    BY <2>1, ByteSame
  <2> QED BY <2>1, <2>2 DEF RecordAddress, CCFILE_LENGTH
<1>14. q[c + 1] = p[c + 1]
  <2>1. c + 1 \in 1 .. c + 1
    OBVIOUS
  <2> QED BY <2>1, <1>10
<1>15. Len(a) = c + 1 /\ a[c + 1] = r /\ \A k \in 1 .. c : a[k] = rs[k]
  BY <1>20, Zenon DEF IsAppend
<1>16. UpTo(tag, a, q, c)
  <2> SUFFICES ASSUME NEW k \in 1 .. c PROVE Laid(tag, q[k], a[k])
    BY DEF UpTo
  <2>1. Laid(tag, p[k], rs[k])
    BY <1>11 DEF UpTo
  <2>2. q[k] = p[k] /\ a[k] = rs[k]
    <3>1. k \in 1 .. c + 1
      OBVIOUS
    <3> QED BY <3>1, <1>10, <1>15
  <2> QED BY <2>1, <2>2
<1>17. message'.records = a /\ Last' = c + 1 /\ c + 1 > 1 /\ c + 1 - 1 = c
  BY <1>6, <1>8, <1>15, <1>20 DEF Last
<1>18. Pending(q, s)'
  <2>1. q[c + 1] < 256 /\ q[c + 1] <= MEMORY
    BY <1>8, <1>11, <1>14
  <2>2. IsData(r)'
    BY <1>3, <1>9 DEF IsData
  <2>4. /\ Last' = c + 1 /\ Last' - 1 = c /\ Last' > 1
        /\ message.records'[Last'] = r /\ Size(message.records'[Last']) = Size(r)
    BY <1>6, <1>15, <1>17
  <2>5. q[Last'] < 256 /\ q[Last'] <= MEMORY
    BY <2>1, <2>4
  <2>6. UpTo(tag, message.records', q, Last' - 1)
    BY <2>4, <1>16, <1>17
  <2>7. Header(tag, s, q[Last'] - s)
    BY <2>4, <1>11, <1>14
  <2>8. writer.address' = q[Last'] /\ writer.length' = Size(message.records'[Last'])
    BY <2>4, <1>9, <1>13, <1>14
  <2>9. IsData(message.records[Last])'
    BY <2>2, <2>4
  <2>10. writer.pc' = "read_l" /\ tag' = tag
    BY <1>7, <1>9
  <2> QED BY <2>4, <2>5, <2>6, <2>7, <2>8, <2>9, <2>10 DEF Pending
<1>19. Places(message.records', q, s) /\ q \in Positions(message.records')
  BY <1>8, <1>10, <1>20
<1> QED BY <1>8, <1>9, <1>18, <1>19, PendingContents

\* The record in hand, its place a and its size z.
InHand(p, s, rs, n, a, z) ==
  /\ rs = message.records /\ n = Len(rs) /\ n = Last /\ n > 1
  /\ a = p[n] /\ z = Size(rs[n]) /\ rs[n] \in Records
  /\ p[n + 1] = a + z /\ End(p) = a + z
  /\ a >= s /\ a < 256 /\ a <= MEMORY /\ z >= 19 /\ z <= 256
  /\ Places(rs, p, s) /\ p \in Positions(rs)

LEMMA HandFacts ==
  ASSUME TagBase, NEW p \in Positions(message.records), NEW s,
         Places(message.records, p, s), Pending(p, s)
  PROVE  \E rs \in Seq(Records), n \in Nat, a \in Nat, z \in Nat : InHand(p, s, rs, n, a, z)
<1>1. PICK rs \in Seq(Records), n \in Nat : rs = message.records /\ n = Len(rs) /\ n = Last
  BY MessageFacts
<1>2. /\ n > 1 /\ p[n] < 256 /\ p[n] <= MEMORY
  BY <1>1 DEF Pending
<1>3. n \in 1 .. n /\ n \in 1 .. n + 1
  BY <1>2
<1>4. Places(rs, p, s) /\ p \in Positions(rs)
  BY <1>1
<1>5. /\ p[n] \in Nat /\ p[n] >= s /\ rs[n] \in Records /\ p[n + 1] = p[n] + Size(rs[n])
  BY <1>1, <1>3, <1>4, PlaceFacts, ZenonT(30)
<1>6. Size(rs[n]) \in Nat /\ Size(rs[n]) >= 19 /\ Size(rs[n]) <= 256
  BY <1>5, RecordFacts
<1>7. PICK a \in Nat, z \in Nat : a = p[n] /\ z = Size(rs[n])
  BY <1>5, <1>6
<1>8. End(p) = a + z
  BY <1>1, <1>5, <1>7 DEF End
<1>9. InHand(p, s, rs, n, a, z)
  BY <1>1, <1>2, <1>4, <1>5, <1>6, <1>7, <1>8 DEF InHand
<1> QED BY <1>9

\* The record stays in hand when the message does.
LEMMA StaysInHand ==
  ASSUME NEW p, NEW s, NEW rs, NEW n, NEW a, NEW z, InHand(p, s, rs, n, a, z),
         message' = message
  PROVE  InHand(p, s, rs, n, a, z)'
BY DEF InHand, Last, End

\* What is pending, of the record in hand.
Pends(p, s, rs, n, a, z) ==
  /\ IsData(rs[n]) /\ writer.length = z
  /\ writer.pc \in {"read_l", "write_l", "grow_l", "record"} => UpTo(tag, rs, p, n - 1)
  /\ writer.pc \in {"read_l", "write_l", "grow_l"} => Header(tag, s, a - s)
  /\ writer.pc \in {"read_l", "write_l", "record"} => writer.address = a
  /\ writer.pc = "write_l" => writer.l = Bytes(9, 3)
  /\ writer.pc \in {"grow_l", "grow_move"} =>
       /\ s = 10 /\ writer.address = a + 2 /\ writer.address < 256
       /\ writer.l[1] = a - s
       /\ Len(writer.content) = a - s
       /\ \A k \in 1 .. n - 1 : Laid(writer.content, p[k] - 9, rs[k])
  /\ writer.pc = "grow_move" => Header(tag, 12, a + z - s)
  /\ writer.pc = "record" => Header(tag, s, a + z - s)

LEMMA HandPends ==
  ASSUME NEW p, NEW s \in {10, 12}, NEW rs, NEW n \in Nat, NEW a \in Nat, NEW z \in Nat,
         InHand(p, s, rs, n, a, z),
         Pending(p, s)
  PROVE  Pends(p, s, rs, n, a, z)
<1>1. /\ message.records = rs /\ Last = n /\ p[n] = a
      /\ Size(rs[n]) = z /\ End(p) = a + z
  BY DEF InHand
<1>2. IsData(rs[n]) /\ writer.length = z
  BY <1>1 DEF Pending
<1>3. writer.pc \in {"read_l", "write_l", "grow_l", "record"} => UpTo(tag, rs, p, n - 1)
  BY <1>1 DEF Pending
<1>4. writer.pc \in {"read_l", "write_l", "grow_l"} => Header(tag, s, a - s)
  BY <1>1 DEF Pending
<1>5. writer.pc \in {"read_l", "write_l", "record"} => writer.address = a
  BY <1>1 DEF Pending
<1>6. writer.pc = "write_l" => writer.l = Bytes(9, 3)
  BY <1>1 DEF Pending
<1>7. writer.pc \in {"grow_l", "grow_move"} =>
       /\ s = 10 /\ writer.address = a + 2 /\ writer.address < 256
       /\ writer.l[1] = a - s
       /\ Len(writer.content) = a - s
       /\ \A k \in 1 .. n - 1 : Laid(writer.content, p[k] - 9, rs[k])
  BY <1>1 DEF Pending
<1>8. writer.pc = "grow_move" => Header(tag, 12, a + z - s)
  BY <1>1 DEF Pending
<1>9. writer.pc = "record" => Header(tag, s, a + z - s)
  BY <1>1 DEF Pending
<1> QED BY <1>2, <1>3, <1>4, <1>5, <1>6, <1>7, <1>8, <1>9 DEF Pends

LEMMA PendsHand ==
  ASSUME NEW p, NEW s \in {10, 12}, NEW rs, NEW n \in Nat, NEW a \in Nat, NEW z \in Nat,
         InHand(p, s, rs, n, a, z)', Pends(p, s, rs, n, a, z)'
  PROVE  Pending(p, s)'
<1>1. /\ message.records' = rs /\ Last' = n /\ p[Last'] = a
      /\ Size(message.records'[Last']) = z /\ End(p)' = a + z
      /\ n > 1 /\ a < 256 /\ a <= MEMORY
  BY DEF InHand
<1>2. /\ IsData(rs[n])' /\ writer.length' = z
      /\ writer.pc' \in {"read_l", "write_l", "grow_l", "record"} => UpTo(tag', rs, p, n - 1)
      /\ writer.pc' \in {"read_l", "write_l", "grow_l"} => Header(tag', s, a - s)
  BY DEF Pends
<1>3. /\ writer.pc' \in {"read_l", "write_l", "record"} => writer.address' = a
      /\ writer.pc' = "write_l" => writer.l' = Bytes(9, 3)'
  BY DEF Pends
<1>4. writer.pc' \in {"grow_l", "grow_move"} =>
       /\ s = 10 /\ writer.address' = a + 2 /\ writer.address' < 256
       /\ writer.l'[1] = a - s
       /\ Len(writer.content') = a - s
       /\ \A k \in 1 .. n - 1 : Laid(writer.content', p[k] - 9, rs[k])
  BY DEF Pends
<1>5. /\ writer.pc' = "grow_move" => Header(tag', 12, a + z - s)
      /\ writer.pc' = "record" => Header(tag', s, a + z - s)
  BY DEF Pends
<1> QED BY <1>1, <1>2, <1>3, <1>4, <1>5 DEF Pending

LEMMA Hand ==
  ASSUME TagBase, message.intact, TagContents,
         writer.pc \in {"read_l", "write_l", "grow_l", "grow_move"}
  PROVE  \E p \in Positions(message.records), s \in {10, 12}, rs \in Seq(Records),
                n \in Nat, a \in Nat, z \in Nat :
           InHand(p, s, rs, n, a, z) /\ Pends(p, s, rs, n, a, z)
<1>1. ~First
  BY DEF First
<1>2. PICK p \in Positions(message.records), s \in {10, 12} :
        Places(message.records, p, s) /\ Pending(p, s)
  BY <1>1, PendingFacts
<1>3. PICK rs \in Seq(Records), n \in Nat, a \in Nat, z \in Nat : InHand(p, s, rs, n, a, z)
  BY <1>2, HandFacts
<1>4. Pends(p, s, rs, n, a, z)
  BY <1>2, <1>3, HandPends
<1> QED BY <1>3, <1>4

LEMMA HandContents ==
  ASSUME TagBase', NEW p, NEW s \in {10, 12}, NEW rs \in Seq(Records),
         NEW n \in Nat, NEW a \in Nat, NEW z \in Nat,
         InHand(p, s, rs, n, a, z)', Pends(p, s, rs, n, a, z)',
         writer.pc' \notin {"idle", "terminator"}
  PROVE  TagContents'
<1>1. Pending(p, s)'
  BY PendsHand
<1>2. message.open'
  BY DEF TagBase
<1>3. Places(message.records', p, s) /\ p \in Positions(message.records')
  BY DEF InHand
<1> QED BY <1>1, <1>2, <1>3, PendingContents

LEMMA ReadLContents ==
  ASSUME TagBase, message.intact, TagContents, ReadL, message'.intact
  PROVE  TagContents'
<1>1. writer.pc = "read_l" /\ message.open
  BY BaseFacts DEF ReadL
<1>2. ~First
  BY <1>1 DEF First
<1>3. PICK p \in Positions(message.records), s \in {10, 12} :
        Places(message.records, p, s) /\ Pending(p, s)
  BY <1>1, <1>2, PendingFacts
<1>4. Spoilt(message).intact = FALSE
  BY MessageFacts DEF Spoilt
<1>5. /\ writer' = [writer EXCEPT !.pc = "write_l", !.l = Bytes(9, 3)]
      /\ message' = message /\ tag' = tag
  BY <1>4 DEF ReadL, CCFILE_LENGTH
<1>6. /\ writer'.pc = "write_l" /\ writer'.l = Bytes(9, 3)
      /\ writer'.data = writer.data /\ writer'.length = writer.length
      /\ writer'.address = writer.address
  BY <1>5, BaseFacts
<1>7. Pending(p, s)'
  BY <1>1, <1>3, <1>5, <1>6 DEF Pending, Last, End, Bytes, IsData
<1>8. Places(message.records', p, s) /\ p \in Positions(message.records')
  BY <1>3, <1>5
<1> QED BY <1>1, <1>5, <1>6, <1>7, <1>8, PendingContents

\* The l value of three bytes is written.
LEMMA LengthWritten ==
  ASSUME NEW total \in Uint16, tag' = Stored(9, << 255 >> \o TwoBytes(total)),
         9 + Len(<< 255 >> \o TwoBytes(total)) <= MEMORY, tag[8] = NDEF_MESSAGE
  PROVE  /\ Header(tag', 12, total)
         /\ \A x \in 12 .. MEMORY - 1 : tag'[x] = tag[x]
<1>0. PICK d : d = LongLength(total)
  OBVIOUS
<1>1. Len(d) = 3 /\ d[1] = 255 /\ d[2] = total \div 256 /\ d[3] = total % 256
  BY <1>0, LengthBytes
<1>2. tag' = Stored(9, d) /\ 9 + Len(d) <= MEMORY
  BY <1>0 DEF LongLength
<1>3. /\ \A i \in 1 .. Len(d) : tag'[9 + i - 1] = d[i]
      /\ \A x \in 0 .. MEMORY - 1 : x < 9 \/ x >= 9 + Len(d) => tag'[x] = tag[x]
  <2>1. Len(d) \in Nat /\ 9 \in Nat
    BY <1>1
  <2> QED BY <2>1, <1>2, StoredBytes
<1>4. 12 <= MEMORY /\ MEMORY \in Nat
  BY <1>1, <1>2, TagAssumption
<1>5. tag'[9 + 1 - 1] = d[1] /\ tag'[9 + 2 - 1] = d[2] /\ tag'[9 + 3 - 1] = d[3]
  BY <1>1, <1>3
<1>6. tag'[9] = 255 /\ tag'[10] = total \div 256 /\ tag'[11] = total % 256
  BY <1>1, <1>5
<1>7. tag'[8] = tag[8]
  BY <1>3, <1>4
<1>8. \A x \in 12 .. MEMORY - 1 : tag'[x] = tag[x]
  BY <1>1, <1>3, <1>4
<1> DEFINE t == tag'
<1>9. t[8] = NDEF_MESSAGE /\ t[9] = 255 /\ t[10] = total \div 256 /\ t[11] = total % 256
  BY <1>6, <1>7
<1> HIDE DEF t
<1>10. Header(t, 12, total)
  BY <1>9 DEF Header
<1> QED BY <1>8, <1>10 DEF t

LEMMA WordJoined ==
  ASSUME NEW n \in Nat, NEW x, NEW y, x = n \div 256, y = n % 256
  PROVE  256 * x + y = n
OBVIOUS

LEMMA UpdateLongContents ==
  ASSUME TagBase, message.intact, TagContents, UpdateLongL, message'.intact, TagBase'
  PROVE  TagContents'
<1>1. /\ writer.pc = "write_l" /\ writer.l[1] = 255
      /\ Transfer(9, <<255>> \o
                       TwoBytes(256 * writer.l[2] + writer.l[3] + writer.length),
                  message)
      /\ writer' = [writer EXCEPT !.pc = "record"]
  BY DEF UpdateLongL, CCFILE_LENGTH
<1>2. PICK p \in Positions(message.records), s \in {10, 12}, rs \in Seq(Records),
                n \in Nat, a \in Nat, z \in Nat :
        InHand(p, s, rs, n, a, z) /\ Pends(p, s, rs, n, a, z)
  BY <1>1, Hand
<1>3. /\ n = Len(rs) /\ n > 1 /\ a = p[n]
      /\ a >= s /\ a < 256 /\ a <= MEMORY /\ z >= 19 /\ z <= 256
      /\ Places(rs, p, s) /\ p \in Positions(rs)
  BY <1>2 DEF InHand
<1>4. /\ IsData(rs[n]) /\ writer.length = z /\ UpTo(tag, rs, p, n - 1)
      /\ Header(tag, s, a - s) /\ writer.address = a /\ writer.l = Bytes(9, 3)
  BY <1>1, <1>2 DEF Pends
<1>5. writer.l[1] = tag[9] /\ writer.l[2] = tag[10] /\ writer.l[3] = tag[11]
  BY <1>4 DEF Bytes
<1>6. /\ s = 12 /\ tag[8] = NDEF_MESSAGE
      /\ tag[10] = (a - 12) \div 256 /\ tag[11] = (a - 12) % 256
  <2>1. tag[9] = 255
    BY <1>1, <1>5
  <2>2. CASE s = 10
    BY <2>1, <2>2, <1>4 DEF Header
  <2>3. CASE s = 12
    BY <2>3, <1>4 DEF Header
  <2> QED BY <2>2, <2>3
<1>7. PICK total \in Uint16 : total = a + z - 12
  <2>1. a >= 12 /\ a < 256 /\ z >= 19 /\ z <= 256
    BY <1>3, <1>6
  <2>2. PICK x \in Nat : x = a + z - 12 /\ x <= 65535
    BY <2>1
  <2> QED BY <2>2, IsWord
<1>8. 256 * writer.l[2] + writer.l[3] + writer.length = total
  <2>1. PICK u \in Nat : u = a - 12
    BY <1>3, <1>6
  <2>2. 256 * tag[10] + tag[11] = u
    <3>1. tag[10] = u \div 256 /\ tag[11] = u % 256
      BY <2>1, <1>6
    <3> QED BY <3>1, WordJoined, SMTT(30)
  <2>3. 256 * writer.l[2] + writer.l[3] = u
    BY <2>2, <1>5
  <2> QED BY <2>1, <2>3, <1>4, <1>7
<1>9. /\ tag' = Stored(9, <<255>> \o TwoBytes(total))
      /\ 9 + Len(<<255>> \o TwoBytes(total)) <= MEMORY /\ message' = message
  <2>1. "intact" \in DOMAIN message /\ 9 \in Nat
    BY MessageFacts
  <2>2. Transfer(9, <<255>> \o TwoBytes(total), message)
    BY <1>1, <1>8
  <2> QED BY <2>1, <2>2, Done, ZenonT(30)
<1>10. Header(tag', 12, total) /\ \A x \in 12 .. MEMORY - 1 : tag'[x] = tag[x]
  BY <1>6, <1>9, LengthWritten
<1> DEFINE t == tag'
<1>11. \A x \in 12 .. MEMORY - 1 : t[x] = tag[x]
  BY <1>10
<1> HIDE DEF t
<1>12. UpTo(t, rs, p, n - 1)
  <2>1. n - 1 \in 0 .. n /\ n - 1 + 1 = n
    BY <1>3
  <2>2. Same(tag, t, s, p[n - 1 + 1])
    BY <2>1, <1>3, <1>6, <1>11, TagAssumption DEF Same
  <2> QED BY <2>1, <2>2, <1>3, <1>4, UpToSame
<1>13. /\ writer'.pc = "record" /\ writer'.data = writer.data
       /\ writer'.length = writer.length /\ writer'.address = writer.address
  BY <1>1, BaseFacts
<1>14. IsData(rs[n])'
  BY <1>4, <1>13 DEF IsData
<1>15. Header(tag', s, a + z - s)
  BY <1>6, <1>7, <1>10
<1>16. UpTo(tag', rs, p, n - 1)
  BY <1>12 DEF t
<1>17. Pends(p, s, rs, n, a, z)'
  BY <1>4, <1>13, <1>14, <1>15, <1>16 DEF Pends
<1>18. InHand(p, s, rs, n, a, z)'
  BY <1>2, <1>9, StaysInHand
<1> QED BY <1>13, <1>17, <1>18, HandContents

LEMMA OneByte == \A x : Len(<<x>>) = 1 /\ <<x>>[1] = x
OBVIOUS

LEMMA UpdateShortContents ==
  ASSUME TagBase, message.intact, TagContents, UpdateShortL, message'.intact, TagBase'
  PROVE  TagContents'
<1>1. /\ writer.pc = "write_l" /\ writer.l[1] + writer.length <= 254
      /\ Transfer(9, <<writer.l[1] + writer.length>>, message)
      /\ writer' = [writer EXCEPT !.pc = "record"]
  BY DEF UpdateShortL, CCFILE_LENGTH
<1>2. PICK p \in Positions(message.records), s \in {10, 12}, rs \in Seq(Records),
                n \in Nat, a \in Nat, z \in Nat :
        InHand(p, s, rs, n, a, z) /\ Pends(p, s, rs, n, a, z)
  BY <1>1, Hand
<1>3. /\ n = Len(rs) /\ n > 1 /\ a = p[n]
      /\ a >= s /\ a < 256 /\ a <= MEMORY /\ z >= 19 /\ z <= 256
      /\ Places(rs, p, s) /\ p \in Positions(rs)
  BY <1>2 DEF InHand
<1>4. /\ IsData(rs[n]) /\ writer.length = z /\ UpTo(tag, rs, p, n - 1)
      /\ Header(tag, s, a - s) /\ writer.address = a /\ writer.l = Bytes(9, 3)
  BY <1>1, <1>2 DEF Pends
<1>5. writer.l[1] = tag[9]
  BY <1>4 DEF Bytes
<1>6. s = 10 /\ tag[8] = NDEF_MESSAGE /\ tag[9] = a - 10
  <2>1. CASE s = 10
    BY <2>1, <1>4 DEF Header
  <2>2. CASE s = 12
    <3>1. tag[9] = 255
      BY <2>2, <1>4 DEF Header
    <3> QED BY <3>1, <1>1, <1>3, <1>4, <1>5
  <2> QED BY <2>1, <2>2
<1>7. PICK total \in 0 .. 254 : total = a + z - 10 /\ total = writer.l[1] + writer.length
  <2>1. a >= 10 /\ z >= 19 /\ writer.l[1] = a - 10 /\ writer.length = z
    BY <1>3, <1>4, <1>5, <1>6
  <2>2. a - 10 + z <= 254
    BY <2>1, <1>1
  <2>3. a + z - 10 \in 0 .. 254 /\ a + z - 10 = a - 10 + z
    BY <2>1, <2>2
  <2> QED BY <2>1, <2>3
<1>8. PICK d : d = <<total>> /\ Len(d) = 1 /\ d[1] = total
  BY OneByte
<1>9. tag' = Stored(9, d) /\ 9 + 1 <= MEMORY /\ message' = message
  <2>1. "intact" \in DOMAIN message /\ 9 \in Nat
    BY MessageFacts
  <2>2. Transfer(9, d, message)
    BY <1>1, <1>7, <1>8
  <2>3. tag' = Stored(9, d) /\ 9 + Len(d) <= MEMORY /\ message' = message
    BY <2>1, <2>2, Done
  <2> QED BY <2>3, <1>8
<1>10. /\ \A i \in 1 .. 1 : tag'[9 + i - 1] = d[i]
       /\ \A x \in 0 .. MEMORY - 1 : x < 9 \/ x >= 9 + 1 => tag'[x] = tag[x]
  <2>1. Len(d) \in Nat /\ 9 \in Nat /\ 9 + Len(d) <= MEMORY
    BY <1>8, <1>9
  <2>2. /\ \A i \in 1 .. Len(d) : tag'[9 + i - 1] = d[i]
        /\ \A x \in 0 .. MEMORY - 1 : x < 9 \/ x >= 9 + Len(d) => tag'[x] = tag[x]
    BY <2>1, <1>9, StoredBytes
  <2> QED BY <2>2, <1>8
<1> DEFINE t == tag'
<1>11. t[9] = total /\ t[8] = tag[8] /\ \A x \in 10 .. MEMORY - 1 : t[x] = tag[x]
  BY <1>8, <1>9, <1>10, TagAssumption
<1> HIDE DEF t
<1>12. UpTo(t, rs, p, n - 1)
  <2>1. n - 1 \in 0 .. n /\ n - 1 + 1 = n
    BY <1>3
  <2>2. Same(tag, t, s, p[n - 1 + 1])
    BY <2>1, <1>3, <1>6, <1>11, TagAssumption DEF Same
  <2> QED BY <2>1, <2>2, <1>3, <1>4, UpToSame
<1>13. /\ writer'.pc = "record" /\ writer'.data = writer.data
       /\ writer'.length = writer.length /\ writer'.address = writer.address
  BY <1>1, BaseFacts
<1>14. IsData(rs[n])'
  BY <1>4, <1>13 DEF IsData
<1>15. Header(t, 10, total)
  BY <1>6, <1>11 DEF Header
<1>16. UpTo(tag', rs, p, n - 1) /\ Header(tag', s, a + z - s)
  BY <1>6, <1>7, <1>12, <1>15 DEF t
<1>17. Pends(p, s, rs, n, a, z)'
  BY <1>4, <1>13, <1>14, <1>16 DEF Pends
<1>18. InHand(p, s, rs, n, a, z)'
  BY <1>2, <1>9, StaysInHand
<1> QED BY <1>13, <1>17, <1>18, HandContents

LEMMA GrowReadContents ==
  ASSUME TagBase, message.intact, TagContents, GrowRead, message'.intact, TagBase'
  PROVE  TagContents'
<1>1. /\ writer.pc = "write_l" /\ writer.l[1] < 255
      /\ writer' = [writer EXCEPT !.pc = "grow_l", !.content = Bytes(10, writer.l[1]),
                                  !.address = Moved(@)]
      /\ message' = [message EXCEPT !.intact = @ /\ writer.address + 2 < 256]
      /\ tag' = tag
  <2>1. Spoilt(message).intact = FALSE
    BY MessageFacts DEF Spoilt
  <2> QED BY <2>1 DEF GrowRead, CCFILE_LENGTH
<1>2. PICK p \in Positions(message.records), s \in {10, 12}, rs \in Seq(Records),
                n \in Nat, a \in Nat, z \in Nat :
        InHand(p, s, rs, n, a, z) /\ Pends(p, s, rs, n, a, z)
  BY <1>1, Hand
<1>3. /\ n = Len(rs) /\ n > 1 /\ a = p[n]
      /\ a >= s /\ a < 256 /\ a <= MEMORY /\ z >= 19 /\ z <= 256
      /\ Places(rs, p, s) /\ p \in Positions(rs)
  BY <1>2 DEF InHand
<1>4. /\ IsData(rs[n]) /\ writer.length = z /\ UpTo(tag, rs, p, n - 1)
      /\ Header(tag, s, a - s) /\ writer.address = a /\ writer.l = Bytes(9, 3)
  BY <1>1, <1>2 DEF Pends
<1>5. writer.l[1] = tag[9]
  BY <1>4 DEF Bytes
<1>6. s = 10 /\ tag[9] = a - 10
  <2>1. CASE s = 10
    BY <2>1, <1>4 DEF Header
  <2>2. CASE s = 12
    <3>1. tag[9] = 255
      BY <2>2, <1>4 DEF Header
    <3> QED BY <3>1, <1>1, <1>5
  <2> QED BY <2>1, <2>2
<1>7. message' = message /\ a + 2 < 256
  <2>1. message \in Messages
    BY BaseFacts
  <2>2. message.intact = TRUE /\ (message.intact /\ writer.address + 2 < 256)
    BY <2>1, <1>1 DEF Messages
  <2>3. message' = [message EXCEPT !.intact = TRUE]
    BY <2>2, <1>1
  <2> QED BY <2>1, <2>2, <2>3, <1>4 DEF Messages
<1>8. Moved(a) = a + 2
  <2>1. a + 2 \in 0 .. 255
    BY <1>7
  <2> QED BY <2>1, ByteSame DEF Moved
<1>9. PICK m \in Nat : m = a - 10 /\ m = writer.l[1]
  BY <1>3, <1>5, <1>6
<1>10. PICK content : content = Bytes(10, m)
  OBVIOUS
<1>11. /\ writer'.pc = "grow_l" /\ writer'.data = writer.data
       /\ writer'.length = writer.length /\ writer'.address = a + 2
       /\ writer'.l = writer.l /\ writer'.content = content
  BY <1>1, <1>4, <1>8, <1>9, <1>10, BaseFacts
<1>12. Len(content) = m /\ \A i \in 1 .. m : content[i] = tag[10 + i - 1]
  BY <1>10 DEF Bytes
<1>13. \A k \in 1 .. n - 1 : Laid(content, p[k] - 9, rs[k])
  <2> SUFFICES ASSUME NEW k \in 1 .. n - 1 PROVE Laid(content, p[k] - 9, rs[k])
    OBVIOUS
  <2>1. Laid(tag, p[k], rs[k])
    BY <1>4 DEF UpTo
  <2>2. k \in 1 .. n /\ k \in 1 .. n + 1 /\ n \in 1 .. n + 1 /\ k < n
    BY <1>3
  <2>3. /\ p[k] \in Nat /\ p[k] >= s /\ rs[k] \in Records /\ Size(rs[k]) \in Nat
        /\ p[k] + Size(rs[k]) <= p[n]
    BY <2>2, <1>3, PlaceFacts
  <2>4. PICK b \in Nat, y \in Nat : b = p[k] /\ y = Size(rs[k]) /\ b >= 10 /\ b + y <= a
    BY <2>3, <1>3, <1>6
  <2>5. \A i \in 0 .. y - 1 : content[b - 9 + i] = tag[b + i]
    <3> TAKE i \in 0 .. y - 1
    <3>0. m = a - 10 /\ b >= 10 /\ b + y <= a /\ b \in Nat /\ y \in Nat /\ i \in 0 .. y - 1
      BY <2>4, <1>9
    <3>1. PICK j \in 1 .. m : j = b - 9 + i /\ 10 + j - 1 = b + i
      BY <3>0
    <3>2. content[j] = tag[10 + j - 1]
      BY <1>12
    <3> QED BY <3>1, <3>2
  <2>6. b - 9 \in Int /\ b \in Int
    OBVIOUS
  <2>7. /\ Laid(tag, b, rs[k]) /\ rs[k] \in Records
        /\ \A i \in 0 .. Size(rs[k]) - 1 : content[b - 9 + i] = tag[b + i]
    BY <2>1, <2>3, <2>4, <2>5, Zenon
  <2>8. Laid(content, b - 9, rs[k])
    BY <2>6, <2>7, CopyLaid
  <2> QED BY <2>4, <2>8
<1>14. IsData(rs[n])'
  BY <1>4, <1>11 DEF IsData
<1>15. writer'.l[1] = a - s /\ Len(writer'.content) = a - s
  BY <1>6, <1>9, <1>11, <1>12
<1>16. Pends(p, s, rs, n, a, z)'
  BY <1>1, <1>4, <1>6, <1>7, <1>11, <1>13, <1>14, <1>15 DEF Pends
<1>17. InHand(p, s, rs, n, a, z)'
  BY <1>2, <1>7, StaysInHand
<1> QED BY <1>11, <1>16, <1>17, HandContents

LEMMA GrowLContents ==
  ASSUME TagBase, message.intact, TagContents, GrowL, message'.intact, TagBase'
  PROVE  TagContents'
<1>1. /\ writer.pc = "grow_l"
      /\ Transfer(9, <<255>> \o TwoBytes(writer.l[1] + writer.length), message)
      /\ writer' = [writer EXCEPT !.pc = "grow_move"]
  BY DEF GrowL, CCFILE_LENGTH
<1>2. PICK p \in Positions(message.records), s \in {10, 12}, rs \in Seq(Records),
                n \in Nat, a \in Nat, z \in Nat :
        InHand(p, s, rs, n, a, z) /\ Pends(p, s, rs, n, a, z)
  BY <1>1, Hand
<1>3. a >= s /\ a < 256 /\ z >= 19 /\ z <= 256
  BY <1>2 DEF InHand
<1>4. /\ IsData(rs[n]) /\ writer.length = z /\ Header(tag, s, a - s)
      /\ s = 10 /\ writer.address = a + 2 /\ writer.address < 256
      /\ writer.l[1] = a - s /\ Len(writer.content) = a - s
      /\ \A k \in 1 .. n - 1 : Laid(writer.content, p[k] - 9, rs[k])
  BY <1>1, <1>2 DEF Pends
<1>5. tag[8] = NDEF_MESSAGE
  BY <1>4 DEF Header
<1>6. PICK total \in Uint16 : total = a + z - s /\ total = writer.l[1] + writer.length
  <2>1. PICK x \in Nat : x = a + z - s /\ x = writer.l[1] + writer.length /\ x <= 65535
    <3>1. writer.l[1] = a - 10 /\ writer.length = z /\ s = 10
      BY <1>4
    <3>2. a >= 10 /\ a < 256 /\ z >= 19 /\ z <= 256
      BY <1>3, <3>1
    <3>3. a + z - 10 \in Nat /\ a + z - 10 = a - 10 + z /\ a + z - 10 <= 65535
      BY <3>2
    <3> QED BY <3>1, <3>3
  <2> QED BY <2>1, IsWord
<1>7. /\ tag' = Stored(9, <<255>> \o TwoBytes(total))
      /\ 9 + Len(<<255>> \o TwoBytes(total)) <= MEMORY /\ message' = message
  <2>1. "intact" \in DOMAIN message /\ 9 \in Nat
    BY MessageFacts
  <2>2. Transfer(9, <<255>> \o TwoBytes(total), message)
    BY <1>1, <1>6
  <2> QED BY <2>1, <2>2, Done, ZenonT(30)
<1>8. Header(tag', 12, total)
  BY <1>5, <1>7, LengthWritten
<1>9. /\ writer'.pc = "grow_move" /\ writer'.data = writer.data
      /\ writer'.length = writer.length /\ writer'.address = writer.address
      /\ writer'.l = writer.l /\ writer'.content = writer.content
  BY <1>1, BaseFacts
<1>10. IsData(rs[n])'
  BY <1>4, <1>9 DEF IsData
<1>11. Header(tag', 12, a + z - s)
  BY <1>6, <1>8
<1>12. Pends(p, s, rs, n, a, z)'
  BY <1>4, <1>9, <1>10, <1>11 DEF Pends
<1>13. InHand(p, s, rs, n, a, z)'
  BY <1>2, <1>7, StaysInHand
<1> QED BY <1>9, <1>12, <1>13, HandContents

\* The places after the records have moved by two.
LEMMA MovedPlaces ==
  ASSUME NEW rs \in Seq(Records), NEW n \in Nat, n = Len(rs),
         NEW p \in Positions(rs), NEW s, Places(rs, p, s)
  PROVE  s = 10 => \E q \in Positions(rs) :
                     Places(rs, q, 12) /\ \A k \in 1 .. n + 1 : q[k] = p[k] + 2
<1>1. /\ p[1] = s
      /\ \A k \in 1 .. n + 1 : p[k] \in Nat /\ p[k] >= s
      /\ \A k \in 1 .. n : /\ rs[k] \in Records /\ Size(rs[k]) \in Nat
                           /\ p[k + 1] = p[k] + Size(rs[k])
      /\ \A j, k \in 1 .. n + 1 : j < k => p[j] + Size(rs[j]) <= p[k]
  BY PlaceFacts, ZenonT(30)
<1> SUFFICES ASSUME s = 10
             PROVE  \E q \in Positions(rs) :
                      Places(rs, q, 12) /\ \A k \in 1 .. n + 1 : q[k] = p[k] + 2
  OBVIOUS
<1> DEFINE q == [k \in 1 .. n + 1 |-> p[k] + 2]
<1>2. \A k \in 1 .. n + 1 : q[k] = p[k] + 2
  OBVIOUS
<1>3. q \in [1 .. n + 1 -> Nat]
  BY <1>1
<1> HIDE DEF q
<1>4. q[1] = 12
  <2>1. 1 \in 1 .. n + 1
    OBVIOUS
  <2> QED BY <2>1, <1>1, <1>2
<1>5. \A k \in 1 .. n : q[k + 1] = q[k] + Size(rs[k])
  <2> TAKE k \in 1 .. n
  <2>1. k \in 1 .. n + 1 /\ k + 1 \in 1 .. n + 1
    OBVIOUS
  <2>2. PICK x \in Nat, y \in Nat : x = p[k] /\ y = Size(rs[k]) /\ p[k + 1] = x + y
    BY <2>1, <1>1
  <2>3. q[k] = x + 2 /\ q[k + 1] = x + y + 2
    BY <2>1, <2>2, <1>2
  <2> QED BY <2>2, <2>3
<1>6. \A j, k \in 1 .. n + 1 : j < k => q[j] + Size(rs[j]) <= q[k]
  <2> SUFFICES ASSUME NEW j \in 1 .. n + 1, NEW k \in 1 .. n + 1, j < k
               PROVE  q[j] + Size(rs[j]) <= q[k]
    OBVIOUS
  <2>1. j \in 1 .. n
    OBVIOUS
  <2>2. PICK x \in Nat, y \in Nat, w \in Nat :
          x = p[j] /\ y = Size(rs[j]) /\ w = p[k] /\ x + y <= w
    BY <2>1, <1>1
  <2>3. q[j] = x + 2 /\ q[k] = w + 2
    BY <2>2, <1>2
  <2> QED BY <2>2, <2>3, SMTT(30)
<1>7. q \in Positions(rs)
  BY <1>3 DEF Positions
<1>8. Places(rs, q, 12)
  BY <1>4, <1>5, <1>6 DEF Places
<1> QED BY <1>2, <1>7, <1>8

LEMMA GrowMoveContents ==
  ASSUME TagBase, message.intact, TagContents, GrowMove, message'.intact, TagBase'
  PROVE  TagContents'
<1>1. /\ writer.pc = "grow_move" /\ Transfer(12, writer.content, message)
      /\ writer' = [writer EXCEPT !.pc = "record", !.content = <<>>]
  BY DEF GrowMove, CCFILE_LENGTH
<1>2. PICK p \in Positions(message.records), s \in {10, 12}, rs \in Seq(Records),
                n \in Nat, a \in Nat, z \in Nat :
        InHand(p, s, rs, n, a, z) /\ Pends(p, s, rs, n, a, z)
  BY <1>1, Hand
<1>3. /\ rs = message.records /\ n = Len(rs) /\ n = Last /\ n > 1 /\ a = p[n]
      /\ z = Size(rs[n]) /\ rs[n] \in Records
      /\ a >= s /\ a < 256 /\ a <= MEMORY /\ z >= 19 /\ z <= 256
      /\ Places(rs, p, s) /\ p \in Positions(rs) /\ p[n + 1] = a + z
  BY <1>2 DEF InHand
<1>4. /\ IsData(rs[n]) /\ writer.length = z /\ Header(tag, 12, a + z - s)
      /\ s = 10 /\ writer.address = a + 2 /\ writer.address < 256
      /\ Len(writer.content) = a - s
      /\ \A k \in 1 .. n - 1 : Laid(writer.content, p[k] - 9, rs[k])
  BY <1>1, <1>2 DEF Pends
<1>5. PICK m \in Nat : m = a - 10 /\ Len(writer.content) = m
  BY <1>3, <1>4
<1>6. PICK content : content = writer.content
  OBVIOUS
<1>7. tag' = Stored(12, content) /\ 12 + m <= MEMORY /\ message' = message
  <2>1. "intact" \in DOMAIN message /\ 12 \in Nat
    BY MessageFacts
  <2>2. tag' = Stored(12, content) /\ 12 + Len(content) <= MEMORY /\ message' = message
    BY <2>1, <1>1, <1>6, Done
  <2> QED BY <2>2, <1>5, <1>6
<1>8. PICK q \in Positions(rs) : Places(rs, q, 12) /\ \A k \in 1 .. n + 1 : q[k] = p[k] + 2
  BY <1>3, <1>4, MovedPlaces
<1>9. /\ Len(content) \in Nat /\ 12 \in Nat /\ 12 + Len(content) <= MEMORY
  BY <1>5, <1>6, <1>7
<1>10. UpTo(tag', rs, q, n - 1)
  <2> SUFFICES ASSUME NEW k \in 1 .. n - 1 PROVE Laid(tag', q[k], rs[k])
    BY DEF UpTo
  <2>1. k \in 1 .. n /\ k \in 1 .. n + 1 /\ n \in 1 .. n + 1 /\ k < n
    BY <1>3
  <2>2. /\ p[k] \in Nat /\ p[k] >= s /\ rs[k] \in Records /\ Size(rs[k]) \in Nat
        /\ p[k] + Size(rs[k]) <= p[n]
    BY <2>1, <1>3, PlaceFacts
  <2>3. PICK b \in Nat, y \in Nat : b = p[k] /\ y = Size(rs[k]) /\ b >= 10 /\ b + y <= a
    BY <2>2, <1>3, <1>4
  <2>4. PICK j \in Nat \ {0} : j = b - 9
    BY <2>3
  <2>5. Laid(content, j, rs[k])
    BY <2>3, <2>4, <1>4, <1>6
  <2>6. j + y - 1 <= m
    BY <2>3, <2>4, <1>5, SMTT(30)
  <2>7. j + Size(rs[k]) - 1 <= Len(content)
    BY <2>3, <2>6, <1>5, <1>6
  <2>8. PICK c \in Nat : c = b + 2 /\ c = 12 + j - 1
    BY <2>3, <2>4, SMTT(30)
  <2>9. Laid(tag', c, rs[k])
    BY <2>2, <2>5, <2>7, <2>8, <1>7, <1>9, WrittenLaid
  <2>10. q[k] = c
    BY <2>1, <2>3, <2>8, <1>8
  <2> QED BY <2>9, <2>10
<1> DEFINE t == tag'
<1>11. Same(tag, t, 8, 12)
  <2>1. \A x \in 0 .. MEMORY - 1 : x < 12 \/ x >= 12 + Len(content) => tag'[x] = tag[x]
    BY <1>7, <1>9, StoredBytes
  <2> QED BY <2>1, <1>5, <1>7, TagAssumption DEF Same
<1> HIDE DEF t
<1>12. Header(t, 12, a + z - s)
  <2>1. 12 \in {10, 12}
    OBVIOUS
  <2> QED BY <2>1, <1>4, <1>11, HeaderSame
<1>13. PICK b \in Nat : b = a + 2 /\ b + z - 12 = a + z - s /\ b < 256 /\ b <= MEMORY /\ b >= 12
  <2>1. m = a - 10 /\ 12 + m <= MEMORY /\ a >= 10 /\ s = 10 /\ a + 2 < 256
    BY <1>3, <1>4, <1>5, <1>7
  <2>2. a + 2 <= MEMORY
    BY <2>1, TagAssumption
  <2> QED BY <2>1, <2>2
<1>14. q[n] = b /\ q[n + 1] = b + z
  <2>1. n \in 1 .. n + 1 /\ n + 1 \in 1 .. n + 1
    BY <1>3
  <2>2. q[n] = p[n] + 2 /\ q[n + 1] = p[n + 1] + 2
    BY <2>1, <1>8
  <2>3. p[n] = a /\ p[n + 1] = a + z
    BY <1>3
  <2>4. b = a + 2
    BY <1>13
  <2> QED BY <2>2, <2>3, <2>4
<1>15. /\ writer'.pc = "record" /\ writer'.data = writer.data
       /\ writer'.length = writer.length /\ writer'.address = writer.address
  BY <1>1, BaseFacts
<1>16. IsData(rs[n])'
  BY <1>4, <1>15 DEF IsData
<1>17. Header(tag', 12, b + z - 12)
  BY <1>12, <1>13 DEF t
<1>18. Pends(q, 12, rs, n, b, z)'
  BY <1>4, <1>10, <1>13, <1>15, <1>16, <1>17 DEF Pends
<1>19. InHand(q, 12, rs, n, b, z)'
  <2>1. /\ message.records' = rs /\ Last' = n /\ End(q)' = b + z
    BY <1>3, <1>7, <1>14 DEF Last, End
  <2> QED BY <2>1, <1>3, <1>8, <1>13, <1>14 DEF InHand
<1>20. 12 \in {10, 12}
  OBVIOUS
<1> QED BY <1>15, <1>18, <1>19, <1>20, HandContents

(***************************************************************************)
(* The record is written, and the message is ended.                        *)
(***************************************************************************)
LEMMA OpenContents ==
  ASSUME message.open', writer.pc' \in {"idle", "terminator"},
         NEW p \in Positions(message.records'), NEW s \in {10, 12},
         Places(message.records', p, s), Unended(p, s)'
  PROVE  TagContents'
BY DEF TagContents

\* The first record of a message, with the head of the message.
LEMMA FirstContents ==
  ASSUME TagBase, First, message.intact, WriteRecord, message'.intact
  PROVE  TagContents'
<1>1. /\ writer.pc = "record" /\ Transfer(8, writer.data, message)
      /\ next' = 8 + Len(writer.data)
      /\ writer' = IF writer.me THEN [writer EXCEPT !.pc = "terminator"] ELSE Idle
  BY DEF WriteRecord, First
<1>2. message.open
  BY <1>1, BaseFacts
<1>3. PICK rs \in Seq(Records) : rs = message.records /\ Len(rs) = 1 /\ Last = 1
  BY MessageFacts DEF First
<1>4. rs[1] \in Records
  <2>1. 1 \in 1 .. Len(rs)
    BY <1>3
  <2> QED BY <2>1, ElementOfSeq
<1>5. PICK z \in Nat : z = Size(rs[1]) /\ z <= 254
  BY <1>3, <1>4, RecordFacts DEF First
<1>6. PICK d : d = writer.data
  OBVIOUS
<1>7. Len(d) = 2 + z /\ d[1] = NDEF_MESSAGE /\ d[2] = z /\ Laid(d, 3, rs[1])
  BY <1>3, <1>5, <1>6 DEF First
<1>8. tag' = Stored(8, d) /\ 8 + 2 + z <= MEMORY /\ message' = message
  <2>1. "intact" \in DOMAIN message /\ 8 \in Nat
    BY MessageFacts
  <2>2. tag' = Stored(8, d) /\ 8 + Len(d) <= MEMORY /\ message' = message
    BY <2>1, <1>1, <1>6, Done
  <2> QED BY <2>2, <1>7
<1>9. Len(d) \in Nat /\ 8 \in Nat /\ 8 + Len(d) <= MEMORY
  BY <1>7, <1>8
<1>10. tag'[8] = NDEF_MESSAGE /\ tag'[9] = z
  <2>0. PICK e \in Nat : e = 8 /\ tag' = Stored(e, d) /\ e + Len(d) <= MEMORY
    BY <1>8, <1>9
  <2>3. \A i \in 1 .. Len(d) : tag'[e + i - 1] = d[i]
    BY <2>0, <1>9, StoredBytes
  <2>1. \A i \in 1 .. Len(d) : tag'[8 + i - 1] = d[i]
    BY <2>0, <2>3
  <2>2. tag'[8 + 1 - 1] = d[1] /\ tag'[8 + 2 - 1] = d[2]
    BY <2>1, <1>7
  <2> QED BY <2>2, <1>7
<1>11. Laid(tag', 10, rs[1])
  <2>1. 3 \in Nat \ {0} /\ 3 + Size(rs[1]) - 1 <= Len(d) /\ 10 = 8 + 3 - 1
    BY <1>5, <1>7
  <2> QED BY <2>1, <1>4, <1>7, <1>8, <1>9, WrittenLaid
<1> DEFINE p == [k \in 1 .. 2 |-> IF k = 1 THEN 10 ELSE 10 + z]
<1>12. p[1] = 10 /\ p[2] = 10 + z /\ p \in [1 .. 2 -> Nat]
  OBVIOUS
<1> HIDE DEF p
<1>13. p \in Positions(rs)
  BY <1>3, <1>12 DEF Positions
<1>14. Places(rs, p, 10)
  <2>1. \A k \in 1 .. Len(rs) : p[k + 1] = p[k] + Size(rs[k])
    <3>1. p[1 + 1] = p[1] + Size(rs[1])
      BY <1>5, <1>12
    <3> QED BY <3>1, <1>3
  <2>2. \A j, k \in 1 .. Len(rs) + 1 : j < k => p[j] + Size(rs[j]) <= p[k]
    <3> SUFFICES ASSUME NEW j \in 1 .. Len(rs) + 1, NEW k \in 1 .. Len(rs) + 1, j < k
                 PROVE  p[j] + Size(rs[j]) <= p[k]
      OBVIOUS
    <3>1. j = 1 /\ k = 2
      BY <1>3
    <3>2. p[1] + Size(rs[1]) <= p[2]
      BY <1>5, <1>12
    <3> QED BY <3>1, <3>2
  <2> QED BY <2>1, <2>2, <1>12 DEF Places
<1> DEFINE t == tag'
<1>15. t[8] = NDEF_MESSAGE /\ t[9] = z /\ Laid(t, 10, rs[1])
  BY <1>10, <1>11
<1> HIDE DEF t
<1>16. Header(t, 10, z)
  <2>1. PICK y \in 0 .. 254 : y = z
    <3>1. z \in Nat /\ z <= 254
      BY <1>5
    <3> QED BY <3>1, IsShort
  <2>2. t[8] = NDEF_MESSAGE /\ t[9] = y
    BY <2>1, <1>15
  <2>3. Header(t, 10, y)
    BY <2>2 DEF Header
  <2> QED BY <2>1, <2>3
<1>17. UpTo(t, rs, p, 1)
  BY <1>12, <1>15 DEF UpTo
<1>18. writer'.pc \in {"idle", "terminator"}
  BY <1>1, BaseFacts, IdleFacts
<1>19. Unended(p, 10)'
  <2>1. /\ Last' = 1 /\ message'.records = rs /\ message.open'
        /\ End(p)' = 10 + z
    <3>1. Last' = 1 /\ message'.records = rs /\ message.open'
      BY <1>2, <1>3, <1>8 DEF Last
    <3>2. End(p)' = p[1 + 1]
      BY <3>1 DEF End
    <3> QED BY <3>1, <3>2, <1>12
  <2>2. 10 + z - 10 = z /\ 10 + z <= MEMORY /\ next' = 10 + z
    BY <1>1, <1>6, <1>7, <1>8
  <2>3. UpTo(tag', message.records', p, Last') /\ Header(tag', 10, End(p)' - 10)
    BY <2>1, <2>2, <1>16, <1>17 DEF t
  <2> QED BY <2>1, <2>2, <2>3 DEF Unended
<1> QED BY <1>2, <1>3, <1>8, <1>13, <1>14, <1>18, <1>19, OpenContents

LEMMA WriteRecordContents ==
  ASSUME TagBase, message.intact, TagContents, WriteRecord, message'.intact
  PROVE  TagContents'
<1>1. CASE First
  BY <1>1, FirstContents
<1>2. CASE ~First
  <2>1. /\ writer.pc = "record" /\ Transfer(writer.address, writer.data, message)
        /\ next' = writer.address + Len(writer.data)
        /\ writer' = IF writer.me THEN [writer EXCEPT !.pc = "terminator"] ELSE Idle
    BY DEF WriteRecord
  <2>2. message.open
    BY <2>1, BaseFacts
  <2>3. PICK p \in Positions(message.records), s \in {10, 12} :
          Places(message.records, p, s) /\ Pending(p, s)
    BY <2>1, <1>2, PendingFacts
  <2>4. PICK rs \in Seq(Records), n \in Nat, a \in Nat, z \in Nat :
          InHand(p, s, rs, n, a, z)
    BY <2>3, HandFacts
  <2>5. Pends(p, s, rs, n, a, z)
    BY <2>3, <2>4, HandPends
  <2>6. /\ rs = message.records /\ n = Len(rs) /\ n = Last /\ n > 1
        /\ a = p[n] /\ z = Size(rs[n]) /\ rs[n] \in Records
        /\ p[n + 1] = a + z /\ End(p) = a + z /\ a >= s
        /\ Places(rs, p, s) /\ p \in Positions(rs)
    BY <2>4 DEF InHand
  <2>7. /\ IsData(rs[n]) /\ UpTo(tag, rs, p, n - 1) /\ writer.address = a
        /\ Header(tag, s, a + z - s)
    BY <2>1, <2>5 DEF Pends
  <2>8. PICK d : d = writer.data /\ Len(d) = z /\ Laid(d, 1, rs[n])
    BY <2>6, <2>7 DEF IsData
  <2>9. tag' = Stored(a, d) /\ a + z <= MEMORY /\ message' = message
    <3>1. "intact" \in DOMAIN message
      BY MessageFacts
    <3>2. Transfer(a, d, message)
      BY <2>1, <2>7, <2>8
    <3>3. tag' = Stored(a, d) /\ a + Len(d) <= MEMORY /\ message' = message
      BY <3>1, <3>2, Done
    <3> QED BY <3>3, <2>8
  <2>10. Len(d) \in Nat /\ a + Len(d) <= MEMORY
    BY <2>8, <2>9
  <2>11. Laid(tag', a, rs[n])
    <3>1. 1 \in Nat \ {0} /\ 1 + Size(rs[n]) - 1 <= Len(d) /\ a = a + 1 - 1
      BY <2>6, <2>8
    <3> QED BY <3>1, <2>6, <2>8, <2>9, <2>10, WrittenLaid
  <2> DEFINE t == tag'
  <2>12. \A x \in 0 .. a - 1 : t[x] = tag[x]
    <3>1. \A x \in 0 .. MEMORY - 1 : x < a \/ x >= a + Len(d) => tag'[x] = tag[x]
      BY <2>9, <2>10, StoredBytes
    <3> QED BY <3>1, <2>9, TagAssumption
  <2>13. Laid(t, a, rs[n])
    BY <2>11
  <2> HIDE DEF t
  <2>14. UpTo(t, rs, p, n - 1)
    <3>1. n - 1 \in 0 .. n /\ n - 1 + 1 = n
      BY <2>6
    <3>2. Same(tag, t, s, p[n - 1 + 1])
      BY <3>1, <2>6, <2>12 DEF Same
    <3> QED BY <3>1, <3>2, <2>6, <2>7, UpToSame
  <2>15. UpTo(t, rs, p, n)
    <3> SUFFICES ASSUME NEW k \in 1 .. n PROVE Laid(t, p[k], rs[k])
      BY DEF UpTo
    <3>1. CASE k = n
      BY <3>1, <2>6, <2>13
    <3>2. CASE k # n
      <4>1. k \in 1 .. n - 1
        BY <3>2
      <4> QED BY <4>1, <2>14 DEF UpTo
    <3> QED BY <3>1, <3>2
  <2>16. Header(t, s, a + z - s)
    <3>1. Same(tag, t, 8, s)
      BY <2>6, <2>12 DEF Same
    <3> QED BY <3>1, <2>7, HeaderSame
  <2>17. writer'.pc \in {"idle", "terminator"}
    BY <2>1, BaseFacts, IdleFacts
  <2>18. Unended(p, s)'
    <3>1. /\ Last' = n /\ message'.records = rs /\ End(p)' = a + z
      BY <2>6, <2>9 DEF Last, End
    <3>2. next' = a + z
      BY <2>1, <2>7, <2>8
    <3>3. UpTo(tag', message.records', p, Last') /\ Header(tag', s, End(p)' - s)
      BY <3>1, <2>15, <2>16 DEF t
    <3> QED BY <3>1, <3>2, <3>3, <2>9 DEF Unended
  <2> QED BY <2>2, <2>6, <2>9, <2>17, <2>18, OpenContents
<1> QED BY <1>1, <1>2

LEMMA WriteTerminatorContents ==
  ASSUME TagBase, message.intact, TagContents, WriteTerminator, message'.intact
  PROVE  TagContents'
<1>1. /\ writer.pc = "terminator"
      /\ Transfer(next, <<TERMINATOR_TLV>>, [message EXCEPT !.open = FALSE])
      /\ reader' = reader
  BY DEF WriteTerminator
<1>2. message.open /\ reader.pc = "idle" /\ message \in Messages
  BY <1>1, BaseFacts
<1>3. PICK p \in Positions(message.records), s \in {10, 12} :
        Places(message.records, p, s) /\ Unended(p, s)
  BY <1>1, <1>2, OpenFacts
<1>4. PICK rs \in Seq(Records), n \in Nat : rs = message.records /\ n = Len(rs) /\ n = Last
  BY MessageFacts
<1>5. Places(rs, p, s) /\ p \in Positions(rs)
  BY <1>3, <1>4
<1>6. PICK e \in Nat : e = p[n + 1] /\ e >= s
  <2>1. n + 1 \in 1 .. n + 1
    OBVIOUS
  <2>2. p[n + 1] \in Nat /\ p[n + 1] >= s
    BY <2>1, <1>4, <1>5, PlaceFacts
  <2> QED BY <2>2
<1>7. UpTo(tag, rs, p, n) /\ Header(tag, s, e - s) /\ next = e
  BY <1>3, <1>4, <1>6 DEF Unended, End
<1>8. PICK d : d = <<TERMINATOR_TLV>> /\ Len(d) = 1 /\ d[1] = TERMINATOR_TLV
  BY OneByte
<1>9. /\ tag' = Stored(e, d) /\ e + Len(d) <= MEMORY
      /\ message' = [message EXCEPT !.open = FALSE]
  <2>1. "intact" \in DOMAIN [message EXCEPT !.open = FALSE]
    BY <1>2 DEF Messages
  <2>2. Transfer(e, d, [message EXCEPT !.open = FALSE])
    BY <1>1, <1>7, <1>8
  <2> QED BY <2>1, <2>2, Done
<1>10. message'.records = rs /\ ~message'.open
  BY <1>2, <1>4, <1>9 DEF Messages
<1>11. /\ \A i \in 1 .. Len(d) : tag'[e + i - 1] = d[i]
       /\ \A x \in 0 .. MEMORY - 1 : x < e \/ x >= e + Len(d) => tag'[x] = tag[x]
  <2>1. Len(d) \in Nat
    BY <1>8
  <2> QED BY <2>1, <1>9, StoredBytes
<1> DEFINE t == tag'
<1>12. /\ e < MEMORY /\ t[e] = TERMINATOR_TLV
       /\ \A x \in 0 .. e - 1 : t[x] = tag[x]
  <2>1. tag'[e + 1 - 1] = d[1]
    BY <1>8, <1>11
  <2> QED BY <2>1, <1>8, <1>9, <1>11, TagAssumption, SMTT(30)
<1> HIDE DEF t
<1>13. UpTo(t, rs, p, n)
  <2>1. n \in 0 .. n
    OBVIOUS
  <2>2. Same(tag, t, s, p[n + 1])
    BY <1>6, <1>12 DEF Same
  <2> QED BY <2>1, <2>2, <1>4, <1>5, <1>7, UpToSame
<1>14. Header(t, s, e - s)
  <2>1. Same(tag, t, 8, s)
    BY <1>6, <1>12 DEF Same
  <2> QED BY <2>1, <1>7, HeaderSame
<1>15. Reading(p, s)'
  <2>1. reader.pc' = "idle"
    BY <1>1, <1>2
  <2> QED BY <2>1 DEF Reading
<1>16. Closed(p, s)'
  <2>1. Last' = n /\ End(p)' = e
    BY <1>4, <1>6, <1>10 DEF Last, End
  <2>2. /\ UpTo(tag', message'.records, p, Last') /\ Header(tag', s, End(p)' - s)
        /\ End(p)' < MEMORY /\ tag'[End(p)'] = TERMINATOR_TLV
    BY <2>1, <1>10, <1>12, <1>13, <1>14 DEF t
  <2> QED BY <2>2, <1>15 DEF Closed
<1> QED BY <1>5, <1>10, <1>16, ClosedContents

(***************************************************************************)
(* The message is read.                                                    *)
(***************************************************************************)

\* A step of the reader, with the message where it was.
LEMMA ReaderContents ==
  ASSUME ~message.open, UNCHANGED <<tag, message>>,
         NEW p \in Positions(message.records), NEW s \in {10, 12},
         Places(message.records, p, s), Closed(p, s), Reading(p, s)'
  PROVE  TagContents'
<1>1. Last' = Last /\ End(p)' = End(p)
  BY DEF Last, End
<1>2. Closed(p, s)'
  BY <1>1 DEF Closed
<1> QED BY <1>2, ClosedContents

LEMMA ReadTlvContents ==
  ASSUME TagBase, message.intact, TagContents, NEW num \in 1 .. MaxRecords, ReadTlv(num)
  PROVE  TagContents'
<1>1. /\ ~message.open /\ UNCHANGED <<tag, message>>
      /\ reader' = [NotReading EXCEPT
           !.pc = "record", !.num = num,
           !.address = 8 + (IF Long(Bytes(8, 4)[2]) THEN 4 ELSE 2),
           !.l = IF Long(Bytes(8, 4)[2]) THEN 256 * Bytes(8, 4)[3] + Bytes(8, 4)[4]
                 ELSE Bytes(8, 4)[2]]
  BY DEF ReadTlv, Between, CCFILE_LENGTH
<1>2. PICK p \in Positions(message.records), s \in {10, 12} :
        Places(message.records, p, s) /\ Closed(p, s)
  BY <1>1, ClosedFacts
<1>3. PICK rs \in Seq(Records), n \in Nat :
        rs = message.records /\ n = Len(rs) /\ n = Last /\ n > 0
  BY MessageFacts
<1>4. PICK e \in Nat : e = End(p) /\ e >= s
  <2>1. n + 1 \in 1 .. n + 1
    OBVIOUS
  <2>2. p[n + 1] \in Nat /\ p[n + 1] >= s
    BY <2>1, <1>2, <1>3, PlaceFacts
  <2> QED BY <2>2, <1>3 DEF End
<1>5. Header(tag, s, e - s)
  BY <1>2, <1>4 DEF Closed
<1>6. Bytes(8, 4)[2] = tag[9] /\ Bytes(8, 4)[3] = tag[10] /\ Bytes(8, 4)[4] = tag[11]
  BY DEF Bytes
<1>7. PICK x \in Nat : x = e - s
  BY <1>4
<1>8. /\ 8 + (IF Long(tag[9]) THEN 4 ELSE 2) = s
      /\ (IF Long(tag[9]) THEN 256 * tag[10] + tag[11] ELSE tag[9]) = x
  <2>1. CASE s = 10
    <3>1. tag[9] = x /\ x \in 0 .. 254
      BY <2>1, <1>5, <1>7 DEF Header
    <3>2. ~Long(tag[9])
      BY <3>1 DEF Long
    <3> QED BY <2>1, <3>1, <3>2
  <2>2. CASE s = 12
    <3>1. tag[9] = 255 /\ tag[10] = x \div 256 /\ tag[11] = x % 256
      BY <2>2, <1>5, <1>7 DEF Header
    <3>2. Long(tag[9])
      BY <3>1 DEF Long
    <3>3. 256 * tag[10] + tag[11] = x
      <4>1. tag[10] = x \div 256 /\ tag[11] = x % 256 /\ x \in Nat
        BY <3>1
      <4>2. PICK u, v : u = x \div 256 /\ v = x % 256
        OBVIOUS
      <4>3. 256 * u + v = x
        BY <4>2, WordJoined, SMTT(30)
      <4> QED BY <4>1, <4>2, <4>3
    <3> QED BY <2>2, <3>2, <3>3
  <2> QED BY <2>1, <2>2
<1>9. /\ reader'.pc = "record" /\ reader'.num = num /\ reader'.count = 0
      /\ reader'.address = s /\ reader'.l = x /\ reader'.out = NoRecord
  BY <1>1, <1>6, <1>8 DEF NotReading
<1>10. p[1] = s
  BY <1>2 DEF Places
<1>11. Reading(p, s)'
  <2>1. Last' = n /\ End(p)' = e
    BY <1>1, <1>3, <1>4 DEF Last, End
  <2>2. num \in Nat \ {0} /\ ~(num <= 0) /\ 0 \in 0 .. n - 1
    BY <1>3, TagAssumption
  <2> QED BY <2>1, <2>2, <1>7, <1>9, <1>10 DEF Reading
<1> QED BY <1>1, <1>2, <1>11, ReaderContents

\* The reader is at record c + 1 of n, whose message ends at e.
ReaderAt(p, s, n, c, e) ==
  /\ Places(message.records, p, s) /\ Closed(p, s)
  /\ n = Last /\ n = Len(message.records) /\ c = reader.count /\ c < n
  /\ e = End(p) /\ e = p[n + 1] /\ e < MEMORY
  /\ reader.address = p[c + 1] /\ p[c + 1] \in Nat
  /\ reader.l = e - s
  /\ message.records[c + 1] \in Records
  /\ RecordAt(p[c + 1]).end = p[c + 2]
  /\ Read(RecordAt(p[c + 1])) = message.records[c + 1]
  /\ p[c + 2] \in Nat /\ p[c + 2] <= e /\ p[c + 1] + 19 <= p[c + 2]

LEMMA AtRecord ==
  ASSUME TagBase, message.intact, TagContents, ~message.open, reader.pc = "record"
  PROVE  \E p \in Positions(message.records), s \in {10, 12}, n \in Nat, c \in Nat, e \in Nat :
           ReaderAt(p, s, n, c, e)
<1>1. PICK p \in Positions(message.records), s \in {10, 12} :
        Places(message.records, p, s) /\ Closed(p, s)
  BY ClosedFacts
<1>2. PICK rs \in Seq(Records), n \in Nat :
        rs = message.records /\ n = Len(rs) /\ n = Last /\ n > 0
  BY MessageFacts
<1>3. /\ reader.count \in 0 .. n - 1 /\ reader.address = p[reader.count + 1]
      /\ reader.l = End(p) - s /\ UpTo(tag, rs, p, n) /\ End(p) < MEMORY
  BY <1>1, <1>2 DEF Closed, Reading
<1>4. PICK c \in Nat : c = reader.count /\ c < n /\ c + 1 \in 1 .. n
  BY <1>3
<1>5. Places(rs, p, s) /\ p \in Positions(rs)
  BY <1>1, <1>2
<1>6. /\ s \in {10, 12} /\ p[1] = s
      /\ \A k \in 1 .. n + 1 : p[k] \in Nat /\ p[k] >= s
      /\ \A k \in 1 .. n : /\ rs[k] \in Records /\ Size(rs[k]) \in Nat
                           /\ p[k + 1] = p[k] + Size(rs[k])
      /\ \A j, k \in 1 .. n + 1 : j < k => p[j] + Size(rs[j]) <= p[k]
  BY <1>2, <1>5, PlaceFacts
<1>7. /\ c + 1 \in 1 .. n + 1 /\ c + 2 \in 1 .. n + 1 /\ n + 1 \in 1 .. n + 1
      /\ c + 1 + 1 = c + 2
  BY <1>4
<1>8. PICK r \in Records, a \in Nat, z \in Nat :
        r = rs[c + 1] /\ a = p[c + 1] /\ z = Size(r) /\ p[c + 2] = a + z /\ z >= 19
  <2>1. rs[c + 1] \in Records /\ p[c + 1 + 1] = p[c + 1] + Size(rs[c + 1]) /\ p[c + 1] \in Nat
    BY <1>4, <1>6, <1>7
  <2>2. Size(rs[c + 1]) \in Nat /\ Size(rs[c + 1]) >= 19
    BY <2>1, RecordFacts
  <2> QED BY <2>1, <2>2, <1>7
<1>9. PICK e \in Nat : e = p[n + 1] /\ e = End(p)
  BY <1>2, <1>6, <1>7 DEF End
<1>10. Laid(tag, a, r)
  BY <1>3, <1>4, <1>8 DEF UpTo
<1>11. RecordAt(a).end = a + z /\ Read(RecordAt(a)) = r
  BY <1>8, <1>10, ParseLaid
<1>12. p[c + 2] <= e
  <2>1. CASE c + 2 = n + 1
    <3>1. p[c + 2] = e
      BY <2>1, <1>9
    <3> QED BY <3>1
  <2>2. CASE c + 2 # n + 1
    <3>1. c + 2 \in 1 .. n /\ c + 2 < n + 1
      BY <2>2, <1>7
    <3>2. p[c + 2] + Size(rs[c + 2]) <= p[n + 1] /\ Size(rs[c + 2]) \in Nat
      BY <3>1, <1>6, <1>7
    <3>3. p[c + 2] \in Nat
      BY <1>6, <1>7
    <3> QED BY <3>2, <3>3, <1>9
  <2> QED BY <2>1, <2>2
<1>13. a + z \in Nat /\ a + 19 <= a + z
  BY <1>8
<1>14. /\ reader.address = p[c + 1] /\ reader.l = e - s /\ e < MEMORY
  BY <1>3, <1>4, <1>9
<1>15. /\ message.records[c + 1] = r /\ r \in Records
       /\ RecordAt(p[c + 1]).end = p[c + 2] /\ Read(RecordAt(p[c + 1])) = r
  BY <1>2, <1>8, <1>11
<1>16. /\ n = Last /\ n = Len(message.records) /\ c = reader.count /\ c < n
       /\ p[c + 1] \in Nat /\ p[c + 2] \in Nat /\ p[c + 1] + 19 <= p[c + 2]
  BY <1>2, <1>4, <1>8, <1>13
<1>17. ReaderAt(p, s, n, c, e)
  BY <1>1, <1>9, <1>12, <1>14, <1>15, <1>16, Zenon DEF ReaderAt
<1> QED BY <1>17

LEMMA ReadRecordContents ==
  ASSUME TagBase, message.intact, TagContents, ReadRecord
  PROVE  TagContents'
<1>1. /\ reader.pc = "record" /\ UNCHANGED <<tag, message>>
      /\ reader' = [reader EXCEPT
           !.count = @ + 1, !.address = RecordAt(reader.address).end,
           !.out = IF reader.count + 1 = reader.num THEN Read(RecordAt(reader.address)) ELSE @,
           !.pc = IF tag[RecordAt(reader.address).end] = TERMINATOR_TLV
                  THEN "done" ELSE "record"]
  BY DEF ReadRecord
<1>2. ~message.open
  BY <1>1, BaseFacts
<1>3a. PICK p \in Positions(message.records), s \in {10, 12}, n \in Nat, c \in Nat, e \in Nat :
         ReaderAt(p, s, n, c, e)
  BY <1>1, <1>2, AtRecord
<1>3. /\ Places(message.records, p, s) /\ Closed(p, s)
      /\ n = Last /\ n = Len(message.records) /\ c = reader.count /\ c < n
      /\ e = End(p) /\ e = p[n + 1] /\ e < MEMORY
      /\ reader.address = p[c + 1] /\ p[c + 1] \in Nat
      /\ reader.l = e - s
      /\ message.records[c + 1] \in Records
      /\ RecordAt(p[c + 1]).end = p[c + 2]
      /\ Read(RecordAt(p[c + 1])) = message.records[c + 1]
      /\ p[c + 2] \in Nat /\ p[c + 2] <= e /\ p[c + 1] + 19 <= p[c + 2]
  BY <1>3a, Zenon DEF ReaderAt
<1>4. /\ reader'.count = c + 1 /\ reader'.address = p[c + 2]
      /\ reader'.out = IF c + 1 = reader.num THEN message.records[c + 1] ELSE reader.out
      /\ reader'.pc = IF tag[p[c + 2]] = TERMINATOR_TLV THEN "done" ELSE "record"
      /\ reader'.num = reader.num /\ reader'.l = reader.l
  BY <1>1, <1>3, BaseFacts
<1>5. /\ reader.num \in Nat \ {0}
      /\ reader.out = IF reader.num <= c THEN message.records[reader.num] ELSE NoRecord
  BY <1>1, <1>3 DEF Closed, Reading
<1>6. reader'.out = IF reader'.num <= reader'.count
                    THEN message.records[reader'.num] ELSE NoRecord
  <2>1. CASE c + 1 = reader.num
    BY <2>1, <1>4
  <2>2. CASE c + 1 # reader.num
    <3>1. reader.num <= c + 1 <=> reader.num <= c
      BY <2>2, <1>5
    <3> QED BY <2>2, <3>1, <1>4, <1>5
  <2> QED BY <2>1, <2>2
<1>7. tag[e] = TERMINATOR_TLV /\ UpTo(tag, message.records, p, n)
  BY <1>3 DEF Closed
<1>8. CASE c + 1 = n
  <2>1. p[c + 2] = e
    <3>1. c + 2 = n + 1
      BY <1>8
    <3> QED BY <3>1, <1>3
  <2>2. reader'.pc = "done"
    BY <2>1, <1>4, <1>7
  <2>3. Reading(p, s)'
    <3>1. Last' = n
      BY <1>1, <1>3 DEF Last
    <3>2. message.records' = message.records
      BY <1>1
    <3> QED BY <2>2, <3>1, <3>2, <1>4, <1>5, <1>6, <1>8 DEF Reading
  <2> QED BY <2>3, <1>1, <1>2, <1>3, ReaderContents
<1>9. CASE c + 1 # n
  <2>1. c + 2 \in 1 .. n /\ c + 1 \in 0 .. n - 1
    <3>1. c < n
      BY <1>3, Zenon
    <3> QED BY <3>1, <1>9
  <2>2. Laid(tag, p[c + 2], message.records[c + 2])
    BY <2>1, <1>7 DEF UpTo
  <2>3. message.records[c + 2] \in Records
    BY <2>1, <1>3, MessageFacts, ElementOfSeq
  <2>4. /\ message.records[c + 2].tnf \in {2, 4}
        /\ tag[p[c + 2]] \in Flags(message.records[c + 2].tnf)
    BY <2>2, <2>3, RecordFacts DEF Laid
  <2>5. tag[p[c + 2]] # TERMINATOR_TLV
    BY <2>4, FlagFacts
  <2>6. reader'.pc = "record"
    BY <2>5, <1>4
  <2>7. Reading(p, s)'
    <3>1. Last' = n /\ End(p)' = e
      BY <1>1, <1>3 DEF Last, End
    <3>2. message.records' = message.records
      BY <1>1
    <3>3. reader'.address = p[reader'.count + 1]
      BY <1>4, <1>3
    <3> QED BY <2>1, <2>6, <3>1, <3>2, <3>3, <1>3, <1>4, <1>5, <1>6 DEF Reading
  <2> QED BY <2>7, <1>1, <1>2, <1>3, ReaderContents
<1> QED BY <1>8, <1>9

\* The loop never ends before the terminator.
LEMMA NeverLeaves ==
  ASSUME TagBase, message.intact, TagContents
  PROVE  ~ReadLeaves
<1> SUFFICES ASSUME ReadLeaves PROVE FALSE
  OBVIOUS
<1>1. reader.pc = "record" /\ ~(reader.address < 8 + reader.l + 3)
  BY DEF ReadLeaves, More, CCFILE_LENGTH
<1>2. ~message.open
  BY <1>1, BaseFacts
<1>3a. PICK p \in Positions(message.records), s \in {10, 12}, n \in Nat, c \in Nat, e \in Nat :
         ReaderAt(p, s, n, c, e)
  BY <1>1, <1>2, AtRecord
<1>3. /\ Places(message.records, p, s) /\ Closed(p, s)
      /\ n = Last /\ n = Len(message.records) /\ c = reader.count /\ c < n
      /\ e = End(p) /\ e = p[n + 1] /\ e < MEMORY
      /\ reader.address = p[c + 1] /\ p[c + 1] \in Nat
      /\ reader.l = e - s
      /\ message.records[c + 1] \in Records
      /\ RecordAt(p[c + 1]).end = p[c + 2]
      /\ Read(RecordAt(p[c + 1])) = message.records[c + 1]
      /\ p[c + 2] \in Nat /\ p[c + 2] <= e /\ p[c + 1] + 19 <= p[c + 2]
  BY <1>3a, Zenon DEF ReaderAt
<1>4. PICK a \in Nat, b \in Nat : a = p[c + 1] /\ b = p[c + 2] /\ b <= e /\ a + 19 <= b
  BY <1>3
<1>5. reader.address = a /\ reader.l = e - s
  BY <1>3, <1>4
<1>6. a < 8 + (e - s) + 3
  BY <1>4
<1> QED BY <1>1, <1>5, <1>6

LEMMA RecordReturnedContents ==
  ASSUME TagBase, message.intact, TagContents, RecordReturned
  PROVE  TagContents'
<1>1. reader.pc = "done" /\ reader' = NotReading /\ UNCHANGED <<tag, message>>
  BY DEF RecordReturned
<1>2. ~message.open
  BY <1>1, BaseFacts
<1>3. PICK p \in Positions(message.records), s \in {10, 12} :
        Places(message.records, p, s) /\ Closed(p, s)
  BY <1>2, ClosedFacts
<1>4. Reading(p, s)'
  <2>1. reader.pc' = "idle"
    BY <1>1, IdleFacts
  <2> QED BY <2>1 DEF Reading
<1> QED BY <1>1, <1>2, <1>3, <1>4, ReaderContents

(***************************************************************************)
(* The invariant.                                                          *)
(***************************************************************************)
LEMMA SameContents == TagContents /\ UNCHANGED tagVars => TagContents'
<1> SUFFICES ASSUME TagContents, UNCHANGED tagVars PROVE TagContents'
  OBVIOUS
<1>1. /\ tag' = tag /\ writer' = writer /\ next' = next
      /\ reader' = reader /\ message' = message
  BY DEF tagVars
<1>2. First' = First
  BY <1>1 DEF First, Last
<1>3. \A p, s : Closed(p, s)' = Closed(p, s)
  BY <1>1 DEF Closed, Reading, Last, End
<1>4. \A p, s : Unended(p, s)' = Unended(p, s)
  BY <1>1 DEF Unended, Last, End
<1>5. \A p, s : Pending(p, s)' = Pending(p, s)
  BY <1>1 DEF Pending, IsData, Bytes, Last, End
<1> QED BY <1>1, <1>2, <1>3, <1>4, <1>5 DEF TagContents

\* Only a new message becomes intact.
LEMMA StaysSpoilt ==
  ASSUME TagBase, [TagNext]_tagVars, message'.intact,
         ~(\E mb, me \in BOOLEAN : \/ st25dv_ndef_write_app_launcher_record(mb, me)
                                   \/ st25dv_ndef_write_json_record(mb, me))
  PROVE  message.intact
<1>0. message \in Messages
  BY BaseFacts
<1>1. \A m \in Messages : Spoilt(m).intact = FALSE
  BY DEF Spoilt, Messages
<1>2. PICK m : m = [message EXCEPT !.open = FALSE]
  OBVIOUS
<1>3. m \in Messages /\ m.intact = message.intact
  BY <1>0, <1>2 DEF Messages
<1>4. CASE \E a, data : Transfer(a, data, message) \/ Transfer(a, data, m)
  BY <1>0, <1>1, <1>3, <1>4 DEF Transfer
<1>5. CASE UNCHANGED message
  BY <1>5
<1>6. CASE ReadL \/ GrowRead \/ TagReset
  BY <1>0, <1>1, <1>6 DEF ReadL, GrowRead, TagReset, Messages
<1>7. CASE \/ st25dv_ndef_write_ccfile \/ UpdateLongL \/ UpdateShortL \/ GrowL \/ GrowMove
           \/ WriteRecord \/ WriteTerminator
  BY <1>2, <1>4, <1>7 DEF st25dv_ndef_write_ccfile, UpdateLongL, UpdateShortL, GrowL, GrowMove,
     WriteRecord, WriteTerminator
<1>8. CASE \/ \E num \in 1 .. MaxRecords : ReadTlv(num)
           \/ ReadRecord \/ ReadLeaves \/ RecordReturned \/ UNCHANGED tagVars
  BY <1>5, <1>8 DEF ReadTlv, ReadRecord, ReadLeaves, RecordReturned, tagVars
<1> QED BY <1>6, <1>7, <1>8 DEF TagNext, TagWork

LEMMA NdStep == NdInv /\ [TagNext]_tagVars => NdInv'
<1> SUFFICES ASSUME NdInv, [TagNext]_tagVars PROVE NdInv'
  OBVIOUS
<1>1. TagBase /\ TagBase' /\ (message.intact => TagContents)
  BY BaseStep DEF NdInv
<1>2. SUFFICES ASSUME message'.intact PROVE TagContents'
  BY <1>1 DEF NdInv
<1>3. CASE \E mb, me \in BOOLEAN : \/ st25dv_ndef_write_app_launcher_record(mb, me)
                                   \/ st25dv_ndef_write_json_record(mb, me)
  <2>1. PICK mb \in BOOLEAN, me \in BOOLEAN :
          \/ st25dv_ndef_write_app_launcher_record(mb, me)
          \/ st25dv_ndef_write_json_record(mb, me)
    BY <1>3
  <2>2. PICK n \in Nat : \E r : (r = AppLauncher(n) \/ r = JsonRecord(n)) /\ Compose(mb, me, r)
    BY <2>1, CallsCompose
  <2>3. PICK r : (r = AppLauncher(n) \/ r = JsonRecord(n)) /\ Compose(mb, me, r)
    BY <2>2
  <2>4. CASE mb = TRUE
    BY <2>3, <2>4, <1>1, ComposeFirst
  <2>5. CASE mb = FALSE
    <3>1. message'.intact => message.intact
      <4>1. message \in Messages
        BY <1>1, BaseFacts
      <4>2. message' = [message EXCEPT !.records = Append(@, r), !.intact = @ /\ next < 256]
        BY <2>3, <2>5 DEF Compose
      <4> QED BY <4>1, <4>2 DEF Messages
    <3> QED BY <2>3, <2>5, <3>1, <1>1, <1>2, ComposeNext
  <2> QED BY <2>4, <2>5
<1>4. CASE ~(\E mb, me \in BOOLEAN : \/ st25dv_ndef_write_app_launcher_record(mb, me)
                                     \/ st25dv_ndef_write_json_record(mb, me))
  <2>1. message.intact /\ TagContents
    BY <1>1, <1>2, <1>4, StaysSpoilt
  <2>2. CASE UNCHANGED tagVars
    BY <2>1, <2>2, SameContents
  <2>3. CASE st25dv_ndef_write_ccfile
    BY <2>1, <2>3, <1>1, <1>2, CcFileContents
  <2>4. CASE ReadL
    BY <2>1, <2>4, <1>1, <1>2, ReadLContents
  <2>5. CASE UpdateLongL
    BY <2>1, <2>5, <1>1, <1>2, UpdateLongContents
  <2>6. CASE UpdateShortL
    BY <2>1, <2>6, <1>1, <1>2, UpdateShortContents
  <2>7. CASE GrowRead
    BY <2>1, <2>7, <1>1, <1>2, GrowReadContents
  <2>8. CASE GrowL
    BY <2>1, <2>8, <1>1, <1>2, GrowLContents
  <2>9. CASE GrowMove
    BY <2>1, <2>9, <1>1, <1>2, GrowMoveContents
  <2>10. CASE WriteRecord
    BY <2>1, <2>10, <1>1, <1>2, WriteRecordContents
  <2>11. CASE WriteTerminator
    BY <2>1, <2>11, <1>1, <1>2, WriteTerminatorContents
  <2>12. CASE \E num \in 1 .. MaxRecords : ReadTlv(num)
    BY <2>1, <2>12, <1>1, ReadTlvContents
  <2>13. CASE ReadRecord
    BY <2>1, <2>13, <1>1, ReadRecordContents
  <2>14. CASE ReadLeaves
    BY <2>1, <2>14, <1>1, NeverLeaves
  <2>15. CASE RecordReturned
    BY <2>1, <2>15, <1>1, RecordReturnedContents
  <2>16. CASE TagReset
    BY <2>1, <2>16, <1>1, <1>2, TagResetContents
  <2> QED BY <1>4, <2>2, <2>3, <2>4, <2>5, <2>6, <2>7, <2>8, <2>9, <2>10, <2>11, <2>12, <2>13,
             <2>14, <2>15, <2>16 DEF TagNext, TagWork
<1> QED BY <1>3, <1>4

LEMMA NdStart == TagInit => NdInv
<1> SUFFICES ASSUME TagInit PROVE NdInv
  OBVIOUS
<1>1. /\ tag = [a \in 0 .. MEMORY - 1 |-> 0] /\ writer = Idle /\ next = 8
      /\ reader = NotReading
      /\ message = [records |-> <<>>, open |-> FALSE, intact |-> FALSE]
  BY DEF TagInit, CCFILE_LENGTH
<1>2. message \in [records : Seq(Records), open : BOOLEAN, intact : BOOLEAN]
  <2>1. <<>> \in Seq(Records)
    OBVIOUS
  <2> QED BY <2>1, <1>1
<1>3. ~message.intact /\ ~message.open
  BY <1>1
<1>4. DOMAIN tag = 0 .. MEMORY - 1
  BY <1>1
<1>5. /\ writer.pc = "idle" /\ writer.address = 0 /\ Len(writer.data) = 0
      /\ DOMAIN writer = {"pc", "me", "data", "length", "address", "l", "content"}
      /\ reader.pc = "idle"
      /\ DOMAIN reader = {"pc", "num", "count", "address", "l", "out"}
  BY <1>1, IdleFacts
<1> QED BY <1>1, <1>2, <1>3, <1>4, <1>5 DEF NdInv, TagBase

LEMMA NdReadsBack == NdInv => ReadsBack
<1> SUFFICES ASSUME NdInv, message.intact, ~message.open
             PROVE  /\ reader.pc = "record" =>
                         reader.count < Len(message.records) /\ InMemory(reader.address)
                    /\ reader.pc = "done" =>
                         /\ reader.count = Len(message.records)
                         /\ reader.out = IF reader.num <= Len(message.records)
                                         THEN message.records[reader.num] ELSE NoRecord
  BY DEF ReadsBack
<1>1. TagBase /\ TagContents
  BY DEF NdInv
<1>2. CASE reader.pc = "record"
  <2>1a. PICK p \in Positions(message.records), s \in {10, 12},
              n \in Nat, c \in Nat, e \in Nat :
           ReaderAt(p, s, n, c, e)
    BY <1>1, <1>2, AtRecord
  <2>1. /\ Places(message.records, p, s) /\ Closed(p, s)
        /\ n = Last /\ n = Len(message.records) /\ c = reader.count /\ c < n
        /\ e = End(p) /\ e = p[n + 1] /\ e < MEMORY
        /\ reader.address = p[c + 1] /\ p[c + 1] \in Nat
        /\ reader.l = e - s
        /\ message.records[c + 1] \in Records
        /\ RecordAt(p[c + 1]).end = p[c + 2]
        /\ Read(RecordAt(p[c + 1])) = message.records[c + 1]
        /\ p[c + 2] \in Nat /\ p[c + 2] <= e /\ p[c + 1] + 19 <= p[c + 2]
    BY <2>1a, Zenon DEF ReaderAt
  <2>2. PICK a \in Nat, b \in Nat : a = p[c + 1] /\ b = p[c + 2] /\ b <= e /\ a + 19 <= b
    BY <2>1
  <2>3. a + 5 < MEMORY /\ b < MEMORY
    <3>1. e < MEMORY /\ MEMORY \in Nat
      BY <2>1, TagAssumption
    <3> QED BY <3>1, <2>2
  <2>4. reader.address = a /\ RecordAt(a).end = b
    BY <2>1, <2>2
  <2>5. InMemory(reader.address)
    BY <2>3, <2>4, Zenon DEF InMemory
  <2> QED BY <1>2, <2>1, <2>5
<1>3. CASE reader.pc = "done"
  <2>1. PICK p \in Positions(message.records), s \in {10, 12} :
          Places(message.records, p, s) /\ Closed(p, s)
    BY <1>1, ClosedFacts
  <2>2. PICK n \in Nat : n = Last /\ n = Len(message.records)
    BY <1>1, MessageFacts
  <2>3. /\ reader.count = n
        /\ reader.out = IF reader.num <= reader.count
                        THEN message.records[reader.num] ELSE NoRecord
    BY <1>3, <2>1, <2>2 DEF Closed, Reading
  <2> QED BY <1>3, <2>2, <2>3
<1> QED BY <1>1, <1>2, <1>3, BaseFacts

\* A message whose transfers were all done is read back record by record, and
\* never behind its last record, for every size of the memory, every length of
\* names and texts, every number of records, and whatever was in the memory.
THEOREM MessagesReadBack == TagSpec => []ReadsBack
<1>1. TagInit => NdInv
  BY NdStart
<1>2. NdInv /\ [TagNext]_tagVars => NdInv'
  BY NdStep
<1>3. NdInv => ReadsBack
  BY NdReadsBack
<1> QED BY <1>1, <1>2, <1>3, PTL DEF TagSpec
===============================================================================

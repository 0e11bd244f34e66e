------------------------------ MODULE OtaUpdate ------------------------------
(***************************************************************************)
(* The firmware update of components/device_ota: ota_update_stream with    *)
(* the stream adapters, process_chunk and complete_ota.                    *)
(*                                                                         *)
(* The image is decrypted and written to the idle slot chunk by chunk; the *)
(* tag over the whole of it is compared when the last chunk is already in  *)
(* flash.  Every call into a library that may fail, and every point where  *)
(* the power may go, is a step of its own.                                 *)
(*                                                                         *)
(* No code of the repository calls ota_update_stream yet.  The caller      *)
(* assumed here runs one update at a time, gives it a cleared ota_ctx_t,   *)
(* and calls complete_ota only after it returned true.                     *)
(***************************************************************************)
EXTENDS Integers, Sequences

CONSTANTS
  Units,     \* pieces of an image
  Files,     \* files that are offered for an update
  Factory,   \* the image the device was delivered with
  BUF_SIZE,  \* sizeof(buf_in)
  BIN_SIZE   \* the largest image

\* The header of a file: whether the magic number is right, the field bin_size,
\* and the image whose tag it carries.
ASSUME OtaAssumption ==
  /\ Files \subseteq [magic : BOOLEAN, bin_size : Nat, image : Seq(Units)]
  /\ Factory \in Seq(Units)
  /\ BUF_SIZE \in Nat \ {0}
  /\ BIN_SIZE \in Nat

VARIABLES
  flash,     \* what each slot of partitions.csv holds
  boot,      \* the slot the boot loader will start
  running,   \* the slot that runs
  ota,       \* the local variables of the update in progress
  ota_ctx    \* the slot behind ctx->handle, NO_HANDLE when the handle is 0

otaVars == <<flash, boot, running, ota, ota_ctx>>

\* factory, ota_0 and ota_1.
Slots == 0 .. 2
NO_HANDLE == 3

\* esp_ota_get_next_update_partition: an OTA slot that does not run.  The
\* factory slot is never written.
Other(s) == IF s = 1 THEN 2 ELSE 1

NoFile == [magic |-> FALSE, bin_size |-> 0, image |-> <<>>]

NoUpdate == [pc |-> "idle", header |-> NoFile, remaining |-> 0, chunk |-> <<>>,
             received |-> <<>>]

OtaInit ==
  /\ flash = [s \in Slots |-> IF s = 0 THEN Factory ELSE <<>>]
  /\ boot = 0 /\ running = 0
  /\ ota = NoUpdate
  /\ ota_ctx = NO_HANDLE

Goto(from, to) == ota.pc = from /\ ota' = [ota EXCEPT !.pc = to]

(***************************************************************************)
(* ota_update_stream                                                       *)
(***************************************************************************)
\* The boot loader starts the slot that is marked, and all memory is new.
OtaReset ==
  /\ running' = boot
  /\ ota' = NoUpdate
  /\ ota_ctx' = NO_HANDLE
  /\ UNCHANGED <<flash, boot>>

\* httpd_input_stream_init or uart_input_stream_init, and the call.  Without
\* memory for the second the stream has no read function, and its call stops
\* the program.
StartUpdate ==
  /\ ota.pc = "idle"
  /\ \/ /\ ota' = [NoUpdate EXCEPT !.pc = "header"]
        /\ ota_ctx' = NO_HANDLE
        /\ UNCHANGED <<flash, boot, running>>
     \/ OtaReset

\* The labels free_gcm, free_pk and exit: nothing is undone in flash, and the
\* handle is not given back.
Fail ==
  /\ ota' = NoUpdate
  /\ UNCHANGED <<flash, boot, running, ota_ctx>>

check_header(h) == h.magic /\ h.bin_size # 0 /\ h.bin_size <= BIN_SIZE

\* httpd_read and uart_read: what has arrived so far, never more than asked
\* for.  Both stand for errors and limits by 0, so less than asked for is all
\* that the update sees of them, and it ends there.
ReadHeader ==
  /\ ota.pc = "header"
  /\ \/ \E f \in Files :
          /\ check_header(f)
          /\ ota' = [ota EXCEPT !.pc = "keys", !.header = f,
                                !.remaining = f.bin_size]
          /\ UNCHANGED <<flash, boot, running, ota_ctx>>
     \/ Fail

\* The key of the device decrypts the key of the image; any of the calls of
\* mbedtls may fail.
SetupKeys ==
  \/ Goto("keys", "read") /\ UNCHANGED <<flash, boot, running, ota_ctx>>
  \/ ota.pc = "keys" /\ Fail

ChunkLen == IF ota.remaining > BUF_SIZE THEN BUF_SIZE ELSE ota.remaining

\* A chunk is read and decrypted.  The bytes may be any: a damaged file, or one
\* that goes on after its end.
ReadChunk ==
  /\ ota.pc = "read" /\ ota.remaining > 0
  /\ \/ \E data \in [1 .. ChunkLen -> Units] :
          /\ ota' = [ota EXCEPT !.pc = "process", !.chunk = data,
                                !.received = @ \o data]
          /\ UNCHANGED <<flash, boot, running, ota_ctx>>
     \/ Fail

(***************************************************************************)
(* process_chunk                                                           *)
(***************************************************************************)
\* esp_ota_begin erases the slot.  It may fail, and so may the look for one.
ProcessBegin ==
  /\ ota.pc = "process" /\ ota_ctx = NO_HANDLE
  /\ \/ /\ ota_ctx' = Other(running)
        /\ flash' = [flash EXCEPT ![ota_ctx'] = <<>>]
        /\ UNCHANGED <<boot, running, ota>>
     \/ Fail

\* The chunk is written behind the ones before it and the loop goes on.  A
\* writing that fails may have stored something.
ProcessWrite ==
  /\ ota.pc = "process" /\ ota_ctx # NO_HANDLE
  /\ \/ /\ flash' = [flash EXCEPT ![ota_ctx] = @ \o ota.chunk]
        /\ ota' = [ota EXCEPT !.pc = "read", !.chunk = <<>>,
                              !.remaining = @ - Len(ota.chunk)]
        /\ UNCHANGED <<boot, running, ota_ctx>>
     \/ /\ flash' = [flash EXCEPT ![ota_ctx] = @ \o ota.chunk]
        /\ ota' = NoUpdate
        /\ UNCHANGED <<boot, running, ota_ctx>>
     \/ Fail

\* Mutant of CheckTag: the tag is computed and not compared.
CheckTagNot ==
  /\ ota.pc = "read" /\ ota.remaining = 0
  /\ \/ /\ ota' = [ota EXCEPT !.pc = "end"]
        /\ UNCHANGED <<flash, boot, running, ota_ctx>>
     \/ Fail

\* mbedtls_gcm_finish and the comparison of the tags, which tells any two
\* different images apart.
CheckTag ==
  /\ ota.pc = "read" /\ ota.remaining = 0
  /\ \/ /\ ota.received = ota.header.image
        /\ ota' = [ota EXCEPT !.pc = "end"]
        /\ UNCHANGED <<flash, boot, running, ota_ctx>>
     \/ Fail

(***************************************************************************)
(* complete_ota                                                            *)
(***************************************************************************)
\* esp_ota_end refuses a handle that no esp_ota_begin gave out.
OtaEnd ==
  \/ /\ Goto("end", "set_boot") /\ ota_ctx # NO_HANDLE
     /\ UNCHANGED <<flash, boot, running, ota_ctx>>
  \/ ota.pc = "end" /\ Fail

SetBootPartition ==
  \/ /\ Goto("set_boot", "restart")
     /\ boot' = ota_ctx
     /\ UNCHANGED <<flash, running, ota_ctx>>
  \/ ota.pc = "set_boot" /\ Fail

EspRestart == ota.pc = "restart" /\ OtaReset

OtaStep ==
  \/ ReadHeader \/ SetupKeys \/ ReadChunk \/ ProcessBegin \/ ProcessWrite
  \/ CheckTag \/ OtaEnd \/ SetBootPartition \/ EspRestart

\* OtaReset alone is a loss of power, or a watchdog, at any point.
OtaNext == StartUpdate \/ OtaStep \/ OtaReset

OtaSpec == OtaInit /\ [][OtaNext]_otaVars

(***************************************************************************)
(* Properties.                                                             *)
(***************************************************************************)
Images == {Factory} \union {f.image : f \in Files}

\* Every variable keeps its type.
OtaTypeOK ==
  /\ flash \in [Slots -> Seq(Units)]
  /\ boot \in Slots /\ running \in Slots
  /\ ota \in [pc : {"idle", "header", "keys", "read", "process", "end",
                    "set_boot", "restart"},
              header : Files \union {NoFile}, remaining : Nat,
              chunk : Seq(Units), received : Seq(Units)]
  /\ ota_ctx \in Slots \union {NO_HANDLE}

\* Whatever was sent, whatever failed and whenever the power went: the slot the
\* boot loader will start holds the whole of an image and nothing else, though
\* chunks are in flash before the tag over them has been compared.
BootIsComplete == flash[boot] \in Images
=============================================================================

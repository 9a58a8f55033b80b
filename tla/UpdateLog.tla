------------------------------ MODULE UpdateLog ------------------------------
(***************************************************************************)
(* The incremental-propagation update log (src/src/kdc/kdb/mit/ulog.rs):   *)
(* a header and a ring of Entries slots.  An update with serial number sno *)
(* lives in slot (sno - 1) % Entries; a database position is a serial      *)
(* number together with the time it was assigned, so that two numberings   *)
(* of a log that was reset in between are told apart.                      *)
(*                                                                         *)
(* Every operator is a step of the log's owner under the log's lock        *)
(* (fcntl lock plus process-wide gate); who may run them and when is the   *)
(* business of the modules that use this one.  Record sizes and the        *)
(* resizing of blocks are left out: no decision depends on them except     *)
(* the refusal of a record that can never fit, which changes nothing.      *)
(***************************************************************************)
EXTENDS Integers, Sequences

CONSTANTS Entries,    \* iprop_ulogsize: slots of the ring
          MaxSno,     \* the largest serial number (u32::MAX in the code)
          NoUpdate    \* the payload of a dummy entry

ASSUME EntriesAssumption == Entries \in Nat \ {0}
ASSUME MaxSnoAssumption == MaxSno \in Nat /\ MaxSno > Entries

At(sno, time) == [sno |-> sno, time |-> time]

EmptySlot == [sno |-> 0, time |-> 0, upd |-> NoUpdate, commit |-> FALSE]

SlotOf(sno) == (sno - 1) % Entries

(* check_sno: the slot of the serial number still holds it. *)
CheckSno(log, last) ==
  LET ent == log.slot[SlotOf(last.sno)]
  IN ent.sno = last.sno /\ ent.time = last.time

(* set_dummy: one entry without a payload stands for everything up to it.
   The entry is written and synced before the caller writes the header: a
   process that dies in between leaves the old header over it. *)
DummyCut(log, last) ==
  [log EXCEPT !.slot[SlotOf(last.sno)] =
                 [sno |-> last.sno, time |-> last.time, upd |-> NoUpdate,
                  commit |-> FALSE]]
SetDummy(log, last) ==
  [DummyCut(log, last) EXCEPT !.num = 1, !.first = last, !.last = last]

(* reset_ulog: a new numbering from serial 1; old slots are left behind. *)
Reset(log, now) == [SetDummy(log, At(1, now)) EXCEPT !.stable = TRUE]
ResetCut(log, now) == DummyCut(log, At(1, now))

NewLog(now) ==
  Reset([stable |-> FALSE, num |-> 0, first |-> At(0, 0), last |-> At(0, 0),
         slot |-> [i \in 0 .. Entries - 1 |-> EmptySlot]], now)

(* check_on_map: a log whose ends are not where the header says is reset.
   The state of the header is not looked at. *)
EndsMissing(log) ==
  log.num # 0 /\ ( \/ log.num > Entries
                   \/ ~CheckSno(log, log.first)
                   \/ ~CheckSno(log, log.last) )
CheckOnMap(log, now) == IF EndsMissing(log) THEN Reset(log, now) ELSE log

(* The first half of store_update: the header is unstable, the slot is
   overwritten.  The entry is marked committed just before the header is
   made stable again; a crash before that leaves what this step leaves. *)
StoreBegin(log, last, upd) ==
  [log EXCEPT !.stable = FALSE,
              !.slot[SlotOf(last.sno)] =
                 [sno |-> last.sno, time |-> last.time, upd |-> upd,
                  commit |-> FALSE]]

(* Mutant: the oldest entry is looked for in the slot just written. *)
StoreEndOwnSlot(log, last) ==
  [log EXCEPT !.slot[SlotOf(last.sno)].commit = TRUE,
              !.last = last,
              !.num = IF @ < Entries THEN @ + 1 ELSE @,
              !.first = IF log.num < Entries THEN @
                        ELSE At(log.slot[SlotOf(last.sno)].sno,
                                log.slot[SlotOf(last.sno)].time),
              !.stable = TRUE]

(* The second half of store_update.  When the ring is full the oldest entry
   is the one in the slot after the new one. *)
StoreEnd(log, last) ==
  LET oldest == log.slot[last.sno % Entries]
  IN [log EXCEPT !.slot[SlotOf(last.sno)].commit = TRUE,
                 !.last = last,
                 !.num = IF @ < Entries THEN @ + 1 ELSE @,
                 !.first = IF log.num = 0 THEN last
                           ELSE IF log.num < Entries THEN @
                           ELSE At(oldest.sno, oldest.time),
                 !.stable = TRUE]

(* add_update_locked: no number is left after the last one, and the log is
   reset first. *)
Exhausted(log) == log.last.sno = MaxSno

(* store_replayed: keep the primary's number; a gap resets the log first. *)
StoreReplayed(log, last, upd, now) ==
  LET base == IF log.num # 0 /\ last.sno # log.last.sno + 1
              THEN Reset(log, now) ELSE log
  IN StoreEnd(StoreBegin(base, last, upd), last)

(* Mutant: a serial number in the window is taken at its word. *)
SnoStatusByNumber(log, last) ==
  IF last = log.last THEN "nil"
  ELSE IF log.num = 0 \/ last.sno > log.last.sno \/ last.sno < log.first.sno
       THEN "full_resync"
  ELSE "ok"

(* get_sno_status *)
SnoStatus(log, last) ==
  IF last = log.last THEN "nil"
  ELSE IF \/ log.num = 0
          \/ last.sno > log.last.sno
          \/ last.sno < log.first.sno
          \/ ~CheckSno(log, last) THEN "full_resync"
  ELSE "ok"

(* get_entries, before its answer: an unstable log is reset. *)
GetEntriesLog(log, now) == IF log.stable THEN log ELSE Reset(log, now)

(* get_entries: the updates after last, each with its position and whether
   its entry was committed.  A dummy entry does not decode: the call fails. *)
GetEntries(log, last) ==
  LET ents == [i \in 1 .. (log.last.sno - last.sno) |->
                 log.slot[(last.sno + i - 1) % Entries]]
  IN IF SnoStatus(log, last) # "ok"
     THEN [status |-> SnoStatus(log, last), updates |-> << >>]
     ELSE IF \E i \in DOMAIN ents : ents[i].upd = NoUpdate
     THEN [status |-> "error", updates |-> << >>]
     ELSE [status |-> "ok", updates |-> ents]

=============================================================================

---------------------------- MODULE TouchFirmware ----------------------------
(***************************************************************************)
(* The firmware life of the Hynitron touch controllers, one backend per    *)
(* chip family in hyn_driver_release_qm/hyn_chips: the probe that reads    *)
(* the checksum of the flash and judges whether the image compiled into    *)
(* the driver must be written, and the update that enters the boot loader, *)
(* erases, writes packet by packet, verifies and tries again.  The eight   *)
(* backends share the shape and differ in what they do when a step fails.  *)
(*                                                                         *)
(* The bus and the flash answer as they like: a transfer may fail, a       *)
(* packet may be stored, garbled or lost whatever the transfer said, and   *)
(* power may be cut between any two steps.  Checksums are told apart only  *)
(* as that of the image being written, that of another whole firmware, or  *)
(* none (0: not read, or the chip says that its flash does not add up).    *)
(***************************************************************************)
EXTENDS Naturals

CONSTANTS
  Pages,       \* bound: the packets an image is cut into (the code: 15 to 64)
  MaxCuts      \* bound: power cuts in a behaviour

ASSUME PagesAssumption == Pages \in Nat \ {0} /\ MaxCuts \in Nat

Chips == {"cst66xx", "cst3240", "cst36xxes", "cst3xx", "cst226se",
          "cst7xx", "cst8xxT", "cst92xx"}

\* The tries of each update loop: --retry from 4, or retry = 1 .. below 5 or 10.
Tries == [c \in Chips |-> CASE c \in {"cst7xx", "cst92xx"} -> 4
                            [] c = "cst8xxT"               -> 9
                            [] OTHER                       -> 3]

VARIABLES
  chip,        \* the backend the driver bound (hyn_fuc_used)
  header,      \* the image compiled in: "intact", or "damaged" in the source file
  phase,       \* "off", "idle", or the place in tp_updata_fw; "probing" and "reading"
               \* are the cst3240's checksum loop, in the probe and in the update
  retry,       \* the try under way
  page,        \* i: the packet of the loop
  at,          \* eep_addr: the packet the next write goes to
  flash,       \* what each packet's flash holds
  want,        \* fw_checksum
  sum,         \* hw_info.ic_fw_checksum
  ret,         \* what the update would return: "ok" for 0
  addr,        \* the I2C address in use
  irq,         \* the touch interrupt is enabled
  need,        \* need_updata_fw
  result,      \* what the last update returned
  cuts         \* power cuts so far

vars == <<chip, header, phase, retry, page, at, flash, want, sum, ret, addr, irq,
          need, result, cuts>>

Packets == 0 .. Pages - 1
Stored == \A p \in Packets : flash[p] = "image"
Whole  == Stored \/ \A p \in Packets : flash[p] = "other"
Actual == IF Stored THEN "image" ELSE IF Whole THEN "other" ELSE "none"

Init ==
  /\ chip \in Chips /\ header \in {"intact", "damaged"}
  /\ flash \in {[p \in Packets |-> w] : w \in {"image", "other", "blank"}}
  /\ phase = "off" /\ retry = 0 /\ page = 0 /\ at = 0
  /\ want = "none" /\ sum = "none" /\ ret = "err"
  /\ addr = "main" /\ irq = FALSE /\ need = FALSE /\ result = "none" /\ cuts = 0

------------------------------------------------------------------------------
(* The probe.  f is what it saw: s the checksum, lost that its reading      *)
(* failed on the bus, info that the firmware answered updata_tpinfo, typ    *)
(* that the chip types agree, ver the image's version beside the chip's.    *)

\* The checksum of the flash as the chip reports it, none when the bus lost it.
Seen(lost) == IF lost THEN "none" ELSE Actual

\* The version test a backend makes: with no tpinfo the chip's version is 0.
NotOlder(f) == ~f.info \/ f.ver # "older"

Judge66xx(f) ==
  /\ header = "intact"
  /\ f.s = "none" \/ ~f.info \/ (f.typ /\ f.s # "image" /\ f.ver # "older")

\* Mutant: updata_judge trusts the chip that answers, as its comment on tpinfo would have it.
Judge3240Trusting(f) ==
  /\ header = "intact"
  /\ f.info /\ f.typ /\ f.s # "image" /\ f.ver # "older"

Judge3240(f) ==
  /\ header = "intact"
  /\ f.s = "none" \/ (f.info /\ f.typ /\ f.s # "image" /\ f.ver # "older")

Judge36xxes(f) ==
  f.s = "none" \/ (f.info /\ f.typ /\ f.s # "image" /\ f.ver = "newer")

Judge3xx(f) == f.s = "none" \/ (f.s # "image" /\ NotOlder(f))

Judge226se(f) ==
  /\ header = "intact"
  /\ f.s = "none" \/ ~f.info \/ (f.s # "image" /\ f.ver # "older")

Judge7xx(f) ==
  /\ header = "intact"
  /\ f.s = "none" \/ (f.s # "image" /\ NotOlder(f))

Judge8xxT(f) == f.s # "image" /\ NotOlder(f)

Judge92xx(f) == ~f.info \/ (f.s # "image" /\ f.ver # "older" /\ f.typ)

\* What tp_chip_init leaves behind: checksum, need_updata_fw, address.
Probed(s, n) == [sum |-> s, need |-> n, addr |-> "main"]

\* Boot loader, module id and image, checksum, back to the firmware, judge.
Init66xx(f)   == Probed(f.s, Judge66xx(f))
Init36xxes(f) == Probed(f.s, Judge36xxes(f))
Init3xx(f)    == Probed(f.s, Judge3xx(f))
Init226se(f)  == Probed(f.s, Judge226se(f))

\* The default image is judged even where the module id chose another to write.
Init3240(f)   == Probed(f.s, Judge3240(f))

\* Not judged at all when the boot code passes but the firmware does not answer.
Init7xx(f) == Probed(f.s, (f.info \/ f.s = "none") /\ Judge7xx(f))

\* A bad status sets need_updata_fw by itself and the driver stays at the boot
\* loader's address; a checksum lost on the bus leaves it to the judge.
Init8xxT(f) ==
  IF ~f.lost /\ f.s = "none"
  THEN [sum |-> f.s, need |-> TRUE, addr |-> "boot"]
  ELSE Probed(f.s, Judge8xxT(f))

\* The checksum comes with tpinfo; the boot loader is asked only when that failed.
Init92xx(f) == Probed(Seen(~f.info), Judge92xx([f EXCEPT !.s = Seen(~f.info)]))

ChipInit(f) ==
  CASE chip = "cst66xx"   -> Init66xx(f)
    [] chip = "cst3240"   -> Init3240(f)
    [] chip = "cst36xxes" -> Init36xxes(f)
    [] chip = "cst3xx"    -> Init3xx(f)
    [] chip = "cst226se"  -> Init226se(f)
    [] chip = "cst7xx"    -> Init7xx(f)
    [] chip = "cst8xxT"   -> Init8xxT(f)
    [] chip = "cst92xx"   -> Init92xx(f)

\* The end of tp_chip_init, with the checksum read or lost.
Judged(lost) ==
  /\ \E info, typ \in BOOLEAN, ver \in {"older", "same", "newer"} :
       LET i == ChipInit([s |-> Seen(lost), lost |-> lost, info |-> info,
                          typ |-> typ, ver |-> ver])
       IN /\ info => Whole
          /\ sum' = i.sum /\ need' = i.need /\ addr' = i.addr
  /\ phase' = "idle" /\ irq' = TRUE /\ result' = "none"
  /\ UNCHANGED <<chip, header, retry, page, at, flash, want, ret, cuts>>

\* cst3240_read_checksum's first loop, up to five tries: A000 says that the flash
\* adds up.  Only then does it come to its second loop.
Adds3240 == Actual # "none"

\* tp_chip_init, when the boot loader answered; without it nothing is bound.
Probe ==
  /\ phase = "off"
  /\ \/ \E lost \in BOOLEAN : (chip = "cst3240" => lost \/ ~Adds3240) /\ Judged(lost)
     \/ /\ chip = "cst3240" /\ Adds3240 /\ phase' = "probing"
        /\ UNCHANGED <<chip, header, retry, page, at, flash, want, sum, ret, addr, irq,
                       need, result, cuts>>

\* The second loop in the probe: A008 has been read.  While that fails the loop goes
\* round, its retry is never counted down.
ProbeRead == phase = "probing" /\ Judged(FALSE)

\* Power may go at any moment; the flash keeps what it has.
PowerCut ==
  /\ phase # "off" /\ cuts < MaxCuts
  /\ phase' = "off" /\ cuts' = cuts + 1
  /\ retry' = 0 /\ page' = 0 /\ at' = 0 /\ want' = "none" /\ sum' = "none"
  /\ ret' = "err" /\ addr' = "main" /\ irq' = FALSE /\ need' = FALSE /\ result' = "none"
  /\ UNCHANGED <<chip, header, flash>>

------------------------------------------------------------------------------
(* The update, in pieces the backends share.                                *)

\* Mutant: A try that fails is not counted when a packet was under way.
AgainUncounted(r) ==
  /\ ret' = r /\ page' = 0 /\ at' = 0
  /\ IF retry < Tries[chip] \/ page > 0
     THEN retry' = retry /\ phase' = "boot"
     ELSE retry' = retry /\ phase' = "end"

\* The loop's continue: the next try, or out of tries.
Again(r) ==
  /\ ret' = r /\ page' = 0 /\ at' = 0
  /\ IF retry < Tries[chip]
     THEN retry' = retry + 1 /\ phase' = "boot"
     ELSE retry' = retry /\ phase' = "end"

Onward(r, next) == ret' = r /\ phase' = next /\ UNCHANGED <<retry, page, at>>

\* Before the loop: the image's checksum is known and the interrupt goes off.
Begin(r) ==
  /\ phase = "idle"
  /\ want' = "image" /\ irq' = FALSE /\ ret' = r
  /\ phase' = "boot" /\ retry' = 1 /\ page' = 0 /\ at' = 0
  /\ UNCHANGED <<chip, header, flash, sum, addr, need, result, cuts>>

\* Short image or unreadable file: straight to UPDATA_END, the interrupt untouched.
Refuse(r) ==
  /\ phase = "idle"
  /\ want' = "none" /\ ret' = r /\ phase' = "end" /\ retry' = 1
  /\ UNCHANGED <<chip, header, page, at, flash, sum, addr, irq, need, result, cuts>>

\* enter_boot: the boot loader answered, or the try is over.
EnterBoot(next, failed) ==
  /\ phase = "boot" /\ addr' = "boot"
  /\ Onward("ok", next) \/ Again(failed)
  /\ UNCHANGED <<chip, header, flash, want, sum, irq, need, result, cuts>>

\* An erase that blanks any of the flash, all of it when it is what it says it is.
Wipe == \E gone \in SUBSET Packets :
          flash' = [p \in Packets |-> IF p \in gone THEN "blank" ELSE flash[p]]

Erase(failed) ==
  /\ phase = "erase"
  /\ \/ flash' = [p \in Packets |-> "blank"] /\ Onward("ok", "write")
     \/ Wipe /\ Again(failed)
  /\ UNCHANGED <<chip, header, want, sum, addr, irq, need, result, cuts>>

\* A packet sent to flash p is stored, garbled or lost.
Store(p) == \E c \in {"image", "blank", flash[p]} : flash' = [flash EXCEPT ![p] = c]

\* The end of a turn of the packet loop, its status r; slot is eep_addr after it.
Turn(r, slot) ==
  IF page + 1 < Pages
  THEN page' = page + 1 /\ at' = slot /\ ret' = r /\ UNCHANGED <<phase, retry>>
  ELSE IF r = "ok"
       THEN page' = Pages /\ at' = slot /\ ret' = r /\ phase' = "verify" /\ UNCHANGED retry
       ELSE Again("err")

Sending == phase = "write" /\ UNCHANGED <<chip, header, want, sum, addr, irq, need, result, cuts>>

\* Mutant: A page that was not confirmed is taken for written by the loop's last turn.
CompareLoose(s, r, failed) ==
  /\ sum' = s
  /\ IF s = want \/ s = sum THEN Onward(r, "end") ELSE Again(failed)

\* The checksum s is read: the same as the image's ends the loop with ret r.
Compare(s, r, failed) ==
  /\ sum' = s
  /\ IF s = want THEN Onward(r, "end") ELSE Again(failed)

Verifying == phase = "verify" /\ UNCHANGED <<chip, header, flash, want, addr, irq, need, result, cuts>>

\* UPDATA_END: main address, reset, the interrupt back on.
Finish(r) ==
  /\ phase = "end"
  /\ result' = r /\ addr' = "main" /\ irq' = TRUE
  /\ phase' = "idle" /\ retry' = 0 /\ page' = 0 /\ at' = 0
  /\ UNCHANGED <<chip, header, flash, want, ret, need, cuts>>

------------------------------------------------------------------------------
(* The backends.                                                            *)

\* read_checksum: the three sections added up, or nothing when one is not read.
Sum66xx == {Actual, "none"}

\* A packet whose set-up fails is skipped without moving eep_addr, only the last
\* packet's status counts, and a failed erase leaves ret at enter_boot's 0.
Update66xx ==
  \/ Begin("err") \/ Refuse("err")
  \/ EnterBoot("erase", "err")
  \/ Erase("ok")
  \/ Sending /\ (\/ UNCHANGED flash /\ Turn("err", at)
                 \/ Store(at) /\ \E r \in {"ok", "err"} : Turn(r, at + 1))
  \/ Verifying /\ \E s \in Sum66xx : Compare(s, "ok", "err")
  \/ Finish(ret) /\ UNCHANGED sum

\* read_checksum: the first loop gives up (0), or the second is entered, which only a
\* read of A008 that succeeds leaves.
Sum3240 ==
  \/ Compare("none", "ok", "err")
  \/ Adds3240 /\ Onward(ret, "reading") /\ UNCHANGED sum

Read3240 ==
  /\ phase = "reading" /\ Compare(Actual, "ok", "err")
  /\ UNCHANGED <<chip, header, flash, want, addr, irq, need, result, cuts>>

\* A packet that could not be sent is skipped, one that did not finish ends the try.
Update3240 ==
  \/ Begin("err") \/ Refuse("err")
  \/ EnterBoot("write", "err")
  \/ Sending /\ Store(page) /\ (\/ \E r \in {"ok", "err"} : Turn(r, at + 1)
                                \/ Again("err"))
  \/ Verifying /\ (Sum3240 \/ (Again("err") /\ UNCHANGED sum))
  \/ Read3240
  \/ Finish(ret) /\ UNCHANGED sum

Sum36xxes == {Actual, "none"}

\* erase_all_mem and write_code return TRUE whatever the bus said.
Erase36xxes ==
  /\ phase = "erase" /\ Wipe /\ Onward("ok", "write")
  /\ UNCHANGED <<chip, header, want, sum, addr, irq, need, result, cuts>>

Write36xxes == Sending /\ Store(page) /\ Turn("ok", at + 1)

\* A checksum that differs leaves ret at write_code's 0; so does a short image, whose
\* length is compared after get_fwsize set ret.
Update36xxes ==
  \/ Begin("ok") \/ Refuse("err") \/ Refuse("ok")
  \/ EnterBoot("erase", "err")
  \/ Erase36xxes
  \/ Write36xxes
  \/ Verifying /\ \E s \in Sum36xxes : Compare(s, "ok", "ok")
  \/ Finish(ret) /\ UNCHANGED sum

\* A checksum that is not read leaves the previous one in hw_info.
Sum3xx == {IF Actual = "none" THEN sum ELSE Actual, sum}

\* Returns !retry: an error only when every try was used, success for a bad file.
Update3xx ==
  \/ Begin("err") \/ Refuse("ok")
  \/ EnterBoot("write", "err")
  \/ Sending /\ Store(page) /\ (Turn("ok", at + 1) \/ Again("err"))
  \/ Verifying /\ (\/ \E s \in Sum3xx : Compare(s, "ok", "err")
                   \/ Again("err") /\ UNCHANGED sum)
  \/ Finish(ret) /\ UNCHANGED sum

Sum226se == {Actual, "none"}

\* Success is the checksum read last, in this update or before it, being the image's.
Update226se ==
  \/ Begin("err") \/ Refuse("err")
  \/ EnterBoot("write", "err")
  \/ Sending /\ Store(page) /\ (Turn("ok", at + 1) \/ Again("err"))
  \/ Verifying /\ (\/ \E s \in Sum226se : Compare(s, "ok", "err")
                   \/ Again("err") /\ UNCHANGED sum)
  \/ Finish(IF want = sum THEN "ok" ELSE "err") /\ UNCHANGED sum

Sum7xx == {Actual, "none"}

\* write_flash_page, sent two or three times before the try is given up.
Page7xx == Sending /\ Store(page) /\ (Turn("ok", at + 1) \/ Again("err"))

\* A file that cannot be read half way ends the update.
Update7xx ==
  \/ Begin("err") \/ Refuse("err")
  \/ EnterBoot("write", "err")
  \/ Page7xx
  \/ Sending /\ UNCHANGED flash /\ Onward("err", "end")
  \/ Verifying /\ \E s \in Sum7xx : Compare(s, "ok", "err")
  \/ Finish(ret) /\ UNCHANGED sum

Sum8xxT == {Actual, "none"}

\* A packet is stored, the file fails (any code but -1 is taken for success and the
\* rest is left unwritten), or the bus fails.
Write8xxT ==
  /\ Sending
  /\ \/ Store(page) /\ (Turn("ok", at + 1) \/ Again("ok"))
     \/ UNCHANGED flash /\ Onward("ok", "verify")

\* ok_copy starts as success and turns into failure only when the verify agrees at
\* the fifth try or later.
Update8xxT ==
  \/ Begin("ok") \/ Refuse("ok")
  \/ EnterBoot("write", "ok")
  \/ Write8xxT
  \/ Verifying /\ \E s \in Sum8xxT : Compare(s, IF retry >= 5 THEN "err" ELSE "ok", "ok")
  \/ Finish(ret) /\ UNCHANGED sum

Sum92xx == {Actual, "none"}

Erase92xx == Erase("ok")

\* write_code stops at the first page write_mem_page could not finish.
Write92xx == Sending /\ Store(page) /\ (Turn("ok", at + 1) \/ Again("ok"))

\* ok_copy never becomes failure (retry >= 5 is out of the loop's reach); tpinfo
\* reads the checksum anew.  A file with the checksum of the chip is not written.
Update92xx ==
  \/ Begin("ok") \/ Refuse("ok")
  \/ EnterBoot("erase", "ok")
  \/ Erase92xx
  \/ Write92xx
  \/ Verifying /\ \E s \in Sum92xx : Compare(s, "ok", "ok")
  \/ Finish("ok") /\ sum' \in {Actual, sum}

Update ==
  \/ chip = "cst66xx"   /\ Update66xx
  \/ chip = "cst3240"   /\ Update3240
  \/ chip = "cst36xxes" /\ Update36xxes
  \/ chip = "cst3xx"    /\ Update3xx
  \/ chip = "cst226se"  /\ Update226se
  \/ chip = "cst7xx"    /\ Update7xx
  \/ chip = "cst8xxT"   /\ Update8xxT
  \/ chip = "cst92xx"   /\ Update92xx

Next == Probe \/ ProbeRead \/ PowerCut \/ Update

\* In the loop without end.
Stuck3240 == phase \in {"probing", "reading"}

\* The update runs in the writer's context until it returns, and the driver is
\* probed when the machine is up: both go on, the transfers they count failing as
\* they like.  A read that has to succeed is no step that must come, and starting an
\* update is the user's.
Running == phase \notin {"off", "idle"} /\ ~Stuck3240 /\ Update

Spec == Init /\ [][Next]_vars /\ WF_vars(Probe) /\ WF_vars(Running)

------------------------------------------------------------------------------
(* Properties.                                                              *)

\* An update that returns success has left the whole image in the flash: on the
\* cst3240 and the cst7xx always, on the cst66xx when its last try came as far as
\* the verify (page = Pages).  About the ret each step of the loops leaves behind:
\* packets are skipped, tries abandoned and restarted, and ret must not survive them.
\* The other backends do not promise it, see the comments at their Update.
SuccessIsStored ==
  (phase = "end" /\ ret = "ok" /\ want = "image")
    => \/ Stored
       \/ chip = "cst66xx" /\ page # Pages
       \/ chip \notin {"cst3240", "cst7xx", "cst66xx"}

\* A chip whose flash does not add up, for one because the power went in the middle
\* of an update, is found at the next probe by every backend, whatever the bus lost,
\* as long as the image compiled in is intact; and the backends that check that image
\* never ask for a damaged one to be written.  About the eight updata_judge.
ProbeJudges ==
  [][(phase \in {"off", "probing"} /\ phase' = "idle")
       => /\ (~Whole /\ header = "intact") => need'
          /\ (need' /\ header = "damaged")
               => chip \notin {"cst66xx", "cst3240", "cst226se", "cst7xx"}]_vars

\* Every update comes back to a touch screen that can report: out of the loops,
\* interrupt enabled and the address the firmware's, after power cuts too (except
\* where the cst8xxT's probe stays with the boot loader), whichever transfers fail -
\* provided that the cst3240 is let out of the second loop of its read_checksum each
\* time: that one has no bound, and a bus that fails there for ever keeps it.  About
\* the tries of the loops and UPDATA_END.
UpdateEnds ==
  []<>~Stuck3240 =>
    ((phase \notin {"off", "idle"})
       ~> (phase = "idle" /\ irq /\ (addr = "main" \/ (chip = "cst8xxT" /\ need))))
==============================================================================

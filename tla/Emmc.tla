-------------------------------- MODULE Emmc --------------------------------
(***************************************************************************)
(* The SD card driver, src/drivers/sd/emmc.c: sd_init(), sd_read_block()   *)
(* and the emmc_send_cmd() both use, against the host controller and the   *)
(* card, which work at their own pace.  Every poll with a time-out is two  *)
(* steps to choose from: the bit is seen, or the driver gives up.          *)
(*                                                                         *)
(* Controller and card are external: what they do is what the driver       *)
(* relies on, and, as far as Faults allows it, what the driver tests for.  *)
(***************************************************************************)
EXTENDS Integers, Sequences

CONSTANTS Lba,         \* numbers of the blocks
          Kind,        \* the cards to consider, of "SD1", "SD2", "SDHC"
          BlockSize,   \* 512
          Retries,     \* ACMD41_RETRIES
          Faults,      \* what may go wrong, see below
          Nil

\* "lost": a command or its answer does not get through, the controller reports
\* ERROR.  "slow": the driver gives up before an answer.  "no_data": a transfer
\* ends in ERROR before its data.  "slow_end", "bad_end": the driver gives up
\* before the end of a transfer, a transfer ends in ERROR after damaged data.
\* "stuck": no reset or no stable clock.  "odd": CMD8 is echoed wrongly.
ASSUME EmmcAssumption ==
  /\ Lba \subseteq Nat /\ Nil \notin Nat
  /\ Kind \subseteq {"SD1", "SD2", "SDHC"}
  /\ BlockSize \in Nat \ {0, 1} /\ Retries \in Nat \ {0}
  /\ Faults \subseteq {"lost", "slow", "no_data", "slow_end", "bad_end", "stuck", "odd"}

VARIABLES
  card,       \* the card: kind, state, relative address, bus width
  line,       \* the command on its way; STATUS_CMD_INHIBIT is line # Nil
  transfer,   \* the blocks the card sends; STATUS_DAT_INHIBIT is transfer # <<>>
  irpt,       \* EMMC_INTERRUPT
  resp0,      \* EMMC_RESP0, with the command it answers
  clock, bus, \* CONTROL1's clock and CONTROL0's bus width
  sd_state,
  step,       \* the command being sent, an index of Script
  at,         \* which poll of it the driver is at
  tries,      \* local i of sd_init()
  lba, buf,   \* sd_read_block()'s argument, and the block its buffer holds
  sd_ret      \* what the driver returns

hw_vars  == <<card, line, transfer, irpt, resp0, clock, bus>>
drv_vars == <<sd_state, step, at, tries, lba, buf, sd_ret>>
emmc_vars == <<hw_vars, drv_vars>>

\* The commands of sd_init() in order, and last that of sd_read_block().
Script == <<"CMD0", "CMD8", "CMD55", "ACMD41", "CMD2", "CMD3", "CMD7",
            "CMD55", "ACMD6", "CMD17">>
ReadStep == 10

\* A boot loader may have left the card in the middle of its work.
EmmcInit ==
  /\ card \in [kind : Kind, state : {"idle"}, rca : {0}, width : {1}]
         \cup [kind : Kind, state : {"tran"}, rca : {1}, width : {4}]
  /\ line = Nil
  /\ transfer = <<>>
  /\ irpt = {}
  /\ resp0 = [cmd |-> Nil, val |-> 0]
  /\ clock = "off" /\ bus = 1
  /\ sd_state = [type |-> "UNKNOWN", rca |-> 0, initialized |-> FALSE]
  /\ step = 1
  /\ at = "boot"
  /\ tries = 0
  /\ lba = Nil /\ buf = Nil
  /\ sd_ret = Nil

-----------------------------------------------------------------------------
(* Controller and card.                                                    *)

May(fault, set) == IF fault \in Faults THEN set ELSE {}
Damaged == -1      \* not the content of any block

CardLba(arg) == IF card.kind = "SDHC" THEN arg ELSE arg \div BlockSize

\* What the card may answer to a command, and become: nothing in a state in
\* which the command does not belong.
Replies(cmd, arg) ==
  LET To(state) == [card EXCEPT !.state = state]
      R(new, v) == [card |-> new, val |-> v]
  IN  CASE cmd = "CMD0" ->
             {R([kind |-> card.kind, state |-> "idle", rca |-> 0, width |-> 1], 0)}
        [] cmd = "CMD8" /\ card.state = "idle" /\ card.kind # "SD1" ->
             {R(card, "echo")} \cup May("odd", {R(card, "odd")})
        [] cmd = "CMD55" /\ card.state \in {"idle", "tran"} /\ arg = card.rca ->
             {R(card, 0)}
        [] cmd = "ACMD41" /\ card.state = "idle" ->   \* arg: the HCS bit
             {R(card, "busy")} \cup
             (IF card.kind = "SDHC" /\ ~arg THEN {} ELSE {R(To("ready"), card.kind)})
        [] cmd = "CMD2" /\ card.state = "ready" -> {R(To("ident"), 0)}
        [] cmd = "CMD3" /\ card.state = "ident" ->
             {R([To("stby") EXCEPT !.rca = 1], 1)}
        [] cmd = "CMD7" /\ card.state = "stby" /\ arg = card.rca -> {R(To("tran"), 0)}
        [] cmd = "ACMD6" /\ card.state = "tran" -> {R([card EXCEPT !.width = arg], 0)}
        [] cmd = "CMD17" /\ card.state = "tran" /\ CardLba(arg) \in Lba -> {R(card, 0)}
        [] OTHER -> {}

\* The card has done what it was told to.
Obeyed(r) ==
  /\ card' = r.card
  /\ transfer' = IF line.cmd = "CMD17"
                 THEN Append(transfer, [block |-> CardLba(line.arg), in |-> "card"])
                 ELSE transfer

answer ==
  /\ line # Nil /\ clock # "off"
  /\ \E r \in Replies(line.cmd, line.arg) :
       /\ Obeyed(r)
       /\ resp0' = [cmd |-> line.cmd, val |-> r.val]
  /\ irpt' = irpt \cup {"CMD_DONE"}
  /\ line' = Nil
  /\ UNCHANGED <<clock, bus, drv_vars>>

\* No valid answer: the command did not reach the card or does not belong
\* there, or the card has obeyed and its answer was damaged.  CMD0 has none.
no_answer ==
  /\ line # Nil /\ clock # "off"
  /\ \/ /\ "lost" \notin Faults => Replies(line.cmd, line.arg) = {}
        /\ UNCHANGED <<card, transfer>>
     \/ /\ "lost" \in Faults /\ line.cmd # "CMD0"
        /\ \E r \in Replies(line.cmd, line.arg) : Obeyed(r)
  /\ irpt' = irpt \cup {IF line.cmd = "CMD0" THEN "CMD_DONE" ELSE "ERROR"}
  /\ resp0' = [resp0 EXCEPT !.cmd = IF line.cmd = "CMD0" THEN "CMD0" ELSE @]
  /\ line' = Nil
  /\ UNCHANGED <<clock, bus, drv_vars>>

\* A block arrives in the FIFO ...
deliver ==
  /\ transfer # <<>> /\ transfer[1].in = "card"
  /\ \E b \in {transfer[1].block} \cup May("bad_end", {Damaged}) :
       transfer' = [transfer EXCEPT ![1] = [block |-> b, in |-> "fifo"]]
  /\ irpt' = irpt \cup {"READ_RDY"}
  /\ UNCHANGED <<card, line, resp0, clock, bus, drv_vars>>

\* ... or does not ...
data_error ==
  /\ transfer # <<>> /\ transfer[1].in = "card"
  /\ "no_data" \in Faults
  /\ transfer' = Tail(transfer)
  /\ irpt' = irpt \cup {"ERROR"}
  /\ UNCHANGED <<card, line, resp0, clock, bus, drv_vars>>

\* ... and once the FIFO is drained the transfer ends.
end_of_transfer ==
  /\ transfer # <<>> /\ transfer[1].in = "drained"
  /\ transfer' = Tail(transfer)
  /\ irpt' = irpt \cup
              {IF transfer[1].block = Damaged THEN "ERROR" ELSE "DATA_DONE"}
  /\ UNCHANGED <<card, line, resp0, clock, bus, drv_vars>>

Hardware == answer \/ no_answer \/ deliver \/ data_error \/ end_of_transfer

-----------------------------------------------------------------------------
(* emmc_send_cmd()                                                         *)

Send(i) == step' = i /\ at' = "inhibit"
SdReturn(r) == at' = "returned" /\ sd_ret' = r /\ UNCHANGED step

\* sd_init() goes on after a failed CMD0 and takes a failed CMD8 for a card of
\* version 1; every other failure is final.
CmdFails ==
  \/ /\ Script[step] = "CMD0"
     /\ Send(step + 1)
     /\ UNCHANGED <<sd_state, sd_ret>>
  \/ /\ Script[step] = "CMD8"
     /\ sd_state' = [sd_state EXCEPT !.type = "SD1"]
     /\ Send(step + 1)
     /\ UNCHANGED sd_ret
  \/ /\ Script[step] \notin {"CMD0", "CMD8"}
     /\ SdReturn(-1)
     /\ UNCHANGED sd_state

HcsAlways(type) == TRUE
HcsArg(type) == type # "SD1"

BlockArg(type, n) == IF type = "SDHC" THEN n ELSE n * BlockSize

Arg ==
  CASE Script[step] \in {"CMD55", "CMD7"} -> sd_state.rca
    [] Script[step] = "ACMD41" -> HcsArg(sd_state.type)
    [] Script[step] = "ACMD6" -> 4
    [] Script[step] = "CMD17" -> BlockArg(sd_state.type, lba)
    [] OTHER -> 0

DatIgnored == FALSE
DatInhibit == transfer # <<>>
Inhibited == line # Nil \/ (Script[step] = "CMD17" /\ DatInhibit)

\* Flags that an earlier command or transfer left are cleared.
FlagsKept == irpt
FlagsCleared == {}

send_cmd_issue ==
  /\ at = "inhibit" /\ ~Inhibited
  /\ irpt' = FlagsCleared
  /\ line' = [cmd |-> Script[step], arg |-> Arg]
  /\ at' = "command"
  /\ UNCHANGED <<card, transfer, resp0, clock, bus,
                 sd_state, step, tries, lba, buf, sd_ret>>

send_cmd_inhibited ==
  /\ at = "inhibit" /\ Inhibited
  /\ CmdFails
  /\ UNCHANGED <<hw_vars, tries, lba, buf>>

send_cmd_timeout ==
  /\ at = "command" /\ irpt \cap {"CMD_DONE", "ERROR"} = {}
  /\ "slow" \in Faults \/ clock = "off"
  /\ CmdFails
  /\ UNCHANGED <<hw_vars, tries, lba, buf>>

Acknowledge(flags) == irpt' = irpt \ flags

send_cmd_error ==
  /\ at = "command" /\ "ERROR" \in irpt
  /\ Acknowledge({"CMD_DONE", "ERROR"})
  /\ CmdFails
  /\ UNCHANGED <<card, line, transfer, resp0, clock, bus, tries, lba, buf>>

\* What the callers do with a successful answer.
Succeeded(cmd) ==
  /\ at = "command" /\ Script[step] = cmd
  /\ "CMD_DONE" \in irpt /\ "ERROR" \notin irpt
  /\ Acknowledge({"CMD_DONE", "ERROR"})
  /\ UNCHANGED <<card, line, transfer, resp0, lba, buf>>

-----------------------------------------------------------------------------
(* sd_init()                                                               *)

\* set_clock() returns without a clock, and without an error, when the clock
\* does not settle.
set_clock(rate) == clock' \in {rate} \cup May("stuck", {"off"})

sd_init ==
  /\ at = "boot"
  /\ sd_state' = [type |-> "UNKNOWN", rca |-> 0, initialized |-> FALSE]
  /\ \/ "stuck" \in Faults /\ SdReturn(-1) /\ UNCHANGED <<irpt, clock>>
     \/ irpt' = {} /\ set_clock("id") /\ Send(1) /\ UNCHANGED sd_ret
  /\ UNCHANGED <<card, line, transfer, resp0, bus, tries, lba, buf>>

init_plain ==       \* answers that are not looked at
  /\ \E cmd \in {"CMD0", "CMD55", "CMD2"} : Succeeded(cmd)
  /\ Send(step + 1)
  /\ UNCHANGED <<clock, bus, sd_state, tries, sd_ret>>

init_CMD8 ==
  /\ Succeeded("CMD8")
  /\ \/ /\ resp0.val = "echo"
        /\ sd_state' = [sd_state EXCEPT !.type = "SD2"]
        /\ Send(step + 1)
        /\ UNCHANGED sd_ret
     \/ resp0.val # "echo" /\ SdReturn(-1) /\ UNCHANGED sd_state
  /\ UNCHANGED <<clock, bus, tries>>

init_ACMD41 ==
  /\ Succeeded("ACMD41")
  /\ \/ /\ resp0.val # "busy"
        /\ sd_state' = IF sd_state.type = "SD2" /\ resp0.val = "SDHC"
                       THEN [sd_state EXCEPT !.type = "SDHC"] ELSE sd_state
        /\ Send(step + 1)
        /\ tries' = 0
        /\ UNCHANGED sd_ret
     \/ /\ resp0.val = "busy"
        /\ tries' = tries + 1
        /\ IF tries' < Retries THEN Send(step - 1) /\ UNCHANGED sd_ret
                               ELSE SdReturn(-1)
        /\ UNCHANGED sd_state
  /\ UNCHANGED <<clock, bus>>

init_CMD3 ==
  /\ Succeeded("CMD3")
  /\ sd_state' = [sd_state EXCEPT !.rca = resp0.val]
  /\ Send(step + 1)
  /\ UNCHANGED <<clock, bus, tries, sd_ret>>

init_CMD7 ==
  /\ Succeeded("CMD7")
  /\ set_clock("data")
  /\ Send(step + 1)
  /\ UNCHANGED <<bus, sd_state, tries, sd_ret>>

init_ACMD6 ==
  /\ Succeeded("ACMD6")
  /\ bus' = 4
  /\ sd_state' = [sd_state EXCEPT !.initialized = TRUE]
  /\ SdReturn(0)
  /\ UNCHANGED <<clock, tries>>

Initialise == \/ sd_init \/ init_plain \/ init_CMD8 \/ init_ACMD41
              \/ init_CMD3 \/ init_CMD7 \/ init_ACMD6

-----------------------------------------------------------------------------
(* sd_read_block(), and blkdev_read(), which fails like it when sd_init()  *)
(* has not registered the device.                                          *)

sd_read_block(n) ==
  /\ at = "idle"
  /\ lba' = n
  /\ \/ ~sd_state.initialized /\ SdReturn(-1)
     \/ sd_state.initialized /\ at' = "dat" /\ UNCHANGED <<step, sd_ret>>
  /\ UNCHANGED <<hw_vars, sd_state, tries, buf>>

read_dat ==
  /\ at = "dat"
  /\ \/ ~DatInhibit /\ Send(ReadStep) /\ UNCHANGED sd_ret
     \/ DatInhibit /\ SdReturn(-1)
  /\ UNCHANGED <<hw_vars, sd_state, tries, lba, buf>>

read_CMD17 ==
  /\ Succeeded("CMD17")
  /\ at' = "read_rdy"
  /\ UNCHANGED <<clock, bus, sd_state, step, tries, sd_ret>>

\* The FIFO is drained into the buffer.
read_drain ==
  /\ at = "read_rdy" /\ "READ_RDY" \in irpt /\ "ERROR" \notin irpt
  /\ Acknowledge({"READ_RDY"})
  /\ buf' = transfer[1].block
  /\ transfer' = [transfer EXCEPT ![1].in = "drained"]
  /\ at' = "data_done"
  /\ UNCHANGED <<card, line, resp0, clock, bus, sd_state, step, tries, lba, sd_ret>>

read_error ==
  /\ at = "read_rdy" /\ "ERROR" \in irpt
  /\ Acknowledge({"READ_RDY", "ERROR"})
  /\ SdReturn(-1)
  /\ UNCHANGED <<card, line, transfer, resp0, clock, bus, sd_state, tries, lba, buf>>

\* Either flag is taken for the end of the transfer.
read_end ==
  /\ at = "data_done" /\ irpt \cap {"DATA_DONE", "ERROR"} # {}
  /\ Acknowledge({"DATA_DONE", "ERROR"})
  /\ SdReturn(0)
  /\ UNCHANGED <<card, line, transfer, resp0, clock, bus, sd_state, tries, lba, buf>>

\* Before or after the buffer was filled.
read_timeout ==
  /\ \/ at = "read_rdy" /\ irpt \cap {"READ_RDY", "ERROR"} = {}
     \/ at = "data_done" /\ irpt \cap {"DATA_DONE", "ERROR"} = {}
  /\ [read_rdy |-> "slow", data_done |-> "slow_end"][at] \in Faults
  /\ SdReturn(-1)
  /\ UNCHANGED <<hw_vars, sd_state, tries, lba, buf>>

\* The caller takes the result.
taken ==
  /\ at = "returned"
  /\ at' = "idle"
  /\ lba' = Nil /\ buf' = Nil /\ sd_ret' = Nil
  /\ UNCHANGED <<hw_vars, sd_state, step, tries>>

Read == read_dat \/ read_CMD17 \/ read_drain \/ read_error \/ read_timeout \/ read_end

SendCmd == send_cmd_issue \/ send_cmd_inhibited \/ send_cmd_timeout \/ send_cmd_error

Driver == SendCmd \/ Initialise \/ Read

EmmcNext ==
  \/ Hardware
  \/ Driver
  \/ taken
  \/ \E n \in Lba : sd_read_block(n)

EmmcSpec == EmmcInit /\ [][EmmcNext]_emmc_vars

-----------------------------------------------------------------------------
(* Properties.                                                             *)

\* When sd_init() succeeds, driver, controller and card agree: the card is
\* selected under the address the driver uses, both ends use the same bus
\* width, the clock runs at the data rate, and the driver addresses the card in
\* the card's unit, whichever commands were lost, late or answered in error.
InitAgrees ==
  sd_state.initialized =>
    /\ card.state = "tran" /\ card.rca = sd_state.rca
    /\ bus = card.width
    /\ clock = "data"
    /\ (sd_state.type = "SDHC") <=> (card.kind = "SDHC")

\* A command is never taken for done on the strength of the flag of an earlier
\* one that was given up: the answer read from RESP0 is its own.
AnswersItsCommand ==
  at = "command" /\ "CMD_DONE" \in irpt => resp0.cmd = Script[step]

\* A read that succeeds has put the block it was asked for into the buffer, also
\* when the data of a read that was given up came later.
ReadsTheBlock ==
  at = "returned" /\ sd_ret = 0 /\ step = ReadStep => buf = lba

=============================================================================

--------------------------- MODULE StorageProofs ---------------------------
(***************************************************************************)
(* What the SD driver and the FAT32 reader on it promise, for every card,  *)
(* every volume and whatever fails: that a card that sd_init() accepts is  *)
(* set up as the driver believes, that answers and blocks are those of the *)
(* command and the read they are taken for, and what the FAT cache holds.  *)
(***************************************************************************)
EXTENDS Storage, SequenceTheorems, TLAPS

Cmds == {"CMD0", "CMD8", "CMD55", "ACMD41", "CMD2", "CMD3", "CMD7", "ACMD6",
         "CMD17"}

Sending == at \in {"inhibit", "command"}

CardOK ==
  /\ card \in [kind : {"SD1", "SD2", "SDHC"},
               state : {"idle", "ready", "ident", "stby", "tran"},
               rca : {0, 1}, width : {1, 4}]
  /\ card.state \in {"stby", "tran"} => card.rca = 1

\* The data lines carry one block at most, and none before a read.
WireOK ==
  /\ line # Nil => line.cmd \in Cmds /\ (line.cmd = "ACMD6" => line.arg = 4)
  /\ line # Nil /\ line.cmd = "CMD17" => transfer = <<>>
  /\ \/ transfer = <<>>
     \/ \E b \in Lba \cup {Damaged}, i \in {"card", "fifo", "drained"} :
          transfer = <<[block |-> b, in |-> i]>>
  /\ resp0 = [cmd |-> resp0.cmd, val |-> resp0.val]

DriverOK ==
  /\ sd_state \in [type : {"UNKNOWN", "SD1", "SD2", "SDHC"}, rca : {0, 1},
                   initialized : BOOLEAN]
  /\ step \in 1..10
  /\ at \in {"boot", "inhibit", "command", "dat", "read_rdy", "data_done",
             "returned", "idle"}

\* The command the driver waits for is the one on its way, and then the one
\* that RESP0 answers; what its success tells of the card.
Sent ==
  at = "command" /\ line # Nil =>
    line = [cmd |-> Script[step], arg |-> Arg] /\ irpt = {} /\ transfer = <<>>

Answered ==
  at = "command" /\ "CMD_DONE" \in irpt =>
    /\ line = Nil
    /\ resp0.cmd = Script[step]
    /\ step = 4 /\ resp0.val # "busy" =>
         resp0.val = card.kind /\ (card.kind = "SDHC" => sd_state.type # "SD1")
    /\ step = 6 => resp0.val = 1
    /\ step = 8 => clock = "data"
    /\ step = 9 => card.state = "tran" /\ card.width = 4

\* What sd_init() has established when it comes to a command.
Staged ==
  ~sd_state.initialized =>
    /\ transfer = <<>>
    /\ line # Nil => line.cmd # "CMD17"
    /\ step # ReadStep
    /\ at \notin {"dat", "read_rdy", "data_done"}
    /\ Sending =>
         /\ step \in {3, 4} => sd_state.type \in {"SD1", "SD2"}
         /\ step >= 5 => ((sd_state.type = "SDHC") <=> (card.kind = "SDHC"))
         /\ step >= 7 => sd_state.rca = 1
         /\ step = 8 => clock \in {"data", "off"}
         /\ step = 9 => clock = "data"

\* Once the card is initialised it gets only reads.
Serving ==
  sd_state.initialized =>
    /\ InitAgrees
    /\ at # "boot"
    /\ line # Nil => line.cmd = "CMD17"
    /\ at \notin {"boot", "returned", "idle", "dat"} => step = ReadStep
    /\ at \in {"dat", "inhibit", "command"} => lba \in Int

\* The block asked for is under way.
OnItsWay ==
  \E i \in {"card", "fifo"} :
    /\ transfer = <<[block |-> lba, in |-> i]>>
    /\ "READ_RDY" \in irpt => i = "fifo"

Reading ==
  "bad_end" \notin Faults =>
    /\ at = "command" /\ step = ReadStep /\ "CMD_DONE" \in irpt
         /\ "ERROR" \notin irpt => OnItsWay
    /\ at = "read_rdy" /\ "ERROR" \notin irpt => OnItsWay
    /\ at = "data_done" => buf = lba
    /\ at = "returned" /\ sd_ret = 0 /\ step = ReadStep => buf = lba

\* A read that fails has not touched the buffer.
Untouched ==
  "slow_end" \notin Faults =>
    /\ at \notin {"data_done", "returned"} => buf = Nil
    /\ at = "returned" /\ sd_ret # 0 => buf = Nil

EmmcInv == /\ CardOK /\ WireOK /\ DriverOK /\ Sent /\ Answered /\ Staged
           /\ Serving /\ Reading /\ Untouched

-----------------------------------------------------------------------------
(* What the steps are made of.                                             *)

LEMMA ScriptIs ==
  /\ Script[1] = "CMD0" /\ Script[2] = "CMD8" /\ Script[3] = "CMD55"
  /\ Script[4] = "ACMD41" /\ Script[5] = "CMD2" /\ Script[6] = "CMD3"
  /\ Script[7] = "CMD7" /\ Script[8] = "CMD55" /\ Script[9] = "ACMD6"
  /\ Script[10] = "CMD17"
  BY DEF Script

LEMMA ScriptAt ==
  ASSUME DriverOK
  PROVE  /\ Script[step] \in Cmds
         /\ Script[step] = "CMD0" <=> step = 1
         /\ Script[step] = "CMD8" <=> step = 2
         /\ Script[step] = "CMD55" <=> step \in {3, 8}
         /\ Script[step] = "ACMD41" <=> step = 4
         /\ Script[step] = "CMD2" <=> step = 5
         /\ Script[step] = "CMD3" <=> step = 6
         /\ Script[step] = "CMD7" <=> step = 7
         /\ Script[step] = "ACMD6" <=> step = 9
         /\ Script[step] = "CMD17" <=> step = 10
  BY ScriptIs DEF DriverOK, Cmds

\* The card's answer to a command that belongs in its state.
Reply(cmd, arg, r) ==
  /\ r.card \in [kind : {"SD1", "SD2", "SDHC"},
                 state : {"idle", "ready", "ident", "stby", "tran"},
                 rca : {0, 1}, width : {1, 4}]
  /\ r.card.state \in {"stby", "tran"} => r.card.rca = 1
  /\ r.card.kind = card.kind
  /\ cmd = "CMD17" => r.card = card /\ CardLba(arg) \in Lba
  /\ cmd = "ACMD41" /\ r.val # "busy" =>
       r.val = card.kind /\ (card.kind = "SDHC" => arg)
  /\ cmd = "CMD3" => r.val = 1
  /\ cmd = "ACMD6" => r.card.state = "tran" /\ r.card.width = arg

LEMMA RepliesAre ==
  ASSUME NEW cmd \in Cmds, NEW arg, CardOK, cmd = "ACMD6" => arg = 4,
         NEW r \in Replies(cmd, arg)
  PROVE  Reply(cmd, arg, r)
  <1>1. CASE cmd = "CMD0"
    BY <1>1 DEF Replies, Reply, CardOK, Cmds
  <1>2. CASE cmd = "CMD8"
    BY <1>2 DEF Replies, Reply, CardOK, Cmds, May
  <1>3. CASE cmd = "CMD55"
    BY <1>3 DEF Replies, Reply, CardOK, Cmds
  <1>4. CASE cmd = "ACMD41"
    <2> DEFINE To(state) == [card EXCEPT !.state = state]
    <2>1. \/ r = [card |-> card, val |-> "busy"]
          \/ /\ r = [card |-> To("ready"), val |-> card.kind]
             /\ card.kind = "SDHC" => arg
      BY <1>4, Zenon DEF Replies
    <2>2. /\ r.val = card.kind \/ r.val = "busy"
          /\ r.card = card \/ r.card = To("ready")
      BY <2>1
    <2>3. r = [card |-> card, val |-> "busy"] => r.val = "busy"
      OBVIOUS
    <2>4. r.val # "busy" /\ card.kind = "SDHC" => arg
      BY <2>1, <2>3, Zenon
    <2> QED BY <1>4, <2>2, <2>4 DEF Reply, CardOK
  <1>5. CASE cmd = "CMD2"
    BY <1>5 DEF Replies, Reply, CardOK, Cmds
  <1>6. CASE cmd = "CMD3"
    <2> DEFINE new == [card EXCEPT !.state = "stby"]
    <2>1. r = [card |-> [new EXCEPT !.rca = 1], val |-> 1] /\ card.state = "ident"
      BY <1>6, Zenon DEF Replies
    <2>2. /\ r.val = 1
          /\ r.card = [kind |-> card.kind, state |-> "stby", rca |-> 1,
                       width |-> card.width]
      BY <2>1 DEF CardOK
    <2> QED BY <1>6, <2>2 DEF Reply, CardOK
  <1>7. CASE cmd = "CMD7"
    BY <1>7 DEF Replies, Reply, CardOK, Cmds
  <1>8. CASE cmd = "ACMD6"
    BY <1>8 DEF Replies, Reply, CardOK, Cmds
  <1>9. CASE cmd = "CMD17"
    BY <1>9 DEF Replies, Reply, CardOK, Cmds
  <1> QED BY <1>1, <1>2, <1>3, <1>4, <1>5, <1>6, <1>7, <1>8, <1>9 DEF Cmds

\* Only a failed CMD0 or CMD8 lets sd_init() go on.
LEMMA FailsHow ==
  ASSUME DriverOK, CmdFails
  PROVE  \/ step = 1 /\ step' = 2 /\ at' = "inhibit" /\ sd_state' = sd_state
            /\ sd_ret' = sd_ret
         \/ step = 2 /\ step' = 3 /\ at' = "inhibit" /\ sd_ret' = sd_ret
            /\ sd_state' = [sd_state EXCEPT !.type = "SD1"]
         \/ step \notin {1, 2} /\ step' = step /\ at' = "returned"
            /\ sd_ret' = -1 /\ sd_state' = sd_state
  <1>1. step \in Int BY DEF DriverOK
  <1>2. CASE Script[step] = "CMD0"
    BY <1>1, <1>2, ScriptAt DEF CmdFails, Send
  <1>3. CASE Script[step] = "CMD8"
    BY <1>1, <1>3, ScriptAt DEF CmdFails, Send
  <1>4. CASE Script[step] \notin {"CMD0", "CMD8"}
    BY <1>1, <1>4, ScriptAt DEF CmdFails, SdReturn
  <1> QED BY <1>2, <1>3, <1>4

\* The block number that the driver sends comes back as it was.
LEMMA ByteAddress ==
  ASSUME NEW n \in Int, NEW d \in Nat \ {0}
  PROVE  (n * d) \div d = n
  OBVIOUS

-----------------------------------------------------------------------------
(* The steps of controller and card, one lemma each, then the driver's.    *)

LEMMA OneBlock ==
  ASSUME WireOK, transfer # <<>>
  PROVE  /\ transfer[1].block \in Lba \cup {Damaged}
         /\ transfer[1].in \in {"card", "fifo", "drained"}
         /\ transfer = <<[block |-> transfer[1].block, in |-> transfer[1].in]>>
         /\ Tail(transfer) = <<>>
         /\ \A x : [transfer EXCEPT ![1] = x] = <<x>>
         /\ [transfer EXCEPT ![1].in = "drained"] =
              <<[block |-> transfer[1].block, in |-> "drained"]>>
  <1>1. PICK b \in Lba \cup {Damaged}, i \in {"card", "fifo", "drained"} :
          transfer = <<[block |-> b, in |-> i]>>
    BY DEF WireOK
  <1>2. transfer[1].block = b /\ transfer[1].in = i
    BY <1>1
  <1>3. Tail(transfer) = <<>>
    BY <1>1
  <1>4. \A x : [transfer EXCEPT ![1] = x] = <<x>>
    BY <1>1
  <1>5. [transfer EXCEPT ![1].in = "drained"] =
          [transfer EXCEPT ![1] = [transfer[1] EXCEPT !.in = "drained"]]
    OBVIOUS
  <1>6. [transfer[1] EXCEPT !.in = "drained"] = [block |-> b, in |-> "drained"]
    BY <1>1
  <1> QED BY <1>1, <1>2, <1>3, <1>4, <1>5, <1>6

\* What a command that the card obeys changes on its side.
LEMMA ObeyedHow ==
  ASSUME EmmcInv, line # Nil, NEW r \in Replies(line.cmd, line.arg), Obeyed(r)
  PROVE  /\ Reply(line.cmd, line.arg, r) /\ card' = r.card
         /\ CardOK' /\ card'.kind = card.kind
         /\ line.cmd # "CMD17" => transfer' = transfer
         /\ line.cmd = "CMD17" =>
              /\ card' = card /\ transfer = <<>>
              /\ transfer' = <<[block |-> CardLba(line.arg), in |-> "card"]>>
              /\ CardLba(line.arg) \in Lba
  <1>1. Reply(line.cmd, line.arg, r)
    BY RepliesAre DEF EmmcInv, WireOK
  <1>2. card' = r.card
    BY DEF Obeyed
  <1>3. CardOK' /\ card'.kind = card.kind
    BY <1>1, <1>2 DEF CardOK, Reply
  <1>4. line.cmd # "CMD17" => transfer' = transfer
    BY DEF Obeyed
  <1>5. ASSUME line.cmd = "CMD17"
        PROVE  /\ card' = card /\ transfer = <<>> /\ CardLba(line.arg) \in Lba
               /\ transfer' = <<[block |-> CardLba(line.arg), in |-> "card"]>>
    <2>1. card' = card /\ CardLba(line.arg) \in Lba
      BY <1>1, <1>2, <1>5 DEF Reply
    <2>2. transfer = <<>>
      BY <1>5 DEF EmmcInv, WireOK
    <2>3. transfer' = Append(transfer, [block |-> CardLba(line.arg), in |-> "card"])
      BY <1>5 DEF Obeyed
    <2> QED BY <2>1, <2>2, <2>3
  <1> QED BY <1>1, <1>2, <1>3, <1>4, <1>5

LEMMA ObeyedOnTheWire ==
  ASSUME EmmcInv, line # Nil, NEW r \in Replies(line.cmd, line.arg), Obeyed(r)
  PROVE  \/ transfer' = <<>>
         \/ \E b \in Lba \cup {Damaged}, i \in {"card", "fifo", "drained"} :
              transfer' = <<[block |-> b, in |-> i]>>
  <1>1. CASE line.cmd = "CMD17"
    BY <1>1, ObeyedHow
  <1>2. CASE line.cmd # "CMD17"
    <2>1. transfer' = transfer
      BY <1>2, ObeyedHow
    <2> QED BY <2>1 DEF EmmcInv, WireOK
  <1> QED BY <1>1, <1>2

\* The card reads the block that the driver means.
LEMMA SameBlock ==
  ASSUME EmmcInv, at = "command", line # Nil, step = ReadStep
  PROVE  line.cmd = "CMD17" /\ CardLba(line.arg) = lba
  <1>1. line = [cmd |-> "CMD17", arg |-> BlockArg(sd_state.type, lba)]
    <2>1. Script[step] = "CMD17"
      BY ScriptIs DEF ReadStep
    <2>2. Arg = BlockArg(sd_state.type, lba)
      BY <2>1 DEF Arg
    <2> QED BY <2>1, <2>2 DEF EmmcInv, Sent
  <1>2. lba \in Int /\ ((sd_state.type = "SDHC") <=> (card.kind = "SDHC"))
    BY DEF EmmcInv, Staged, Serving, InitAgrees
  <1>3. (lba * BlockSize) \div BlockSize = lba
    BY <1>2, ByteAddress, EmmcAssumption
  <1> QED BY <1>1, <1>2, <1>3 DEF CardLba, BlockArg

LEMMA AnswerKeeps ==
  ASSUME EmmcInv, answer
  PROVE  EmmcInv'
  <1>1. PICK r \in Replies(line.cmd, line.arg) :
          Obeyed(r) /\ resp0' = [cmd |-> line.cmd, val |-> r.val]
    BY DEF answer
  <1>2. /\ line # Nil /\ clock # "off" /\ line' = Nil
        /\ irpt' = irpt \cup {"CMD_DONE"}
        /\ UNCHANGED <<clock, bus, sd_state, step, at, lba, buf, sd_ret>>
    BY DEF answer, drv_vars
  <1>3. CardOK' /\ WireOK' /\ DriverOK'
    BY <1>1, <1>2, ObeyedHow, ObeyedOnTheWire DEF EmmcInv, WireOK, DriverOK
  <1>4. Sent'
    BY <1>2 DEF Sent
  <1>5. Answered'
    <2>1. SUFFICES ASSUME at = "command"
                   PROVE  Answered'
      BY <1>2 DEF Answered
    <2>2. line.cmd = Script[step] /\ line.arg = Arg
      BY <1>2, <2>1 DEF EmmcInv, Sent
    <2>3. /\ resp0'.cmd = Script[step] /\ resp0'.val = r.val
          /\ Reply(line.cmd, line.arg, r) /\ card' = r.card
      BY <1>1, <1>2, <2>2, ObeyedHow
    <2>4. CASE step = 4
      <3>1. line.cmd = "ACMD41"
        BY <2>2, <2>4, ScriptIs
      <3>2. line.arg = (sd_state.type # "SD1")
        BY <2>2, <3>1 DEF Arg, HcsArg
      <3>3. r.val # "busy" => r.val = card.kind /\ (card.kind = "SDHC" => line.arg)
        BY <2>3, <3>1, Zenon DEF Reply
      <3>4. r.val # "busy" => r.val = card.kind /\ (card.kind = "SDHC" => sd_state.type # "SD1")
        BY <3>2, <3>3, Zenon
      <3> QED BY <1>2, <2>3, <2>4, <3>4 DEF Answered, Reply
    <2>5. CASE step # 4
      BY <1>2, <2>1, <2>2, <2>3, <2>5, ScriptIs
      DEF Answered, Reply, EmmcInv, WireOK, Staged, Sending, Serving, InitAgrees,
          ReadStep
    <2> QED BY <2>4, <2>5
  <1>6. ~sd_state.initialized => line.cmd # "CMD17"
    BY <1>2 DEF EmmcInv, Staged
  <1>7. Staged'
    BY <1>1, <1>2, <1>6, ObeyedHow DEF EmmcInv, Staged, Sending
  <1>8. Serving'
    BY <1>1, <1>2, ObeyedHow DEF EmmcInv, Serving, InitAgrees
  <1>9. Reading'
    <2>1. SUFFICES ASSUME "bad_end" \notin Faults
                   PROVE  Reading'
      BY DEF Reading
    <2>2. ASSUME at = "command", step = ReadStep
          PROVE  OnItsWay'
      BY <1>1, <1>2, <2>2, SameBlock, ObeyedHow DEF OnItsWay, EmmcInv, Sent
    <2>3. ASSUME at = "read_rdy", "ERROR" \notin irpt
          PROVE  OnItsWay'
      BY <1>1, <1>2, <2>1, <2>3, ObeyedHow DEF EmmcInv, Reading, OnItsWay
    <2> QED BY <1>2, <2>1, <2>2, <2>3 DEF EmmcInv, Reading
  <1>10. Untouched'
    BY <1>2 DEF EmmcInv, Untouched
  <1> QED BY <1>3, <1>4, <1>5, <1>7, <1>8, <1>9, <1>10 DEF EmmcInv

LEMMA NoAnswerKeeps ==
  ASSUME EmmcInv, no_answer
  PROVE  EmmcInv'
  <1>1. CardOK' /\ WireOK' /\ DriverOK'
    <2>1. /\ line # Nil /\ line' = Nil /\ UNCHANGED <<sd_state, step, at>>
          /\ resp0' = [resp0 EXCEPT !.cmd = IF line.cmd = "CMD0" THEN "CMD0" ELSE @]
      BY DEF no_answer, drv_vars
    <2>2. resp0' = [cmd |-> resp0'.cmd, val |-> resp0'.val]
      BY <2>1 DEF EmmcInv, WireOK
    <2>3. CASE UNCHANGED <<card, transfer>>
      BY <2>1, <2>2, <2>3 DEF EmmcInv, CardOK, WireOK, DriverOK
    <2>4. CASE \E r \in Replies(line.cmd, line.arg) : Obeyed(r)
      BY <2>1, <2>2, <2>4, ObeyedHow, ObeyedOnTheWire
      DEF EmmcInv, WireOK, DriverOK
    <2> QED BY <2>3, <2>4 DEF no_answer
  <1>2. Sent' /\ Answered'
    BY ScriptIs DEF EmmcInv, no_answer, drv_vars, Sent, Answered
  <1>3. Staged' /\ Serving'
    <2>1. /\ line # Nil /\ line' = Nil
          /\ UNCHANGED <<clock, bus, sd_state, step, at, lba>>
      BY DEF no_answer, drv_vars
    <2>2. card'.kind = card.kind
      BY <2>1, ObeyedHow DEF no_answer
    <2>3. line.cmd = "CMD17" => card' = card
      BY <2>1, ObeyedHow DEF no_answer
    <2>4. line.cmd # "CMD17" => transfer' = transfer
      BY <2>1, ObeyedHow DEF no_answer
    <2>5. Staged'
      BY <2>1, <2>2, <2>4 DEF EmmcInv, Staged, Sending
    <2>6. Serving'
      BY <2>1, <2>3 DEF EmmcInv, Serving, InitAgrees
    <2> QED BY <2>5, <2>6
  <1>4. Reading' /\ Untouched'
    BY DEF EmmcInv, no_answer, drv_vars, Reading, Untouched, Serving, Staged
  <1> QED BY <1>1, <1>2, <1>3, <1>4 DEF EmmcInv

LEMMA DeliverKeeps ==
  ASSUME EmmcInv, deliver
  PROVE  EmmcInv'
  <1>1. CardOK' /\ WireOK' /\ DriverOK'
    <2>1. PICK b \in {transfer[1].block} \cup May("bad_end", {Damaged}) :
            transfer' = [transfer EXCEPT ![1] = [block |-> b, in |-> "fifo"]]
      BY DEF deliver
    <2>2. transfer # <<>> /\ b \in Lba \cup {Damaged}
      BY <2>1, OneBlock DEF deliver, EmmcInv, May
    <2>3. transfer' = <<[block |-> b, in |-> "fifo"]>>
      BY <2>1, <2>2, OneBlock DEF EmmcInv
    <2>4. UNCHANGED <<card, line, resp0, sd_state, step, at>>
      BY DEF deliver, drv_vars
    <2>5. ~(line # Nil /\ line.cmd = "CMD17")
      BY <2>2 DEF EmmcInv, WireOK
    <2> QED BY <2>2, <2>3, <2>4, <2>5 DEF EmmcInv, CardOK, WireOK, DriverOK
  <1>2. Sent' /\ Answered'
    BY DEF EmmcInv, deliver, drv_vars, Sent, Answered
  <1>3. Staged' /\ Serving'
    BY DEF EmmcInv, deliver, drv_vars, Staged, Serving, InitAgrees
  <1>4. Reading' /\ Untouched'
    BY DEF EmmcInv, deliver, May, drv_vars, Reading, Untouched, OnItsWay
  <1> QED BY <1>1, <1>2, <1>3, <1>4 DEF EmmcInv

LEMMA DataErrorKeeps ==
  ASSUME EmmcInv, data_error
  PROVE  EmmcInv'
  <1>1. CardOK' /\ WireOK' /\ DriverOK'
    BY OneBlock DEF EmmcInv, data_error, drv_vars, CardOK, WireOK, DriverOK
  <1>2. Sent' /\ Answered'
    BY DEF EmmcInv, data_error, drv_vars, Sent, Answered
  <1>3. Staged' /\ Serving'
    BY DEF EmmcInv, data_error, drv_vars, Staged, Serving, InitAgrees
  <1>4. Reading' /\ Untouched'
    BY DEF EmmcInv, data_error, drv_vars, Reading, Untouched
  <1> QED BY <1>1, <1>2, <1>3, <1>4 DEF EmmcInv

LEMMA EndOfTransferKeeps ==
  ASSUME EmmcInv, end_of_transfer
  PROVE  EmmcInv'
  <1>1. CardOK' /\ WireOK' /\ DriverOK'
    BY OneBlock DEF EmmcInv, end_of_transfer, drv_vars, CardOK, WireOK, DriverOK
  <1>2. Sent' /\ Answered'
    BY DEF EmmcInv, end_of_transfer, drv_vars, Sent, Answered
  <1>3. Staged' /\ Serving'
    BY DEF EmmcInv, end_of_transfer, drv_vars, Staged, Serving, InitAgrees
  <1>4. Reading' /\ Untouched'
    BY DEF EmmcInv, end_of_transfer, drv_vars, Reading, Untouched, OnItsWay
  <1> QED BY <1>1, <1>2, <1>3, <1>4 DEF EmmcInv

LEMMA IssueKeeps ==
  ASSUME EmmcInv, send_cmd_issue
  PROVE  EmmcInv'
  <1>1. CardOK' /\ WireOK' /\ DriverOK'
    <2>1. /\ line' = [cmd |-> Script[step], arg |-> Arg] /\ transfer' = transfer
          /\ card' = card /\ resp0' = resp0 /\ sd_state' = sd_state /\ step' = step
          /\ at' = "command"
      BY DEF send_cmd_issue
    <2>2. line'.cmd \in Cmds /\ (line'.cmd = "ACMD6" => line'.arg = 4)
      BY <2>1, ScriptAt DEF EmmcInv, Arg
    <2>3. line'.cmd = "CMD17" => transfer = <<>>
      BY <2>1 DEF send_cmd_issue, Inhibited, DatInhibit
    <2> QED BY <2>1, <2>2, <2>3 DEF EmmcInv, CardOK, WireOK, DriverOK
  <1>2. Sent' /\ Answered'
    <2>1. /\ line' = [cmd |-> Script[step], arg |-> Arg]
          /\ irpt' = {} /\ transfer' = transfer /\ at = "inhibit"
      BY DEF send_cmd_issue, FlagsCleared
    <2>2. Arg' = Arg /\ step' = step
      BY DEF send_cmd_issue, Arg, HcsArg
    <2>3. transfer = <<>>
      <3>1. CASE step = ReadStep
        BY <3>1, ScriptIs DEF send_cmd_issue, Inhibited, DatInhibit, ReadStep
      <3>2. CASE step # ReadStep
        BY <2>1, <3>2 DEF EmmcInv, Staged, Serving
      <3> QED BY <3>1, <3>2
    <2> QED BY <2>1, <2>2, <2>3 DEF Sent, Answered
  <1>3. Staged' /\ Serving'
    BY ScriptIs DEF EmmcInv, send_cmd_issue, Staged, Serving, Sending, DriverOK,
       InitAgrees, ReadStep
  <1>4. Reading' /\ Untouched'
    BY DEF EmmcInv, send_cmd_issue, FlagsCleared, Reading, Untouched
  <1> QED BY <1>1, <1>2, <1>3, <1>4 DEF EmmcInv

LEMMA InhibitedKeeps ==
  ASSUME EmmcInv, send_cmd_inhibited
  PROVE  EmmcInv'
  <1>1. CardOK' /\ WireOK' /\ DriverOK'
    BY FailsHow DEF EmmcInv, send_cmd_inhibited, hw_vars, CardOK, WireOK, DriverOK
  <1>2. Sent' /\ Answered'
    BY FailsHow DEF EmmcInv, send_cmd_inhibited, Sent, Answered
  <1>3. Staged' /\ Serving'
    BY FailsHow DEF EmmcInv, send_cmd_inhibited, hw_vars, Staged, Serving, Sending,
       DriverOK, InitAgrees, ReadStep
  <1>4. Reading' /\ Untouched'
    BY FailsHow DEF EmmcInv, send_cmd_inhibited, Reading, Untouched
  <1> QED BY <1>1, <1>2, <1>3, <1>4 DEF EmmcInv

LEMMA TimeoutKeeps ==
  ASSUME EmmcInv, send_cmd_timeout
  PROVE  EmmcInv'
  <1>1. CardOK' /\ WireOK' /\ DriverOK'
    BY FailsHow DEF EmmcInv, send_cmd_timeout, hw_vars, CardOK, WireOK, DriverOK
  <1>2. Sent' /\ Answered'
    BY FailsHow DEF EmmcInv, send_cmd_timeout, Sent, Answered
  <1>3. Staged' /\ Serving'
    BY FailsHow DEF EmmcInv, send_cmd_timeout, hw_vars, Staged, Serving, Sending,
       DriverOK, InitAgrees, ReadStep
  <1>4. Reading' /\ Untouched'
    BY FailsHow DEF EmmcInv, send_cmd_timeout, Reading, Untouched
  <1> QED BY <1>1, <1>2, <1>3, <1>4 DEF EmmcInv

LEMMA ErrorKeeps ==
  ASSUME EmmcInv, send_cmd_error
  PROVE  EmmcInv'
  <1>1. CardOK' /\ WireOK' /\ DriverOK'
    BY FailsHow DEF EmmcInv, send_cmd_error, CardOK, WireOK, DriverOK
  <1>2. Sent' /\ Answered'
    BY FailsHow DEF EmmcInv, send_cmd_error, Sent, Answered
  <1>3. Staged' /\ Serving'
    BY FailsHow DEF EmmcInv, send_cmd_error, Staged, Serving, Sending, DriverOK,
       InitAgrees, ReadStep
  <1>4. Reading' /\ Untouched'
    BY FailsHow DEF EmmcInv, send_cmd_error, Reading, Untouched
  <1> QED BY <1>1, <1>2, <1>3, <1>4 DEF EmmcInv

LEMMA SdInitKeeps ==
  ASSUME EmmcInv, sd_init
  PROVE  EmmcInv'
  <1>1. CardOK' /\ WireOK' /\ DriverOK'
    BY DEF EmmcInv, sd_init, SdReturn, Send, CardOK, WireOK, DriverOK
  <1>2. Sent' /\ Answered'
    BY DEF EmmcInv, sd_init, SdReturn, Send, Sent, Answered
  <1>3. Staged' /\ Serving'
    BY DEF EmmcInv, sd_init, SdReturn, Send, Staged, Serving, Sending, ReadStep
  <1>4. Reading' /\ Untouched'
    BY DEF EmmcInv, sd_init, SdReturn, Send, Reading, Untouched
  <1> QED BY <1>1, <1>2, <1>3, <1>4 DEF EmmcInv

LEMMA PlainKeeps ==
  ASSUME EmmcInv, init_plain
  PROVE  EmmcInv'
  <1>1. CardOK' /\ WireOK' /\ DriverOK'
    BY ScriptIs DEF EmmcInv, init_plain, Succeeded, Send, CardOK, WireOK, DriverOK
  <1>2. Sent' /\ Answered'
    BY DEF EmmcInv, init_plain, Succeeded, Acknowledge, Sent, Answered
  <1>3. Staged' /\ Serving'
    BY ScriptIs DEF EmmcInv, init_plain, Succeeded, Send, Staged, Serving, Sending,
       Answered, DriverOK, ReadStep
  <1>4. Reading' /\ Untouched'
    BY DEF EmmcInv, init_plain, Succeeded, Send, Reading, Untouched
  <1> QED BY <1>1, <1>2, <1>3, <1>4 DEF EmmcInv

LEMMA CMD8Keeps ==
  ASSUME EmmcInv, init_CMD8
  PROVE  EmmcInv'
  <1>1. CardOK' /\ WireOK' /\ DriverOK'
    BY ScriptIs DEF EmmcInv, init_CMD8, Succeeded, Send, SdReturn, CardOK, WireOK,
       DriverOK
  <1>2. Sent' /\ Answered'
    BY DEF EmmcInv, init_CMD8, Succeeded, Acknowledge, Sent, Answered
  <1>3. Staged' /\ Serving'
    BY ScriptIs DEF EmmcInv, init_CMD8, Succeeded, Send, SdReturn, Staged, Serving,
       DriverOK, ReadStep
  <1>4. Reading' /\ Untouched'
    BY DEF EmmcInv, init_CMD8, Succeeded, Send, SdReturn, Reading, Untouched
  <1> QED BY <1>1, <1>2, <1>3, <1>4 DEF EmmcInv

LEMMA ACMD41Keeps ==
  ASSUME EmmcInv, init_ACMD41
  PROVE  EmmcInv'
  <1>1. CardOK' /\ WireOK' /\ DriverOK'
    BY ScriptIs DEF EmmcInv, init_ACMD41, Succeeded, Send, SdReturn, CardOK, WireOK,
       DriverOK
  <1>2. Sent' /\ Answered'
    BY DEF EmmcInv, init_ACMD41, Succeeded, Acknowledge, Sent, Answered
  <1>3. Staged' /\ Serving'
    BY ScriptIs DEF EmmcInv, init_ACMD41, Succeeded, Send, SdReturn, Staged, Serving,
       Sending, Answered, DriverOK, ReadStep
  <1>4. Reading' /\ Untouched'
    BY DEF EmmcInv, init_ACMD41, Succeeded, Send, SdReturn, Reading, Untouched
  <1> QED BY <1>1, <1>2, <1>3, <1>4 DEF EmmcInv

LEMMA CMD3Keeps ==
  ASSUME EmmcInv, init_CMD3
  PROVE  EmmcInv'
  <1>1. CardOK' /\ WireOK' /\ DriverOK'
    BY ScriptIs DEF EmmcInv, init_CMD3, Succeeded, Acknowledge, Send, Answered,
      CardOK, WireOK, DriverOK, Cmds, Damaged
  <1>2. Sent' /\ Answered'
    BY DEF EmmcInv, init_CMD3, Succeeded, Acknowledge, Sent, Answered
  <1>3. Staged' /\ Serving'
    BY ScriptIs DEF EmmcInv, init_CMD3, Succeeded, Send, Staged, Serving, Sending,
       Answered, DriverOK, ReadStep
  <1>4. Reading' /\ Untouched'
    BY DEF EmmcInv, init_CMD3, Succeeded, Send, Reading, Untouched
  <1> QED BY <1>1, <1>2, <1>3, <1>4 DEF EmmcInv

LEMMA CMD7Keeps ==
  ASSUME EmmcInv, init_CMD7
  PROVE  EmmcInv'
  <1>1. CardOK' /\ WireOK' /\ DriverOK'
    BY ScriptIs DEF EmmcInv, init_CMD7, Succeeded, Send, CardOK, WireOK, DriverOK
  <1>2. Sent' /\ Answered'
    BY DEF EmmcInv, init_CMD7, Succeeded, Acknowledge, Sent, Answered
  <1>3. Staged' /\ Serving'
    BY ScriptIs DEF EmmcInv, init_CMD7, Succeeded, Send, set_clock, May, Staged,
       Serving, Sending, DriverOK, ReadStep
  <1>4. Reading' /\ Untouched'
    BY DEF EmmcInv, init_CMD7, Succeeded, Send, Reading, Untouched
  <1> QED BY <1>1, <1>2, <1>3, <1>4 DEF EmmcInv

LEMMA ACMD6Keeps ==
  ASSUME EmmcInv, init_ACMD6
  PROVE  EmmcInv'
  <1>1. CardOK' /\ WireOK' /\ DriverOK'
    <2>1. /\ UNCHANGED <<card, line, transfer, resp0, step>> /\ at' = "returned"
          /\ sd_state' = [sd_state EXCEPT !.initialized = TRUE]
      BY DEF init_ACMD6, Succeeded, SdReturn
    <2>2. sd_state' = [type |-> sd_state.type, rca |-> sd_state.rca,
                       initialized |-> TRUE]
      BY <2>1 DEF EmmcInv, DriverOK
    <2> QED BY <2>1, <2>2 DEF EmmcInv, CardOK, WireOK, DriverOK
  <1>2. Sent' /\ Answered'
    BY DEF EmmcInv, init_ACMD6, Succeeded, Acknowledge, Sent, Answered
  <1>3. Staged' /\ Serving'
    BY ScriptIs DEF EmmcInv, init_ACMD6, Succeeded, SdReturn, Staged, Serving,
       Sending, Answered, DriverOK, CardOK, InitAgrees
  <1>4. Reading' /\ Untouched'
    BY ScriptIs DEF EmmcInv, init_ACMD6, Succeeded, SdReturn, Reading, Untouched,
       ReadStep
  <1> QED BY <1>1, <1>2, <1>3, <1>4 DEF EmmcInv

LEMMA ReadDatKeeps ==
  ASSUME EmmcInv, read_dat
  PROVE  EmmcInv'
  <1>1. CardOK' /\ WireOK' /\ DriverOK'
    BY DEF EmmcInv, read_dat, Send, SdReturn, ReadStep, hw_vars, CardOK, WireOK,
       DriverOK
  <1>2. Sent' /\ Answered'
    BY DEF EmmcInv, read_dat, Send, SdReturn, Sent, Answered
  <1>3. Staged' /\ Serving'
    BY DEF EmmcInv, read_dat, Send, SdReturn, hw_vars, Staged, Serving, InitAgrees
  <1>4. Reading' /\ Untouched'
    BY DEF EmmcInv, read_dat, Send, SdReturn, Reading, Untouched
  <1> QED BY <1>1, <1>2, <1>3, <1>4 DEF EmmcInv

LEMMA CMD17Keeps ==
  ASSUME EmmcInv, read_CMD17
  PROVE  EmmcInv'
  <1>1. CardOK' /\ WireOK' /\ DriverOK'
    BY DEF EmmcInv, read_CMD17, Succeeded, CardOK, WireOK, DriverOK
  <1>2. Sent' /\ Answered'
    BY DEF EmmcInv, read_CMD17, Sent, Answered
  <1>3. Staged' /\ Serving'
    BY ScriptIs DEF EmmcInv, read_CMD17, Succeeded, Staged, Serving, DriverOK,
       InitAgrees, ReadStep
  <1>4. Reading' /\ Untouched'
    BY ScriptIs DEF EmmcInv, read_CMD17, Succeeded, Acknowledge, Reading, Untouched,
       OnItsWay, DriverOK, ReadStep
  <1> QED BY <1>1, <1>2, <1>3, <1>4 DEF EmmcInv

LEMMA DrainKeeps ==
  ASSUME EmmcInv, read_drain
  PROVE  EmmcInv'
  <1>1. CardOK' /\ WireOK' /\ DriverOK'
    BY OneBlock DEF EmmcInv, read_drain, CardOK, WireOK, DriverOK
  <1>2. Sent' /\ Answered'
    BY DEF EmmcInv, read_drain, Sent, Answered
  <1>3. Staged' /\ Serving'
    BY DEF EmmcInv, read_drain, Staged, Serving, InitAgrees
  <1>4. Reading' /\ Untouched'
    BY DEF EmmcInv, read_drain, Reading, Untouched, OnItsWay
  <1> QED BY <1>1, <1>2, <1>3, <1>4 DEF EmmcInv

LEMMA ReadErrorKeeps ==
  ASSUME EmmcInv, read_error
  PROVE  EmmcInv'
  <1>1. CardOK' /\ WireOK' /\ DriverOK'
    BY DEF EmmcInv, read_error, SdReturn, CardOK, WireOK, DriverOK
  <1>2. Sent' /\ Answered'
    BY DEF EmmcInv, read_error, SdReturn, Sent, Answered
  <1>3. Staged' /\ Serving'
    BY DEF EmmcInv, read_error, SdReturn, Staged, Serving, InitAgrees
  <1>4. Reading' /\ Untouched'
    BY DEF EmmcInv, read_error, SdReturn, Reading, Untouched
  <1> QED BY <1>1, <1>2, <1>3, <1>4 DEF EmmcInv

LEMMA ReadEndKeeps ==
  ASSUME EmmcInv, read_end
  PROVE  EmmcInv'
  <1>1. CardOK' /\ WireOK' /\ DriverOK'
    BY DEF EmmcInv, read_end, SdReturn, CardOK, WireOK, DriverOK
  <1>2. Sent' /\ Answered'
    BY DEF EmmcInv, read_end, SdReturn, Sent, Answered
  <1>3. Staged' /\ Serving'
    BY DEF EmmcInv, read_end, SdReturn, Staged, Serving, InitAgrees
  <1>4. Reading' /\ Untouched'
    BY DEF EmmcInv, read_end, SdReturn, Reading, Untouched
  <1> QED BY <1>1, <1>2, <1>3, <1>4 DEF EmmcInv

LEMMA ReadTimeoutKeeps ==
  ASSUME EmmcInv, read_timeout
  PROVE  EmmcInv'
  <1>1. CardOK' /\ WireOK' /\ DriverOK'
    BY DEF EmmcInv, read_timeout, SdReturn, hw_vars, CardOK, WireOK, DriverOK
  <1>2. Sent' /\ Answered'
    BY DEF EmmcInv, read_timeout, SdReturn, Sent, Answered
  <1>3. Staged' /\ Serving'
    BY DEF EmmcInv, read_timeout, SdReturn, hw_vars, Staged, Serving, InitAgrees
  <1>4. Reading' /\ Untouched'
    BY DEF EmmcInv, read_timeout, SdReturn, Reading, Untouched
  <1> QED BY <1>1, <1>2, <1>3, <1>4 DEF EmmcInv

LEMMA TakenKeeps ==
  ASSUME EmmcInv, taken
  PROVE  EmmcInv'
  <1>1. CardOK' /\ WireOK' /\ DriverOK'
    BY DEF EmmcInv, taken, hw_vars, CardOK, WireOK, DriverOK
  <1>2. Sent' /\ Answered'
    BY DEF EmmcInv, taken, Sent, Answered
  <1>3. Staged' /\ Serving'
    BY DEF EmmcInv, taken, hw_vars, Staged, Serving, Sending, InitAgrees
  <1>4. Reading' /\ Untouched'
    BY DEF EmmcInv, taken, Reading, Untouched
  <1> QED BY <1>1, <1>2, <1>3, <1>4 DEF EmmcInv

LEMMA ReadBlockKeeps ==
  ASSUME EmmcInv, NEW n \in Int, sd_read_block(n)
  PROVE  EmmcInv'
  <1>1. CardOK' /\ WireOK' /\ DriverOK'
    BY DEF EmmcInv, sd_read_block, SdReturn, hw_vars, CardOK, WireOK, DriverOK
  <1>2. Sent' /\ Answered'
    BY DEF EmmcInv, sd_read_block, SdReturn, Sent, Answered
  <1>3. Staged' /\ Serving'
    BY DEF EmmcInv, sd_read_block, SdReturn, hw_vars, Staged, Serving, Sending,
      InitAgrees
  <1>4. Reading' /\ Untouched'
    BY DEF EmmcInv, sd_read_block, SdReturn, hw_vars, Reading, Untouched
  <1> QED BY <1>1, <1>2, <1>3, <1>4 DEF EmmcInv

LEMMA EmmcInvInit == EmmcInit => EmmcInv
  <1> SUFFICES ASSUME EmmcInit
               PROVE  EmmcInv
    OBVIOUS
  <1>1. CardOK /\ WireOK /\ DriverOK
    <2>1. card.kind \in {"SD1", "SD2", "SDHC"} /\ CardOK
      BY EmmcAssumption DEF EmmcInit, CardOK
    <2>2. WireOK /\ DriverOK
      BY DEF EmmcInit, WireOK, DriverOK
    <2> QED BY <2>1, <2>2
  <1>2. Sent /\ Answered /\ Staged /\ Serving
    BY DEF EmmcInit, Sent, Answered, Staged, Serving, Sending, ReadStep
  <1>3. Reading /\ Untouched
    BY DEF EmmcInit, Reading, Untouched
  <1> QED BY <1>1, <1>2, <1>3 DEF EmmcInv

\* A read may be asked for with any number: a chain that is cut short by an
\* error leads before the first block of the data area.
EmmcStep ==
  Hardware \/ Driver \/ taken \/ (\E n \in Int : sd_read_block(n))

LEMMA EmmcStepKeeps == EmmcInv /\ (EmmcStep \/ UNCHANGED emmc_vars) => EmmcInv'
  <1> SUFFICES ASSUME EmmcInv, EmmcStep \/ UNCHANGED emmc_vars
               PROVE  EmmcInv'
    OBVIOUS
  <1>1. CASE Hardware
    BY <1>1, AnswerKeeps, NoAnswerKeeps, DeliverKeeps, DataErrorKeeps,
      EndOfTransferKeeps DEF Hardware
  <1>2. CASE SendCmd
    BY <1>2, IssueKeeps, InhibitedKeeps, TimeoutKeeps, ErrorKeeps DEF SendCmd
  <1>3. CASE Initialise
    BY <1>3, SdInitKeeps, PlainKeeps, CMD8Keeps, ACMD41Keeps, CMD3Keeps, CMD7Keeps,
      ACMD6Keeps DEF Initialise
  <1>4. CASE Read
    BY <1>4, ReadDatKeeps, CMD17Keeps, DrainKeeps, ReadErrorKeeps, ReadTimeoutKeeps,
      ReadEndKeeps DEF Read
  <1>5. CASE taken
    BY <1>5, TakenKeeps
  <1>6. CASE \E n \in Int : sd_read_block(n)
    BY <1>6, ReadBlockKeeps
  <1>7. CASE UNCHANGED emmc_vars
    <2> USE <1>7 DEF emmc_vars, hw_vars, drv_vars
    <2>1. Arg' = Arg
      BY DEF Arg, HcsArg, BlockArg
    <2>2. CardOK' /\ WireOK' /\ DriverOK'
      BY DEF EmmcInv, CardOK, WireOK, DriverOK
    <2>3. Sent' /\ Answered'
      BY <2>1 DEF EmmcInv, Sent, Answered
    <2>4. Staged' /\ Serving'
      BY DEF EmmcInv, Staged, Serving, Sending, InitAgrees
    <2>5. Reading' /\ Untouched'
      BY DEF EmmcInv, Reading, Untouched, OnItsWay
    <2> QED BY <2>2, <2>3, <2>4, <2>5 DEF EmmcInv
  <1> QED BY <1>1, <1>2, <1>3, <1>4, <1>5, <1>6, <1>7 DEF EmmcStep, Driver

-----------------------------------------------------------------------------
(* The reader: what it asks the driver for is a number, and every step of  *)
(* the two together is a step of the driver's or leaves it alone.          *)

FatOK ==
  /\ vol \in {None, Mounted}
  /\ op \in {"none", "mount", "read", "walk"}
  /\ op \in {"read", "walk"} => vol = Mounted
  /\ cluster \in Int /\ s \in Int
  /\ \A n \in DOMAIN fat : fat[n] \in Int

LEMMA NumbersOfTheVolume ==
  /\ FatSize \in Nat /\ FirstFat \in Nat /\ FirstData \in Nat
  /\ FatSize >= 1
  /\ Mounted = [fat_start_lba |-> FirstFat, data_start_lba |-> FirstData]
  <1>1. MaxCluster \in Nat /\ EntriesPerSector \in Nat \ {0}
    BY Fat32Assumption
  <1>2. MaxCluster \div EntriesPerSector \in Nat
    BY <1>1
  <1>3. FatSize \in Nat /\ FatSize >= 1
    BY <1>2 DEF FatSize
  <1>4. FirstFat \in Nat
    BY Fat32Assumption DEF FirstFat
  <1>5. NumFats * FatSize \in Nat
    BY <1>3, Fat32Assumption
  <1>6. FirstData \in Nat
    BY <1>4, <1>5 DEF FirstData
  <1> QED BY <1>3, <1>4, <1>6 DEF Mounted, DataAfterFats, FirstFat, FirstData

LEMMA WantedIsANumber ==
  ASSUME FatOK, op # "none", Wanted # None
  PROVE  Wanted \in Int
  <1>1. CASE op = "mount"
    <2>1. FirstLba \in Int
      BY Fat32Assumption
    <2>2. Wanted = IF s = 0 THEN 0 ELSE FirstLba
      BY <1>1 DEF Wanted, InCluster
    <2> QED BY <2>1, <2>2 DEF FatOK
  <1>2. CASE op # "mount"
    <2>1. vol = Mounted /\ cluster \in Int /\ s \in Int
      BY <1>2 DEF FatOK
    <2>2. vol.fat_start_lba \in Int /\ vol.data_start_lba \in Int
      BY <2>1, NumbersOfTheVolume
    <2>3. cluster_to_lba(cluster) + s \in Int
      BY <2>1, <2>2, Fat32Assumption DEF cluster_to_lba
    <2>4. FatLba(cluster) \in Int
      BY <2>1, <2>2, Fat32Assumption DEF FatLba
    <2> QED BY <1>2, <2>3, <2>4 DEF Wanted
  <1> QED BY <1>1, <1>2

LEMMA EntryIsANumber ==
  ASSUME FatOK, NEW o, NEW c
  PROVE  NextCluster(o, c) \in Int
  BY DEF NextCluster, EntryIn, FatOK

LEMMA FatOKStep ==
  FatOK /\ (NewCall \/ (\E o : ReadingStep(o)) \/ finish \/ UNCHANGED fat_vars) => FatOK'
  <1> SUFFICES ASSUME FatOK,
                      NewCall \/ (\E o : ReadingStep(o)) \/ finish \/ UNCHANGED fat_vars
               PROVE  FatOK'
    OBVIOUS
  <1>1. Mounted' = Mounted
    BY DEF Mounted, DataAfterFats, FatSize
  <1>2. CASE NewCall
    <2>1. PICK o \in {"mount", "read", "walk"}, c \in Int, n \in Nat :
            Call(o, c, n) /\ (o = "mount" \/ vol # None)
      BY <1>2, Fat32Assumption DEF NewCall, Heads, Cluster
    <2> QED BY <1>1, <2>1 DEF Call, FatOK, disk_vars
  <1>3. ASSUME NEW o, mount_mbr(o) \/ mount_vbr(o)
        PROVE  FatOK'
    <2>1. /\ UNCHANGED <<fat, cluster>>
          /\ op = "mount" /\ op' \in {op, "none"}
          /\ s' = s \/ s' = 1
      <3>1. CASE mount_mbr(o)
        BY <3>1, Zenon DEF mount_mbr, Return, disk_vars
      <3>2. CASE mount_vbr(o)
        BY <3>2, Zenon DEF mount_vbr, Return, disk_vars
      <3> QED BY <1>3, <3>1, <3>2
    <2>2. vol' \in {vol, Mounted}
      BY <1>3, Zenon DEF mount_mbr, mount_vbr, Return
    <2> QED BY <1>1, <2>1, <2>2 DEF FatOK
  <1>4. ASSUME NEW o, fat32_read_sector(o) \/ walk_sector(o)
        PROVE  FatOK'
    <2>1. /\ UNCHANGED <<fat, vol, cluster>>
          /\ op' \in {op, "none"}
          /\ s' \in {s, s + 1}
      BY <1>4 DEF fat32_read_sector, walk_sector, Return, disk_vars
    <2> QED BY <1>1, <2>1 DEF FatOK
  <1>5. ASSUME NEW o, follow_chain(o)
        PROVE  FatOK'
    BY <1>1, <1>5, EntryIsANumber DEF follow_chain, FatOK, disk_vars
  <1>6. CASE finish
    BY <1>1, <1>6 DEF finish, Return, FatOK, disk_vars
  <1>7. CASE UNCHANGED fat_vars
    BY <1>1, <1>7 DEF fat_vars, FatOK, disk_vars
  <1> QED BY <1>2, <1>3, <1>4, <1>5, <1>6, <1>7 DEF ReadingStep

LEMMA StorageSteps ==
  ASSUME FatOK, [StorageNext]_vars
  PROVE  /\ EmmcStep \/ UNCHANGED emmc_vars
         /\ NewCall \/ (\E o : ReadingStep(o)) \/ finish \/ UNCHANGED fat_vars
  <1>1. CASE call
    BY <1>1 DEF call
  <1>2. CASE (Driver \/ Hardware) /\ UNCHANGED fat_vars
    BY <1>2 DEF EmmcStep
  <1>3. CASE boot_returns
    BY <1>3 DEF boot_returns, EmmcStep
  <1>4. CASE blkdev_read
    BY <1>4, WantedIsANumber DEF blkdev_read, EmmcStep
  <1>5. CASE goes_on
    BY <1>5 DEF goes_on, EmmcStep
  <1>6. CASE no_read
    BY <1>6 DEF no_read, ReadingStep
  <1>7. CASE UNCHANGED vars
    BY <1>7 DEF vars
  <1> QED BY <1>1, <1>2, <1>3, <1>4, <1>5, <1>6, <1>7 DEF StorageNext, Works

LEMMA DriverInvariant == Spec => [](FatOK /\ EmmcInv)
  <1>1. StorageInit => FatOK /\ EmmcInv
    <2> SUFFICES ASSUME StorageInit
                 PROVE  FatOK /\ EmmcInv
      OBVIOUS
    <2>1. EmmcInv
      BY EmmcInvInit DEF StorageInit
    <2>2. /\ vol = None /\ op = "none" /\ cluster = 0 /\ s = 0
          /\ fat \in Volume \/ fat = <<>>
      BY Zenon DEF StorageInit, FatInit
    <2>3. \A n \in DOMAIN fat : fat[n] \in Int
      <3>1. CASE fat = <<>>
        BY <3>1
      <3>2. CASE fat \in Volume
        <4>1. fat \in [0..MaxCluster -> {0, EOC} \cup Cluster]
          BY <3>2, Zenon DEF Volume
        <4>2. {0, EOC} \cup Cluster \subseteq Int
          BY Fat32Assumption DEF EOC, Cluster
        <4> QED BY <4>1, <4>2
      <3> QED BY <2>2, <3>1, <3>2
    <2> QED BY <2>1, <2>2, <2>3 DEF FatOK
  <1>2. FatOK /\ EmmcInv /\ [StorageNext]_vars => (FatOK /\ EmmcInv)'
    BY StorageSteps, FatOKStep, EmmcStepKeeps
  <1> QED BY <1>1, <1>2, PTL DEF Spec

\* When sd_init() has succeeded, driver, controller and card agree, for every
\* card and whatever was lost, late or wrong on the way.
THEOREM CardAgrees == Spec => []InitAgrees
  <1>1. EmmcInv => InitAgrees
    BY DEF EmmcInv, Serving, InitAgrees
  <1> QED BY <1>1, DriverInvariant, PTL

\* The answer that emmc_send_cmd() reads from RESP0 is that of its command, also
\* after commands that it gave up.
THEOREM OwnAnswer == Spec => []AnswersItsCommand
  <1>1. EmmcInv => AnswersItsCommand
    BY DEF EmmcInv, Answered, AnswersItsCommand
  <1> QED BY <1>1, DriverInvariant, PTL

\* A read that succeeds has read its block, unless a transfer ends in an error
\* after damaged data, which sd_read_block() does not look at.
THEOREM RightBlock ==
  ASSUME "bad_end" \notin Faults
  PROVE  Spec => []ReadsTheBlock
  <1>1. EmmcInv => ReadsTheBlock
    BY DEF EmmcInv, Reading, ReadsTheBlock
  <1> QED BY <1>1, DriverInvariant, PTL

-----------------------------------------------------------------------------
(* The cache.                                                              *)

LEMMA NotLate ==
  ASSUME EmmcInv, taken, "slow_end" \notin Faults
  PROVE  Outcome \in {"ok", "early"}
  <1>1. sd_ret = 0 \/ buf = Nil
    BY DEF EmmcInv, Untouched, taken
  <1> QED BY <1>1 DEF Outcome

\* A read that fails has left the buffer alone, and the name with it.
LEMMA CacheKept ==
  ASSUME CacheCoherent, NEW o \in {"ok", "early"}, ReadingStep(o)
  PROVE  CacheCoherent'
  <1>1. CASE mount_mbr(o) \/ mount_vbr(o)
    <2>1. UNCHANGED cache_vars
      BY <1>1, Zenon DEF mount_mbr, mount_vbr, Return
    <2> QED BY <2>1 DEF CacheCoherent, cache_vars
  <1>2. CASE fat32_read_sector(o) \/ walk_sector(o)
    <2>1. UNCHANGED cache_vars
      BY <1>2, Zenon DEF fat32_read_sector, walk_sector, Return
    <2> QED BY <2>1 DEF CacheCoherent, cache_vars
  <1>3. CASE follow_chain(o)
    BY <1>3 DEF follow_chain, CacheCoherent, BufferAfter, TagAfter, Hit, Fills,
       Succeeds
  <1> QED BY <1>1, <1>2, <1>3 DEF ReadingStep

LEMMA CacheStep ==
  ASSUME FatOK, EmmcInv, CacheCoherent, "slow_end" \notin Faults, [StorageNext]_vars
  PROVE  CacheCoherent'
  <1>1. CASE UNCHANGED cache_vars
    BY <1>1 DEF CacheCoherent, cache_vars
  <1>2. CASE goes_on
    BY <1>2, NotLate, CacheKept DEF goes_on
  <1>3. CASE no_read
    <2>1. follow_chain("ok") => ReadingStep("ok")
      BY DEF ReadingStep
    <2>2. finish => UNCHANGED cache_vars
      BY DEF finish, Return
    <2> QED BY <1>1, <1>3, <2>1, <2>2, CacheKept DEF no_read
  <1>4. CASE UNCHANGED fat_vars
    BY <1>1, <1>4 DEF fat_vars
  <1>5. CASE call
    <2>1. UNCHANGED cache_vars
      BY <1>5 DEF call, NewCall, Call
    <2> QED BY <1>1, <2>1
  <1> QED BY <1>2, <1>3, <1>4, <1>5
      DEF StorageNext, Works, boot_returns, blkdev_read, vars

\* fat_cache holds the sector that fat_cache_lba names, if no read gives up
\* waiting for the end of a transfer after it has filled the buffer.
THEOREM CacheNamed ==
  ASSUME "slow_end" \notin Faults
  PROVE  Spec => []CacheCoherent
  <1>1. StorageInit => CacheCoherent
    BY Zenon DEF StorageInit, FatInit, CacheCoherent
  <1>2. CacheCoherent /\ (FatOK /\ EmmcInv) /\ [StorageNext]_vars => CacheCoherent'
    BY CacheStep
  <1> QED BY <1>1, <1>2, DriverInvariant, PTL DEF Spec

-----------------------------------------------------------------------------
(* The order of the sectors that fat32_read() copies.                      *)

Astray == \E i \in DOMAIN copied : copied[i] < FirstData

\* Where the reader is in the file: in its j-th cluster with all before copied,
\* past its end, cut off by an error of the FAT, or with all it was asked for.
InFile == \E j \in 1..Len(Chain(fat, first)) :
            /\ cluster = Chain(fat, first)[j]
            /\ s \in 0..SectorsPerCluster
            /\ Len(copied) = (j - 1) * SectorsPerCluster + s
AtEnd  == cluster = EOC /\ s = 0 /\ Len(copied) = Len(Sectors(first))
CutOff == cluster = 0 /\ s = 0
Filled == s = 0 /\ Len(copied) = max

VolumeOK ==
  /\ medium = "fat32" => fat \in Volume
  /\ medium \in {"fat32", "no partition", "bad sector size"}
  /\ op = "mount" /\ s = 1 => medium # "no partition"
  /\ vol # None => medium = "fat32"

CopyOK ==
  /\ copied \in Seq(Int) /\ max \in Nat
  /\ first \notin Cluster => copied = <<>> /\ op \in {"none", "mount"}
  /\ op = "mount" => first \notin Cluster
  /\ op = "walk" => copied = <<>> /\ max = 0
  /\ first \in Cluster => fat \in Volume /\ fat[first] # 0

OrderOK ==
  first \in Cluster /\ ~Astray =>
    /\ Len(copied) <= Len(Sectors(first))
    /\ \A i \in 1..Len(copied) : copied[i] = Sectors(first)[i]
    /\ op = "read" => Len(copied) <= max /\ (InFile \/ AtEnd \/ CutOff \/ Filled)
    /\ op = "none" /\ ret # None /\ ret >= 0 =>
         Len(copied) = max \/ Len(copied) = Len(Sectors(first))

LEMMA ChainIs ==
  ASSUME NEW f \in Volume, NEW c \in Cluster, f[c] # 0
  PROVE  /\ Chain(f, c) \in Seq(Cluster)
         /\ Len(Chain(f, c)) \in Nat \ {0}
         /\ Chain(f, c)[1] = c
         /\ \A i \in 1..Len(Chain(f, c))-1 : f[Chain(f, c)[i]] = Chain(f, c)[i+1]
         /\ f[Chain(f, c)[Len(Chain(f, c))]] = EOC
  <1> DEFINE q == Chain(f, c)
  <1>1. FilesFrom(f, c) # {}
    BY DEF Volume
  <1>2. q \in FilesFrom(f, c)
    BY <1>1, Zenon DEF Chain
  <1>3. q \in SeqOf(Cluster, MaxCluster-1) /\ IsFile(f, q) /\ q[1] = c
    BY <1>2, Zenon DEF FilesFrom
  <1> HIDE DEF q
  <1>4. PICK m \in 0..MaxCluster-1 : q \in [1..m -> Cluster]
    BY <1>3, Zenon DEF SeqOf
  <1>5. m \in Nat
    BY <1>4
  <1>6. q \in Seq(Cluster) /\ Len(q) \in Nat
    BY <1>4, <1>5
  <1>7. Len(q) # 0
    BY <1>3, <1>6 DEF IsFile
  <1>8. /\ Len(q) \in Nat \ {0} /\ q[1] = c
        /\ \A i \in 1..Len(q)-1 : f[q[i]] = q[i+1]
        /\ f[q[Len(q)]] = EOC
    BY <1>3, <1>6, <1>7 DEF IsFile
  <1> QED BY <1>6, <1>8 DEF q

LEMMA PlaceInCluster ==
  ASSUME NEW j \in Nat, NEW d \in Nat \ {0}, NEW k \in 0..d-1
  PROVE  (j * d + k) \div d = j /\ (j * d + k) % d = k
  OBVIOUS

LEMMA RoomInFile ==
  ASSUME NEW l \in Nat, NEW j \in 0..l-1, NEW d \in Nat \ {0}, NEW k \in 0..d-1
  PROVE  j * d + k \in Nat /\ l * d \in Nat /\ j * d + k + 1 <= l * d
  <1>1. (j + 1) * d <= l * d
    OBVIOUS
  <1>2. (j + 1) * d = j * d + d
    OBVIOUS
  <1>3. j * d \in Nat /\ l * d \in Nat
    OBVIOUS
  <1> QED BY <1>1, <1>2, <1>3

\* The sectors of a file, cluster by cluster.
LEMMA SectorsAre ==
  ASSUME NEW c, Len(Chain(fat, c)) \in Nat
  PROVE  /\ Len(Sectors(c)) = Len(Chain(fat, c)) * SectorsPerCluster
         /\ Len(Sectors(c)) \in Nat
         /\ DOMAIN Sectors(c) = 1..Len(Sectors(c))
         /\ \A j \in 1..Len(Chain(fat, c)), k \in 0..SectorsPerCluster-1 :
              LET n == (j - 1) * SectorsPerCluster + k + 1
              IN  /\ n \in 1..Len(Sectors(c))
                  /\ Sectors(c)[n] =
                       FirstData + (Chain(fat, c)[j] - 2) * SectorsPerCluster + k
  <1> DEFINE l == Len(Chain(fat, c))
             d == SectorsPerCluster
             At(n) == Chain(fat, c)[(n-1) \div d + 1]
             S == [n \in 1..l * d |-> FirstData + (At(n) - 2) * d + ((n-1) % d)]
  <1>1. Sectors(c) = S
    BY DEF Sectors
  <1>2. d \in Nat \ {0} /\ l \in Nat
    BY Fat32Assumption
  <1> HIDE DEF l, d
  <1>3. l * d \in Nat
    BY <1>2
  <1>4. DOMAIN S = 1..l * d /\ Len(S) = l * d
    BY <1>3
  <1>5. ASSUME NEW j \in 1..l, NEW k \in 0..d-1
        PROVE  /\ (j - 1) * d + k + 1 \in 1..l * d
               /\ S[(j - 1) * d + k + 1] = FirstData + (Chain(fat, c)[j] - 2) * d + k
    <2>1. j - 1 \in 0..l-1 /\ j - 1 \in Nat
      BY <1>2
    <2>2. /\ (j - 1) * d + k \in Nat
          /\ (j - 1) * d + k + 1 <= l * d
      BY <1>2, <2>1, RoomInFile
    <2>3. ((j - 1) * d + k) \div d = j - 1 /\ ((j - 1) * d + k) % d = k
      BY <1>2, <2>1, PlaceInCluster
    <2> DEFINE n == (j - 1) * d + k + 1
    <2>4. n \in 1..l * d /\ n - 1 = (j - 1) * d + k
      BY <1>3, <2>2
    <2>5. S[n] = FirstData + (At(n) - 2) * d + ((n-1) % d)
      BY <2>4
    <2>6. (n-1) \div d + 1 = j /\ (n-1) % d = k
      BY <2>1, <2>3, <2>4
    <2> HIDE DEF n
    <2> QED BY <2>4, <2>5, <2>6 DEF n
  <1> HIDE DEF S
  <1> QED BY <1>1, <1>3, <1>4, <1>5 DEF l, d

\* The entry of a cluster is in the sector that fat_next_cluster() reads.
LEMMA EntryAt ==
  ASSUME fat \in Volume, vol = Mounted, NEW c \in 0..MaxCluster
  PROVE  FatLba(c) \in Nat /\ EntryIn(FatLba(c), c) = fat[c]
  <1> DEFINE e == EntriesPerSector
  <1>1. e \in Nat \ {0} /\ MaxCluster \in Nat /\ NumFats \in Nat \ {0}
    BY Fat32Assumption
  <1>2. FatLba(c) = FirstFat + c \div e
    BY NumbersOfTheVolume DEF FatLba
  <1>3. c \div e \in Nat /\ c \div e <= MaxCluster \div e /\ MaxCluster \div e \in Nat
    BY <1>1
  <1>4. c \div e < FatSize /\ FatSize \in Nat
    BY <1>3, NumbersOfTheVolume DEF FatSize
  <1>5. NumFats * FatSize >= FatSize
    BY <1>1, <1>4
  <1>6. FatLba(c) \in FirstFat..(FirstData - 1)
    <2>1. FirstData >= FirstFat + FatSize /\ FirstData \in Nat /\ FirstFat \in Nat
      <3>1. FirstFat + NumFats * FatSize \in Nat /\ FirstFat \in Nat
        BY NumbersOfTheVolume DEF FirstData
      <3>2. NumFats * FatSize \in Nat
        BY <1>1, <1>4
      <3> QED BY <1>4, <1>5, <3>1, <3>2 DEF FirstData
    <2> DEFINE w == c \div e
    <2>2. w \in Nat /\ w < FatSize /\ FatLba(c) = FirstFat + w
      BY <1>2, <1>3, <1>4
    <2> HIDE DEF w
    <2> QED BY <1>4, <2>1, <2>2
  <1>7. (FatLba(c) - FirstFat) % FatSize = c \div e
    BY <1>2, <1>3, <1>4, NumbersOfTheVolume
  <1>8. (c \div e) * e + (c % e) = c
    BY <1>1
  <1>9. DOMAIN fat = 0..MaxCluster
    BY DEF Volume
  <1> QED BY <1>2, <1>3, <1>6, <1>7, <1>8, <1>9, NumbersOfTheVolume DEF EntryIn

LEMMA NextIs ==
  ASSUME CacheCoherent, fat \in Volume, vol = Mounted, NEW c \in 0..MaxCluster,
         NEW o \in {"ok", "early"}
  PROVE  NextCluster(o, c) \in {0, fat[c]}
  <1>1. FatLba(c) \in Nat /\ EntryIn(FatLba(c), c) = fat[c]
    BY EntryAt
  <1>2. Hit(FatLba(c)) => fat_cache = FatLba(c)
    BY <1>1, Fat32Assumption DEF Hit, CacheCoherent
  <1>3. BufferAfter(o, FatLba(c)) = FatLba(c) \/ ~(Hit(FatLba(c)) \/ Succeeds(o))
    BY <1>2 DEF BufferAfter, Fills, Succeeds
  <1> QED BY <1>1, <1>3 DEF NextCluster

\* The file that is read, its chain and its sectors.
LEMMA FileIs ==
  ASSUME CopyOK, first \in Cluster
  PROVE  /\ Chain(fat, first) \in Seq(Cluster)
         /\ Len(Chain(fat, first)) \in Nat \ {0}
         /\ Chain(fat, first)[1] = first
         /\ \A i \in 1..Len(Chain(fat, first))-1 :
              fat[Chain(fat, first)[i]] = Chain(fat, first)[i+1]
         /\ fat[Chain(fat, first)[Len(Chain(fat, first))]] = EOC
         /\ Len(Sectors(first)) = Len(Chain(fat, first)) * SectorsPerCluster
         /\ Len(Sectors(first)) \in Nat
  <1>1. fat \in Volume /\ fat[first] # 0
    BY DEF CopyOK
  <1> QED BY <1>1, ChainIs, SectorsAre

LEMMA SameFile ==
  ASSUME UNCHANGED <<fat, first>>
  PROVE  /\ Chain(fat, first)' = Chain(fat, first)
         /\ Sectors(first)' = Sectors(first)
  <1>1. FirstData' = FirstData
    BY DEF FirstData, FirstFat, FatSize
  <1>2. Chain(fat, first)' = Chain(fat, first)
    BY DEF Chain, FilesFrom, IsFile, EOC, Cluster
  <1> QED BY <1>1, <1>2 DEF Sectors

\* A call of which the sectors copied do not change.
LEMMA SameCopy ==
  ASSUME CopyOK, OrderOK, VolumeOK, UNCHANGED <<medium, fat, first, max, copied>>,
         op' \in {op, "none"}, vol' = vol, op' = "mount" => s' = s
  PROVE  /\ CopyOK' /\ VolumeOK'
         /\ Astray' = Astray
  <1>1. FirstData' = FirstData
    BY DEF FirstData, FirstFat, FatSize
  <1>2. Cluster' = Cluster
    BY DEF Cluster
  <1>3. Astray' = Astray
    BY <1>1 DEF Astray
  <1>4. Volume' = Volume
    BY DEF Volume, FilesFrom, IsFile, EOC, Cluster
  <1>5. CopyOK'
    BY <1>2, <1>4 DEF CopyOK
  <1>6. VolumeOK'
    <2>1. op' = "mount" => op = "mount" /\ s' = s
      BY Zenon
    <2> QED BY <1>4, <2>1, Zenon DEF VolumeOK
  <1> QED BY <1>3, <1>5, <1>6

\* A call that fails leaves what it has copied, and claims nothing of it.
LEMMA FailKeeps ==
  ASSUME CopyOK, OrderOK, VolumeOK, UNCHANGED <<medium, fat, first, max, copied, vol>>,
         op' = "none", ~(ret' >= 0)
  PROVE  CopyOK' /\ VolumeOK' /\ OrderOK'
  <1>1. CopyOK' /\ VolumeOK' /\ Astray' = Astray
    BY SameCopy
  <1>2. /\ Chain(fat, first)' = Chain(fat, first)
        /\ Sectors(first)' = Sectors(first)
    BY SameFile
  <1> QED BY <1>1, <1>2 DEF OrderOK

CopyInv == CopyOK /\ VolumeOK /\ OrderOK

LEMMA MountKeepsCopy ==
  ASSUME CopyInv, NEW o, mount_mbr(o) \/ mount_vbr(o)
  PROVE  CopyInv'
  <1>1. op = "mount" /\ first \notin Cluster
    BY Zenon DEF CopyInv, CopyOK, mount_mbr, mount_vbr
  <1>2. UNCHANGED <<medium, fat, first, max, copied>> /\ op' \in {op, "none"}
    BY <1>1, Zenon DEF mount_mbr, mount_vbr, Return, disk_vars
  <1>3. Volume' = Volume /\ Cluster' = Cluster
    BY DEF Volume, FilesFrom, IsFile, EOC, Cluster
  <1>4. CopyOK'
    BY <1>1, <1>2, <1>3 DEF CopyInv, CopyOK
  <1>5. VolumeOK'
    <2>1. CASE mount_mbr(o)
      <3>1. /\ op' = "mount" /\ s' = 1 => medium # "no partition"
            /\ vol' = vol
        BY <2>1, Zenon DEF mount_mbr, Return
      <3> QED BY <1>2, <1>3, <3>1, Zenon DEF CopyInv, VolumeOK
    <2>2. CASE mount_vbr(o)
      <3>1. op' = "none"
        BY <2>2, Zenon DEF mount_vbr, Return
      <3>2. vol' = vol \/ medium # "bad sector size"
        BY <2>2, Zenon DEF mount_vbr
      <3>3. medium # "no partition"
        BY <2>2, Zenon DEF mount_vbr, CopyInv, VolumeOK
      <3>4. vol' # None => medium = "fat32"
        BY <3>2, <3>3, Zenon DEF CopyInv, VolumeOK
      <3>5. op' # "mount"
        BY <3>1
      <3> QED BY <1>2, <1>3, <3>4, <3>5, Zenon DEF CopyInv, VolumeOK
    <2> QED BY <2>1, <2>2
  <1>6. OrderOK'
    BY <1>1, <1>2, <1>3 DEF OrderOK
  <1> QED BY <1>4, <1>5, <1>6 DEF CopyInv

LEMMA WalkKeepsCopy ==
  ASSUME CopyInv, NEW o, walk_sector(o)
  PROVE  CopyInv'
  <1>1. /\ op = "walk" /\ op' \in {op, "none"}
        /\ UNCHANGED <<medium, fat, first, max, copied, vol>>
    BY Zenon DEF walk_sector, Return, disk_vars
  <1>2. copied = <<>> /\ max = 0 /\ op' # "mount" /\ op' # "read"
    BY <1>1 DEF CopyInv, CopyOK
  <1>3. CopyOK' /\ VolumeOK' /\ Astray' = Astray
    BY <1>1, <1>2, SameCopy DEF CopyInv
  <1>4. Sectors(first)' = Sectors(first)
    BY <1>1, SameFile
  <1>5. OrderOK'
    BY <1>1, <1>2, <1>3, <1>4 DEF CopyInv, OrderOK
  <1> QED BY <1>3, <1>5 DEF CopyInv

LEMMA ReadKeepsCopy ==
  ASSUME FatOK, CopyInv, NEW o, fat32_read_sector(o)
  PROVE  CopyInv'
  <1>1. /\ op = "read" /\ InCluster /\ s < SectorsPerCluster /\ Len(copied) < max
        /\ UNCHANGED <<medium, fat, first, max, vol>>
    BY Zenon DEF fat32_read_sector, Return, disk_vars, MoreSectors
  <1>2. CASE ~Succeeds(o)
    <2>1. op' = "none" /\ ret' = -1 /\ copied' = copied
      BY <1>2, Zenon DEF fat32_read_sector, Return
    <2>2. ~(ret' >= 0)
      BY <2>1
    <2> QED BY <1>1, <2>1, <2>2, FailKeeps DEF CopyInv
  <1>3. CASE Succeeds(o)
    <2> DEFINE x == cluster_to_lba(cluster) + s
    <2>1. /\ copied' = Append(copied, x) /\ s' = s + 1
          /\ op' = op /\ cluster' = cluster
      BY <1>3, Zenon DEF fat32_read_sector
    <2>2. /\ vol = Mounted /\ cluster \in Int /\ s \in Int
          /\ SectorsPerCluster \in Nat \ {0}
      BY <1>1, Fat32Assumption DEF FatOK
    <2>3. x = FirstData + (cluster - 2) * SectorsPerCluster + s /\ x \in Int
      BY <2>2, NumbersOfTheVolume DEF cluster_to_lba
    <2>4. copied \in Seq(Int) /\ Len(copied) \in Nat /\ first \in Cluster /\ max \in Nat
      BY <1>1 DEF CopyInv, CopyOK
    <2> HIDE DEF x
    <2>5. /\ copied' \in Seq(Int) /\ Len(copied') = Len(copied) + 1
          /\ DOMAIN copied = 1..Len(copied) /\ DOMAIN copied' = 1..Len(copied) + 1
          /\ \A i \in 1..Len(copied) : copied'[i] = copied[i]
          /\ copied'[Len(copied) + 1] = x
      BY <2>1, <2>3, <2>4
    <2>6. Volume' = Volume /\ Cluster' = Cluster /\ FirstData' = FirstData
      BY DEF Volume, FilesFrom, IsFile, EOC, Cluster, FirstData, FirstFat, FatSize
    <2>7. CopyOK'
      BY <1>1, <2>1, <2>4, <2>5, <2>6 DEF CopyInv, CopyOK
    <2>8. VolumeOK'
      <3>1. op' # "mount"
        BY <1>1, <2>1
      <3> QED BY <1>1, <2>6, <3>1, Zenon DEF CopyInv, VolumeOK
    <2>9. ASSUME ~Astray'
          PROVE  OrderOK'
      <3>1. ~Astray /\ x >= FirstData
        <4>1. \A i \in DOMAIN copied' : ~(copied'[i] < FirstData)
          BY <2>6, <2>9 DEF Astray
        <4>2. \A i \in DOMAIN copied : i \in DOMAIN copied' /\ copied'[i] = copied[i]
          BY <2>4, <2>5
        <4>3. ~(x < FirstData)
          BY <2>4, <2>5, <4>1
        <4> QED BY <2>3, <4>1, <4>2, <4>3, NumbersOfTheVolume DEF Astray
      <3>2. InFile \/ AtEnd \/ CutOff \/ Filled
        BY <1>1, <2>4, <3>1 DEF CopyInv, OrderOK
      <3>3. ~AtEnd
        BY <1>1, Fat32Assumption DEF AtEnd, InCluster, MoreClusters, EOC
      <3>4. ~CutOff
        BY <2>2, <2>3, <3>1, NumbersOfTheVolume DEF CutOff
      <3>5. ~Filled
        BY <1>1, <2>4 DEF Filled
      <3>6. PICK j \in 1..Len(Chain(fat, first)) :
              /\ cluster = Chain(fat, first)[j]
              /\ s \in 0..SectorsPerCluster
              /\ Len(copied) = (j - 1) * SectorsPerCluster + s
        BY <3>2, <3>3, <3>4, <3>5 DEF InFile
      <3>7. s \in 0..SectorsPerCluster-1
        BY <1>1, <2>2, <3>6
      <3>8. /\ Len(copied) + 1 \in 1..Len(Sectors(first))
            /\ Sectors(first)[Len(copied) + 1] = x
        BY <2>3, <2>4, <3>6, <3>7, FileIs, SectorsAre DEF CopyInv
      <3>9. /\ Chain(fat, first)' = Chain(fat, first)
            /\ Sectors(first)' = Sectors(first)
        BY <1>1, SameFile
      <3>10. \A i \in 1..Len(copied') : copied'[i] = Sectors(first)[i]
        <4>1. \A i \in 1..Len(copied) : copied[i] = Sectors(first)[i]
          BY <2>4, <3>1 DEF CopyInv, OrderOK
        <4>2. \A i \in 1..Len(copied') : i \in 1..Len(copied) \/ i = Len(copied) + 1
          BY <2>4, <2>5
        <4> QED BY <2>5, <3>8, <4>1, <4>2
      <3>11. InFile'
        <4>1. Len(copied') = (j - 1) * SectorsPerCluster + (s + 1)
          BY <2>2, <2>4, <2>5, <3>6, FileIs DEF CopyInv
        <4>2. s' \in 0..SectorsPerCluster /\ cluster' = Chain(fat, first)'[j]
          BY <2>1, <2>2, <3>6, <3>7, <3>9
        <4> QED BY <2>1, <3>9, <4>1, <4>2 DEF InFile
      <3>12. Len(copied') <= max /\ Len(copied') <= Len(Sectors(first))
        BY <1>1, <2>4, <2>5, <3>8, FileIs DEF CopyInv
      <3>13. op' # "none"
        BY <1>1, <2>1
      <3> QED BY <1>1, <3>9, <3>10, <3>11, <3>12, <3>13 DEF OrderOK
    <2>10. Astray' => OrderOK'
      BY DEF OrderOK
    <2> QED BY <2>7, <2>8, <2>9, <2>10 DEF CopyInv
  <1> QED BY <1>2, <1>3

LEMMA FollowKeepsCopy ==
  ASSUME FatOK, CopyInv, CacheCoherent, NEW o \in {"ok", "early"}, follow_chain(o)
  PROVE  CopyInv'
  <1>1. /\ op \in {"read", "walk"} /\ InCluster /\ ~MoreSectors
        /\ cluster' = NextCluster(o, cluster) /\ s' = 0
        /\ UNCHANGED <<medium, fat, vol, op, first, max, copied, ret>>
    BY Zenon DEF follow_chain, disk_vars, InCluster
  <1>2. op' \in {op, "none"} /\ op' # "mount"
    BY <1>1
  <1>3. CopyOK' /\ VolumeOK' /\ Astray' = Astray
    BY <1>1, <1>2, SameCopy DEF CopyInv
  <1>4. /\ Chain(fat, first)' = Chain(fat, first)
        /\ Sectors(first)' = Sectors(first)
    BY <1>1, SameFile
  <1>5. Cluster' = Cluster
    BY DEF Cluster
  <1>6. ASSUME op = "read", first \in Cluster, ~Astray
        PROVE  Len(copied) <= max /\ (InFile' \/ AtEnd' \/ CutOff' \/ Filled')
    <2>1. /\ Len(copied) <= max
          /\ InFile \/ AtEnd \/ CutOff \/ Filled
      BY <1>6 DEF CopyInv, OrderOK
    <2>2. Len(copied) \in Nat /\ max \in Nat
      BY DEF CopyInv, CopyOK
    <2>3. CASE Len(copied) = max
      BY <1>1, <2>1, <2>3 DEF Filled
    <2>4. CASE Len(copied) < max
      <3>1. /\ s \in Int /\ SectorsPerCluster \in Nat \ {0}
            /\ ~(s < SectorsPerCluster)
        BY <1>1, <2>4, Fat32Assumption DEF FatOK, MoreSectors
      <3>2. s # 0
        BY <3>1
      <3>3. InFile
        BY <2>1, <3>2 DEF AtEnd, CutOff, Filled
      <3>4. PICK j \in 1..Len(Chain(fat, first)) :
              /\ cluster = Chain(fat, first)[j]
              /\ s \in 0..SectorsPerCluster
              /\ Len(copied) = (j - 1) * SectorsPerCluster + s
        BY <3>3 DEF InFile
      <3>5. s = SectorsPerCluster
        BY <3>1, <3>4
      <3>6. /\ Chain(fat, first) \in Seq(Cluster)
            /\ Len(Chain(fat, first)) \in Nat \ {0}
            /\ cluster \in Cluster
        BY <1>6, <3>4, FileIs DEF CopyInv
      <3>7. Len(copied) = j * SectorsPerCluster
        <4>1. (j - 1) * SectorsPerCluster + SectorsPerCluster = j * SectorsPerCluster
          BY <3>1, <3>6
        <4> QED BY <3>4, <3>5, <4>1
      <3>8. cluster' \in {0, fat[cluster]}
        <4>1. fat \in Volume /\ vol = Mounted /\ cluster \in 0..MaxCluster
          BY <1>1, <1>6, <3>6, Fat32Assumption DEF CopyInv, CopyOK, FatOK, Cluster
        <4> QED BY <1>1, <4>1, NextIs
      <3>9. CASE cluster' = 0
        BY <1>1, <2>1, <3>9 DEF CutOff
      <3>10. CASE cluster' = fat[cluster] /\ j = Len(Chain(fat, first))
        <4>1. cluster' = EOC /\ Len(copied) = Len(Sectors(first))
          BY <1>6, <3>4, <3>7, <3>10, FileIs DEF CopyInv
        <4>2. EOC' = EOC
          BY DEF EOC
        <4> QED BY <1>1, <1>4, <2>1, <4>1, <4>2 DEF AtEnd
      <3>11. CASE cluster' = fat[cluster] /\ j # Len(Chain(fat, first))
        <4>1. j \in 1..Len(Chain(fat, first))-1 /\ j + 1 \in 1..Len(Chain(fat, first))
          BY <3>6, <3>11
        <4>2. cluster' = Chain(fat, first)[j + 1]
          BY <1>6, <3>4, <3>11, <4>1, FileIs DEF CopyInv
        <4>3. 0 \in 0..SectorsPerCluster
          BY <3>1
        <4>4. Len(copied) = (j + 1 - 1) * SectorsPerCluster + 0
          BY <2>2, <3>1, <3>6, <3>7
        <4> QED BY <1>1, <1>4, <2>1, <4>1, <4>2, <4>3, <4>4 DEF InFile
      <3> QED BY <3>8, <3>9, <3>10, <3>11
    <2> QED BY <2>1, <2>2, <2>3, <2>4
  <1>7. op' # "none"
    BY <1>1
  <1>8. OrderOK'
    BY <1>1, <1>3, <1>4, <1>5, <1>6, <1>7 DEF CopyInv, OrderOK
  <1> QED BY <1>3, <1>8 DEF CopyInv

LEMMA FinishKeepsCopy ==
  ASSUME FatOK, CopyInv, finish
  PROVE  CopyInv'
  <1>1. /\ op \in {"read", "walk"} /\ s = 0 /\ ~MoreClusters
        /\ op' = "none" /\ ret' = IF op = "read" THEN Len(copied) ELSE -1
        /\ UNCHANGED <<medium, fat, vol, first, max, copied>>
    BY Zenon DEF finish, Return, disk_vars
  <1>2. CASE op = "walk"
    <2>1. ret' = -1
      BY <1>1, <1>2
    <2>2. ~(ret' >= 0)
      BY <2>1
    <2> QED BY <1>1, <2>2, FailKeeps DEF CopyInv
  <1>3. CASE op = "read"
    <2>1. CopyOK' /\ VolumeOK' /\ Astray' = Astray
      BY <1>1, SameCopy DEF CopyInv
    <2>2. Sectors(first)' = Sectors(first)
      BY <1>1, SameFile
    <2>3. ASSUME first \in Cluster, ~Astray
          PROVE  Len(copied) = max \/ Len(copied) = Len(Sectors(first))
      <3>1. Len(copied) <= max /\ (InFile \/ AtEnd \/ CutOff \/ Filled)
        BY <1>3, <2>3 DEF CopyInv, OrderOK
      <3>2. Len(copied) \in Nat /\ max \in Nat
        BY DEF CopyInv, CopyOK
      <3>3. cluster \in Int /\ cluster < EOC => Len(copied) = max
        BY <1>1, <1>3, <3>1, <3>2 DEF MoreClusters
      <3>4. InFile => cluster < EOC /\ cluster \in Int
        BY <2>3, FileIs, Fat32Assumption DEF CopyInv, InFile, Cluster, EOC
      <3>5. CutOff => cluster < EOC /\ cluster \in Int
        BY Fat32Assumption DEF CutOff, EOC
      <3> QED BY <3>1, <3>3, <3>4, <3>5 DEF AtEnd, Filled
    <2>4. Cluster' = Cluster
      BY DEF Cluster
    <2>5. OrderOK'
      BY <1>1, <2>1, <2>2, <2>3, <2>4 DEF CopyInv, OrderOK
    <2> QED BY <2>1, <2>5 DEF CopyInv
  <1> QED BY <1>1, <1>2, <1>3

LEMMA CallKeepsCopy ==
  ASSUME FatOK, CopyInv, NewCall
  PROVE  CopyInv'
  <1>1. PICK o \in {"mount", "read", "walk"}, c \in Int, n \in Nat :
          /\ Call(o, c, n)
          /\ \/ o = "mount" /\ vol = None /\ c = 0 /\ n = 0
             \/ o = "read" /\ vol # None /\ c \in Heads(fat)
             \/ o = "walk" /\ vol # None /\ c \in Heads(fat) /\ n = 0
    BY Fat32Assumption DEF NewCall, Heads, Cluster
  <1>2. /\ op' = o /\ first' = c /\ cluster' = c /\ max' = n /\ s' = 0
        /\ copied' = <<>> /\ ret' = None
        /\ UNCHANGED <<medium, fat, vol>>
    BY <1>1, Zenon DEF Call, disk_vars
  <1>3. Volume' = Volume /\ Cluster' = Cluster
    BY DEF Volume, FilesFrom, IsFile, EOC, Cluster
  <1>4. 0 \notin Cluster /\ \A k \in Heads(fat) : k \in Cluster /\ fat[k] # 0
    BY DEF Heads, Cluster
  <1>5. vol # None => fat \in Volume
    BY Zenon DEF CopyInv, VolumeOK
  <1>6. CopyOK'
    BY <1>1, <1>2, <1>3, <1>4, <1>5 DEF CopyOK
  <1>7. VolumeOK'
    <2>1. s' # 1
      BY <1>2
    <2> QED BY <1>2, <1>3, <2>1, Zenon DEF CopyInv, VolumeOK
  <1>8. OrderOK'
    <2> SUFFICES ASSUME first' \in Cluster
                 PROVE  OrderOK'
      BY <1>3 DEF OrderOK
    <2>1. /\ Len(Chain(fat, first))' \in Nat \ {0}
          /\ (Chain(fat, first)')[1] = first'
          /\ Len(Sectors(first))' \in Nat
      <3>1. fat' \in Volume /\ (fat')[first'] # 0
        BY <1>3, <1>6 DEF CopyOK
      <3>2. /\ Len(Chain(fat', first')) \in Nat \ {0}
            /\ Chain(fat', first')[1] = first'
        BY <3>1, ChainIs
      <3>3. Chain(fat, first)' = Chain(fat', first')
        OBVIOUS
      <3>4. Len(Sectors(first))' = Len(Chain(fat', first')) * SectorsPerCluster
        <4>1. Len(Chain(fat', first')) * SectorsPerCluster \in Nat
          BY <3>2, Fat32Assumption
        <4> QED BY <4>1 DEF Sectors
      <3>5. Len(Chain(fat', first')) * SectorsPerCluster \in Nat
        BY <3>2, Fat32Assumption
      <3> QED BY <3>2, <3>4, <3>5
    <2>2. Len(copied') = 0 /\ 0 <= max' /\ op' # "none"
      BY <1>1, <1>2
    <2>3. InFile'
      <3>1. 1 \in 1..Len(Chain(fat, first))' /\ 0 = (1 - 1) * SectorsPerCluster + 0
            /\ 0 \in 0..SectorsPerCluster
        BY <2>1, Fat32Assumption
      <3> QED BY <1>2, <2>1, <2>2, <3>1 DEF InFile
    <2> QED BY <2>1, <2>2, <2>3 DEF OrderOK
  <1> QED BY <1>6, <1>7, <1>8 DEF CopyInv

LEMMA CopyStep ==
  ASSUME FatOK, EmmcInv, CacheCoherent, CopyInv, "slow_end" \notin Faults,
         [StorageNext]_vars
  PROVE  CopyInv'
  <1>1. ASSUME NEW o \in {"ok", "early"}, ReadingStep(o)
        PROVE  CopyInv'
    BY <1>1, MountKeepsCopy, ReadKeepsCopy, WalkKeepsCopy, FollowKeepsCopy
    DEF ReadingStep
  <1>2. CASE goes_on
    BY <1>1, <1>2, NotLate DEF goes_on
  <1>3. CASE no_read
    <2>1. follow_chain("ok") => ReadingStep("ok")
      BY DEF ReadingStep
    <2> QED BY <1>1, <1>3, <2>1, FinishKeepsCopy DEF no_read
  <1>4. CASE UNCHANGED fat_vars
    <2>1. UNCHANGED <<medium, fat, first, max, copied, vol, op, s, cluster, ret>>
      BY <1>4 DEF fat_vars, disk_vars
    <2>2. CopyOK' /\ VolumeOK' /\ Astray' = Astray
      BY <2>1, SameCopy DEF CopyInv
    <2>3. /\ Chain(fat, first)' = Chain(fat, first)
          /\ Sectors(first)' = Sectors(first)
      BY <2>1, SameFile
    <2>4. OrderOK'
      BY <2>1, <2>2, <2>3 DEF CopyInv, OrderOK, InFile, AtEnd, CutOff, Filled, EOC,
         Cluster
    <2> QED BY <2>2, <2>4 DEF CopyInv
  <1>5. CASE call
    BY <1>5, CallKeepsCopy DEF call
  <1> QED BY <1>2, <1>3, <1>4, <1>5
      DEF StorageNext, Works, boot_returns, blkdev_read, vars

LEMMA CopyInvInit == StorageInit => CopyInv
  <1> SUFFICES ASSUME StorageInit
               PROVE  CopyInv
    OBVIOUS
  <1>1. first = 0 /\ max = 0 /\ copied = <<>> /\ op = "none" /\ vol = None
    BY Zenon DEF StorageInit, FatInit
  <1>2. medium = "fat32" => fat \in Volume
    <2>1. medium = "fat32" => medium \notin {"no partition", "bad sector size"}
      BY Zenon
    <2> QED BY <2>1, Zenon DEF StorageInit, FatInit
  <1>3. medium \in {"fat32", "no partition", "bad sector size"}
    BY Zenon DEF StorageInit, FatInit
  <1>4. op # "mount"
    BY <1>1
  <1>5. VolumeOK
    BY <1>1, <1>2, <1>3, <1>4, Zenon DEF VolumeOK
  <1>6. first \notin Cluster
    BY <1>1 DEF Cluster
  <1>7. CopyOK /\ OrderOK
    BY <1>1, <1>6 DEF CopyOK, OrderOK
  <1> QED BY <1>5, <1>7 DEF CopyInv

\* fat32_read() copies the sectors of the file in their order and without a gap,
\* and returns short of what it was asked for only at the end of the file, on
\* every consistent volume, whichever reads fail before their data have come.
THEOREM SectorsInOrder ==
  ASSUME "slow_end" \notin Faults
  PROVE  Spec => []CopiesInOrder
  <1>1. CopyInv /\ CacheCoherent /\ (FatOK /\ EmmcInv) /\ [StorageNext]_vars => CopyInv'
    BY CopyStep
  <1>2. CopyInv => CopiesInOrder
    <2> SUFFICES ASSUME CopyInv, first \in Cluster,
                        \A i \in DOMAIN copied : copied[i] >= FirstData
                 PROVE  /\ IsPrefix(copied, Sectors(first))
                        /\ op = "none" /\ ret # None /\ ret >= 0 =>
                             Len(copied) = max \/ copied = Sectors(first)
      BY DEF CopiesInOrder
    <2>1. copied \in Seq(Int) /\ Len(copied) \in Nat /\ DOMAIN copied = 1..Len(copied)
      BY DEF CopyInv, CopyOK
    <2>2. ~Astray
      <3>1. \A i \in DOMAIN copied : copied[i] \in Int
        BY <2>1
      <3> QED BY <3>1, NumbersOfTheVolume DEF Astray
    <2>3. /\ Len(copied) <= Len(Sectors(first))
          /\ \A i \in 1..Len(copied) : copied[i] = Sectors(first)[i]
          /\ op = "none" /\ ret # None /\ ret >= 0 =>
               Len(copied) = max \/ Len(copied) = Len(Sectors(first))
      BY <2>2 DEF CopyInv, OrderOK
    <2>4. Len(Sectors(first)) \in Nat /\ DOMAIN Sectors(first) = 1..Len(Sectors(first))
      BY FileIs, SectorsAre DEF CopyInv
    <2>5. IsPrefix(copied, Sectors(first))
      <3>1. SubSeq(copied, 1, Len(copied)) = [i \in 1..Len(copied) |-> copied[i]]
        BY <2>1
      <3>2. SubSeq(Sectors(first), 1, Len(copied)) =
              [i \in 1..Len(copied) |-> Sectors(first)[i]]
        BY <2>1
      <3> QED BY <2>3, <3>1, <3>2 DEF IsPrefix
    <2>6. Len(copied) = Len(Sectors(first)) => copied = Sectors(first)
      <3>1. Sectors(first) = [i \in DOMAIN Sectors(first) |-> Sectors(first)[i]]
        BY Zenon DEF Sectors
      <3>2. copied = [i \in 1..Len(copied) |-> copied[i]]
        BY <2>1
      <3> QED BY <2>3, <2>4, <3>1, <3>2
    <2> QED BY <2>3, <2>5, <2>6
  <1> QED BY <1>1, <1>2, CopyInvInit, CacheNamed, DriverInvariant, PTL DEF Spec

=============================================================================

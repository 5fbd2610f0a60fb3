--------------------------------- MODULE Mmc ---------------------------------
(***************************************************************************)
(* The SD card driver of the boot loader (mmc.c, called through diskio.c)  *)
(* and the card it talks to over SPI.                                      *)
(*                                                                         *)
(* A routine sends a command and then clocks in bytes until one of them is *)
(* the answer it wants or its patience ends.  The card, which is not part  *)
(* of the repository, answers in order but as late as it likes, also after *)
(* the driver has given up; while a command is clocked out, what the card  *)
(* sends is lost.  GO_IDLE_STATE makes it forget what it was about to say. *)
(*                                                                         *)
(* The caller is FatFs in bootelf: every boot mounts anew, which           *)
(* initializes the card, and the first failure ends it.                    *)
(***************************************************************************)
EXTENDS Integers, Sequences

CONSTANTS
  Blocks,               \* block numbers the file system asks for
  RESPONSE_TRIES,       \* 0xFFF in the code
  MMC_TIMEOUT,          \* 0xFF in the code
  LOW, HIGH             \* low and high parts of a block number: 128 and 65536

\* What the constants satisfy.
MmcAssumption ==
  /\ RESPONSE_TRIES \in Nat \ {0} /\ MMC_TIMEOUT \in Nat \ {0}
  /\ LOW \in Nat \ {0} /\ HIGH \in Nat \ {0}
  /\ Blocks \subseteq 0 .. LOW * HIGH - 1

VARIABLES
  step,             \* the answer being waited for, or "caller"
  count,            \* patience left for this answer
  tries,            \* patience left for SEND_OP_COND
  block,            \* the block being read
  result,           \* what the last routine returned
  got,              \* the block whose data the caller's buffer holds
  cs,               \* the card is selected
  mode, out,        \* card: its state, and the bytes it has yet to send
  accepted          \* history: the last answer to SEND_OP_COND was 0

driverVars == <<step, count, tries, block, result, got, cs, accepted>>
cardVars == <<mode, out>>
mmcVars == <<driverVars, cardVars>>

\* Bytes on the wire; a data block counts as one, marked with its block.
Byte(t) == [t |-> t, b |-> -1]
Data(b) == [t |-> "data", b |-> b]
Garbage == -1

\* The byte address sent for a block is 512 * Field(block): the two masked
\* shifts of mmc_read_block, put together again by the card.
varl(b) == b % LOW
varh(b) == (b \div LOW) % HIGH
Field(b) == varh(b) * LOW + varl(b)

Wanted == [cmd0 |-> "01", cmd1 |-> "00", cmd16 |-> "00", r1 |-> "00",
           token |-> "FE"]

MmcInit ==
  /\ step = "caller" /\ count = 0 /\ tries = 0 /\ block = 0
  /\ result = "none" /\ got = Garbage /\ cs = FALSE
  /\ mode = "off" /\ out = <<>> /\ accepted = FALSE
-----------------------------------------------------------------------------
\* The card.
Suffixes(s) == {SubSeq(s, i, Len(s)) : i \in 1 .. Len(s) + 1}

\* What the card does with a command; its pending bytes are clocked out unread,
\* all of them or some.
CardCommand(reply) == \E rest \in Suffixes(out) : out' = rest \o reply

GoIdle == mode' = "idle" /\ out' = <<Byte("01")>>

SendOpCond ==
  \/ mode' = "ready" /\ mode # "off" /\ CardCommand(<<Byte("00")>>)
  \/ mode # "ready" /\ UNCHANGED mode /\ CardCommand(<<Byte("01")>>)

SetBlockLen == CardCommand(<<Byte("00")>>) /\ UNCHANGED mode

ReadSingleBlock(b) ==
  /\ \/ mode = "ready" /\ CardCommand(<<Byte("00"), Byte("FE"), Data(b)>>)
     \/ CardCommand(<<Byte("05")>>)
     \/ mode = "ready" /\ CardCommand(<<Byte("00"), Byte("05")>>)
  /\ UNCHANGED mode

\* One byte for mmc_response: nothing yet, a byte that is or is not wanted,
\* or a byte from the middle of a data block, which may be any.
Clocked(hit) ==
  \/ ~hit /\ UNCHANGED out
  \/ /\ out # <<>> /\ Head(out).t # "data"
     /\ hit = (Head(out).t = Wanted[step])
     /\ out' = Tail(out)
  \/ /\ out # <<>> /\ Head(out).t = "data"
     /\ out' \in {out, Tail(out)}
-----------------------------------------------------------------------------
\* The driver.
Await(p) == step' = p /\ count' = RESPONSE_TRIES

MmcReturn(r) == step' = "caller" /\ result' = r

\* disk_initialize, as every boot starts.
mmc_init ==
  /\ step = "caller"
  /\ cs' = TRUE
  /\ GoIdle
  /\ Await("cmd0")
  /\ tries' = MMC_TIMEOUT /\ accepted' = FALSE
  /\ UNCHANGED <<block, result, got>>

\* A slip that reads on after a failure.
mmc_read_blockMutant(b) ==
  /\ step = "caller" /\ result \notin {"none", "cmd0", "cmd1"}
  /\ cs' = TRUE
  /\ ReadSingleBlock(Field(b))
  /\ Await("r1")
  /\ block' = b /\ got' = Garbage
  /\ UNCHANGED <<tries, result, accepted>>

mmc_read_block(b) ==
  /\ step = "caller" /\ result = "ok"
  /\ cs' = TRUE
  /\ ReadSingleBlock(Field(b))
  /\ Await("r1")
  /\ block' = b /\ got' = Garbage
  /\ UNCHANGED <<tries, result, accepted>>

\* A byte that is not the wanted one, with patience left.
KeepWaiting ==
  /\ step \in DOMAIN Wanted /\ count > 1
  /\ Clocked(FALSE)
  /\ count' = count - 1
  /\ UNCHANGED <<mode, step, tries, block, result, got, cs, accepted>>

\* mmc_response returns: with the wanted byte or, patience gone, without.
mmc_response(p, hit) ==
  /\ step = p
  /\ hit \/ count = 1
  /\ Clocked(hit)
  /\ UNCHANGED <<mode, tries, block, got>>

Continue(p) == step' = p /\ UNCHANGED <<count, result>>

AfterCmd0 ==
  \E hit \in BOOLEAN :
    /\ mmc_response("cmd0", hit)
    /\ IF hit THEN Continue("send1") ELSE MmcReturn("cmd0") /\ UNCHANGED count
    /\ UNCHANGED <<cs, accepted>>

\* A slip that retries for ever.
SendCmd1Mutant ==
  /\ step = "send1"
  /\ SendOpCond /\ Await("cmd1")
  /\ UNCHANGED <<tries, block, result, got, cs, accepted>>

SendCmd1 ==
  /\ step = "send1"
  /\ SendOpCond /\ tries' = tries - 1 /\ Await("cmd1")
  /\ UNCHANGED <<block, result, got, cs, accepted>>

\* A slip that goes on although the card never accepted.
AfterCmd1Mutant ==
  \E hit \in BOOLEAN :
    /\ mmc_response("cmd1", hit)
    /\ accepted' = hit
    /\ IF ~hit /\ tries > 0 THEN Continue("send1") ELSE Continue("send16")
    /\ UNCHANGED cs

\* The condition of the do-while loop, and the test after it.
AfterCmd1 ==
  \E hit \in BOOLEAN :
    /\ mmc_response("cmd1", hit)
    /\ accepted' = hit
    /\ IF ~hit /\ tries > 0 THEN Continue("send1")
       ELSE IF tries = 0 THEN MmcReturn("cmd1") /\ UNCHANGED count
       ELSE Continue("send16")
    /\ UNCHANGED cs

SendCmd16 ==
  /\ step = "send16"
  /\ SetBlockLen /\ Await("cmd16")
  /\ UNCHANGED <<tries, block, result, got, cs, accepted>>

\* A missing answer is printed and ignored.
AfterCmd16 ==
  \E hit \in BOOLEAN :
    /\ mmc_response("cmd16", hit)
    /\ cs' = FALSE /\ MmcReturn("ok")
    /\ UNCHANGED <<count, accepted>>

AfterR1 ==
  \E hit \in BOOLEAN :
    /\ mmc_response("r1", hit)
    /\ IF hit THEN Await("token") /\ UNCHANGED result
       ELSE MmcReturn("r1") /\ UNCHANGED count
    /\ UNCHANGED <<cs, accepted>>

AfterToken ==
  \E hit \in BOOLEAN :
    /\ mmc_response("token", hit)
    /\ IF hit THEN Continue("data") ELSE MmcReturn("token") /\ UNCHANGED count
    /\ UNCHANGED <<cs, accepted>>

\* The bytes after the token, whatever they are, and the two of the checksum.
ReceiveBlock ==
  /\ step = "data"
  /\ got' = IF out # <<>> THEN Head(out).b ELSE Garbage
  /\ out' = IF out # <<>> THEN Tail(out) ELSE out
  /\ cs' = FALSE /\ MmcReturn("ok")
  /\ UNCHANGED <<mode, count, tries, block, accepted>>

MmcNext ==
  \/ mmc_init \/ (\E b \in Blocks : mmc_read_block(b))
  \/ KeepWaiting
  \/ AfterCmd0 \/ SendCmd1 \/ AfterCmd1 \/ SendCmd16 \/ AfterCmd16
  \/ AfterR1 \/ AfterToken \/ ReceiveBlock

\* Each routine goes on until it returns; nobody need call one.
Running == step # "caller" /\ MmcNext

MmcFairness == WF_mmcVars(Running)

MmcSpec == MmcInit /\ [][MmcNext]_mmcVars /\ MmcFairness
-----------------------------------------------------------------------------
(***************************************************************************)
(* Properties.                                                             *)
(***************************************************************************)
MmcTypeOK ==
  /\ step \in DOMAIN Wanted \cup {"caller", "send1", "send16", "data"}
  /\ count \in 0 .. RESPONSE_TRIES /\ tries \in 0 .. MMC_TIMEOUT
  /\ block \in Blocks \cup {0}
  /\ result \in {"none", "ok", "cmd0", "cmd1", "r1", "token"}
  /\ got \in Blocks \cup {Garbage}
  /\ cs \in BOOLEAN /\ accepted \in BOOLEAN
  /\ mode \in {"off", "idle", "ready"}
  /\ \A i \in DOMAIN out : out[i].t \in {"00", "01", "05", "FE", "data"}

(* A mmc_read_block that reports success has put the block asked for into  *)
(* the buffer: no late answer to an earlier command, of this boot or of    *)
(* one that failed before it, is taken for the answer to this one.         *)
ReadGenuine == [][(step = "data" /\ step' = "caller") => got' = block]_mmcVars

(* After a successful mmc_init or mmc_read_block the card is initialized   *)
(* and deselected.                                                         *)
ReadyAfterSuccess ==
  (step = "caller" /\ result = "ok") => mode = "ready" /\ ~cs

(* mmc_init and mmc_read_block return, however the card behaves: a dead    *)
(* card does not hang the boot.                                            *)
RoutineReturns == (step # "caller") ~> (step = "caller")

(* The comment on the loop: "Send CMD1 SEND_OP_COND until response is 0".  *)
(* When mmc_init gives up with a CMD1 timeout, the response was not 0.     *)
GivesUpOnlyUnanswered == (step = "caller" /\ result = "cmd1") => ~accepted
=============================================================================

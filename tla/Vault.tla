-------------------------------- MODULE Vault --------------------------------
(***************************************************************************)
(* The vault (includes/aad_vault.h): save_coin checks a coin and keeps it  *)
(* in a static buffer; save_coin(NULL), or a coin that meets a full        *)
(* buffer, appends the buffer to the file.  A write error or a fifth bad   *)
(* coin ends the program with exit(1).  The module adds what surrounds     *)
(* save_coin: the main of a miner, which ends with save_coin(NULL), a      *)
(* signal that kills the process, and a later run on the same file.        *)
(***************************************************************************)
EXTENDS Integers, Sequences, SequencesExt

CONSTANTS
    Coins,             \* the coins a miner passes to save_coin
    MAX_SAVED_COINS,   \* lines of the buffer
    MaxCalls           \* bound: calls of save_coin with a coin, all runs

(* A coin is told apart by its id; its bytes may or may not match the      *)
(* template, its hash may or may not begin with the signature, and the     *)
(* other 128 bits of the hash begin with a number of zeros.                *)
ASSUME CoinsAssumption ==
    Coins \subseteq [id : Nat, template : BOOLEAN, signature : BOOLEAN,
                     zeros : 0..128]
ASSUME CapacityAssumption == MAX_SAVED_COINS \in Nat \ {0}
ASSUME BoundAssumption == MaxCalls \in Nat

VARIABLES
    saved_coins,            \* the first n_saved_coins lines of the buffer
    error_tolerance_count,
    file,                   \* the lines of the vault file
    status,                 \* of the process: the two errors are exit(1)
    calls,                  \* calls so far (bounded by MaxCalls)
    \* --- history of the running process ---
    base,                   \* the file as the process found it
    accepted,               \* the coins it has put into the buffer, in order
    rejected                \* how many coins it has refused

vars == <<saved_coins, error_tolerance_count, file, status, calls,
          base, accepted, rejected>>

n_saved_coins == Len(saved_coins)

(* A line of the file is a coin with its power; or torn, the end of a      *)
(* failed write; or damaged, a torn line that a later write went on with.  *)
Line == [id : Nat, power : 0..99]
Torn == [id |-> -1, power |-> 0]
Damaged == [id |-> -2, power |-> 0]
FileLine == Line \cup {Torn, Damaged}

ToleratedErrors == 4

TypeOK ==
    /\ saved_coins \in Seq(Line)
    /\ n_saved_coins <= MAX_SAVED_COINS
    /\ error_tolerance_count \in -1..ToleratedErrors
    /\ file \in Seq(FileLine)
    /\ status \in {"running", "returned", "write_error",
                  "too_many_errors", "killed"}
    /\ calls \in Nat
    /\ base \in Seq(FileLine)
    /\ accepted \in Seq(Line)
    /\ rejected \in Nat

Init ==
    /\ saved_coins = <<>>
    /\ error_tolerance_count = ToleratedErrors
    /\ file = <<>>
    /\ status = "running"
    /\ calls = 0
    /\ base = <<>>
    /\ accepted = <<>>
    /\ rejected = 0

-----------------------------------------------------------------------------
(* The line a coin is stored as: two decimal digits hold the power. *)
UncappedPower(n) == n
Power(n) == IF n > 99 THEN 99 ELSE n
LineOf(c) == [id |-> c.id, power |-> Power(c.zeros)]

(* fopen(..., "a") and fwrite: lines are added at the end of the file, the *)
(* first of them at the end of a torn line.                                *)
EndsTorn(f) == f # <<>> /\ Last(f) = Torn
Settled(f) == IF EndsTorn(f) THEN Front(f) ELSE f

OpenedForWriting(f, lines) == lines
Joined(f, lines) ==
    IF EndsTorn(f) /\ lines # <<>>
    THEN Front(f) \o <<IF Head(lines) = Torn THEN Torn ELSE Damaged>> \o Tail(lines)
    ELSE f \o lines

(* What the file can be after a write that failed (in fopen, fwrite,       *)
(* fflush or fclose): some of the lines are there, perhaps a part of the   *)
(* next one, or all of them.                                               *)
PartOf(f, lines) ==
    {Joined(f, SubSeq(lines, 1, k)) : k \in 0..Len(lines)}
    \cup {Joined(f, SubSeq(lines, 1, k) \o <<Torn>>) : k \in 0..(Len(lines) - 1)}

BufferFull == n_saved_coins = MAX_SAVED_COINS

KeptAfterFlush == saved_coins
AfterFlush == <<>>

WriteFails ==
    /\ n_saved_coins > 0
    /\ file' \in PartOf(file, saved_coins)
    /\ status' = "write_error"
    /\ UNCHANGED <<saved_coins, error_tolerance_count, base, accepted, rejected>>

(* save_coin(NULL); with an empty buffer the file is not even opened. *)
SaveAllAnd(next) ==
    /\ status = "running"
    /\ UNCHANGED calls
    /\ \/ /\ file' = Joined(file, saved_coins)
          /\ saved_coins' = AfterFlush
          /\ status' = next
          /\ UNCHANGED <<error_tolerance_count, base, accepted, rejected>>
       \/ WriteFails

(* The MPI master flushes after every coin; the mains of the other miners  *)
(* do it once, and return.                                                 *)
SaveAll == SaveAllAnd("running")
Return == SaveAllAnd("returned")

-----------------------------------------------------------------------------
(* save_coin(coin) *)

Valid(c) == c.template /\ c.signature

KeptLines == IF BufferFull THEN AfterFlush ELSE saved_coins
FileNotWritten == file
FileBefore == IF BufferFull THEN Joined(file, saved_coins) ELSE file

Accept(c) ==
    /\ Valid(c)
    /\ file' = FileBefore
    /\ saved_coins' = Append(KeptLines, LineOf(c))
    /\ accepted' = Append(accepted, LineOf(c))
    /\ UNCHANGED <<error_tolerance_count, status, base, rejected>>

ExitAtZero(n) == n <= 0
TooManyErrors(n) == n < 0

Reject(c) ==
    /\ ~Valid(c)
    /\ file' = FileBefore
    /\ saved_coins' = KeptLines
    /\ error_tolerance_count' = error_tolerance_count - 1
    /\ rejected' = rejected + 1
    /\ status' = IF TooManyErrors(error_tolerance_count - 1)
                 THEN "too_many_errors" ELSE "running"
    /\ UNCHANGED <<base, accepted>>

SaveCoin(c) ==
    /\ status = "running"
    /\ calls < MaxCalls
    /\ calls' = calls + 1
    /\ \/ Accept(c)
       \/ Reject(c)
       \/ BufferFull /\ WriteFails

-----------------------------------------------------------------------------
(* The process and its next run *)

(* SIGTERM, or a second Ctrl-C where signal() is one-shot. *)
Kill ==
    /\ status = "running"
    /\ status' = "killed"
    /\ UNCHANGED <<saved_coins, error_tolerance_count, file, calls, base,
                   accepted, rejected>>

StartAgain ==
    /\ status # "running"
    /\ calls < MaxCalls
    /\ saved_coins' = <<>>
    /\ error_tolerance_count' = ToleratedErrors
    /\ status' = "running"
    /\ base' = file
    /\ accepted' = <<>>
    /\ rejected' = 0
    /\ UNCHANGED <<file, calls>>

Next ==
    \/ \E c \in Coins : SaveCoin(c)
    \/ SaveAll
    \/ Return
    \/ Kill
    \/ StartAgain

Spec == Init /\ [][Next]_vars

-----------------------------------------------------------------------------
(* Properties *)

(* As long as the process runs, no accepted coin is lost, duplicated or    *)
(* out of order: the file and the buffer together are what the process     *)
(* found and then accepted.  When it returns from main the file alone is.  *)
NothingLost ==
    /\ status = "running" => Joined(file, saved_coins) = Joined(base, accepted)
    /\ status = "returned" => file = Joined(base, accepted)

(* However a process ends, the file is what it found, then a prefix of     *)
(* what it accepted, then at most one torn line: a failure never           *)
(* changes or reorders the coins already there.                            *)
FileKeepsAcceptedOrder == file \in PartOf(base, accepted)

(* Four bad coins are tolerated and the fifth ends the program             *)
(* (error_tolerance_count, "number of errors to tolerate before bailing    *)
(* out").                                                                  *)
FourErrorsTolerated ==
    IF status = "too_many_errors" THEN rejected = ToleratedErrors + 1
                                  ELSE rejected <= ToleratedErrors

(* Nobody takes a line out of the file or changes one: a write can only go *)
(* on with a torn last line.                                               *)
FileOnlyGrows == [][IsPrefix(Settled(file), file')]_vars
=============================================================================

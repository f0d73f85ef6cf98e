--------------------------- MODULE DownloadService ---------------------------
(***************************************************************************)
(* What the download of logged samples promises to a subscribed client:    *)
(* the header tells how many samples follow, they are the newest ones of   *)
(* the log when the request was served, and they come in order, without a  *)
(* gap and without a repetition.  Items of two samples are logged, so an   *)
(* odd number leaves the newest sample out.                                *)
(*                                                                         *)
(* Samples are the numbers from oldest up to newest - 1.  Nothing is       *)
(* promised any more after a disturbance.                                  *)
(***************************************************************************)
EXTENDS Integers, Sequences

CONSTANT MaxRequest  \* bound on the samples of a request and of a frame

VARIABLES
  oldest, newest,   \* the log
  announced,        \* the promise, or NoPromise
  header,           \* number of samples told by the header, or NoHeader
  received,         \* samples received after the header
  disturbed

NoPromise == [from |-> 0, number |-> -1]
NoHeader == -1

log == <<oldest, newest>>
download == <<announced, header, received>>
vars == <<log, download, disturbed>>

Init ==
  /\ announced = NoPromise
  /\ header = NoHeader
  /\ received = <<>>
  /\ disturbed = FALSE

LogItem ==
  /\ newest' = newest + 2
  /\ UNCHANGED <<oldest, download>>

NewestSamples(requested) ==
  LET available == newest - oldest
      number == IF requested < available THEN requested ELSE available
  IN  [from |-> newest - number - (number % 2), number |-> number]

Announce(requested) ==
  /\ announced = NoPromise
  /\ announced' = NewestSamples(requested)
  /\ UNCHANGED <<log, header, received>>

SendHeader ==
  /\ announced # NoPromise
  /\ header = NoHeader
  /\ header' = announced.number
  /\ UNCHANGED <<log, announced, received>>

Deliver(number) ==
  /\ header # NoHeader
  /\ Len(received) + number <= announced.number
  /\ received' = received \o
       [i \in 1 .. number |-> announced.from + Len(received) + i - 1]
  /\ UNCHANGED <<log, announced, header>>

Complete == header # NoHeader /\ Len(received) = header

\* Old samples are given up for new ones.
Forget ==
  /\ announced = NoPromise \/ Complete
  /\ oldest' > oldest
  /\ newest' = newest + 2
  /\ UNCHANGED download

Unsubscribe ==
  /\ announced' = NoPromise
  /\ header' = NoHeader
  /\ received' = <<>>
  /\ UNCHANGED log

Next ==
  \/ disturbed'
  \/ /\ UNCHANGED disturbed
     /\ \/ LogItem \/ Forget
        \/ \E requested \in 0 .. MaxRequest : Announce(requested)
        \/ SendHeader
        \/ \E number \in 1 .. MaxRequest : Deliver(number)
        \/ Unsubscribe

Spec == Init /\ [][Next]_vars
=============================================================================

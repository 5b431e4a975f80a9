--------------------------- MODULE CommandMailbox ---------------------------
(***************************************************************************)
(* What the relay's command queue and the pollers of the devices promise   *)
(* together: commands are taken in some order; consecutive ones are handed *)
(* to a device as one block, behind everything it was handed before, or    *)
(* dropped as one. There are no requests, answers and timeouts here, and   *)
(* nothing says how a device comes by its block: RelaySession is shown to  *)
(* implement these atomic actions, however its requests overlap, are given *)
(* up or lost.                                                             *)
(***************************************************************************)
EXTENDS Naturals, SequencesExt

CONSTANTS Device, Command

VARIABLES posted,   \* the commands taken, in that order
          handed,   \* what each device was handed, in that order
          dropped   \* the commands that nobody will be handed

mailboxVars == <<posted, handed, dropped>>

MailboxInit ==
    /\ posted = <<>>
    /\ handed = [d \in Device |-> <<>>]
    /\ dropped = {}

-----------------------------------------------------------------------------
Post(c) ==
    /\ c \notin ToSet(posted)
    /\ posted' = Append(posted, c)
    /\ UNCHANGED <<handed, dropped>>

\* None of the commands in this block was handed to any device, or dropped.
Pending(i, j) ==
    \A k \in i..j : /\ posted[k] \notin dropped
                    /\ \A d \in Device : posted[k] \notin ToSet(handed[d])

HandOver(d, i, j) ==
    /\ Pending(i, j)
    /\ \A k \in i..Len(posted) : posted[k] \notin ToSet(handed[d])
    /\ handed' = [handed EXCEPT ![d] = @ \o SubSeq(posted, i, j)]
    /\ UNCHANGED <<posted, dropped>>

Drop(i, j) ==
    /\ Pending(i, j)
    /\ dropped' = dropped \cup ToSet(SubSeq(posted, i, j))
    /\ UNCHANGED <<posted, handed>>

MailboxNext ==
    \/ \E c \in Command : Post(c)
    \/ \E i, j \in DOMAIN posted :
        \/ \E d \in Device : HandOver(d, i, j)
        \/ Drop(i, j)

MailboxSpec == MailboxInit /\ [][MailboxNext]_mailboxVars

=============================================================================

---------------------------- MODULE DirectCommands ----------------------------
(***************************************************************************)
(* What identifiers, watermark and reconciliation together promise:        *)
(* commands behave as if there were none of these.  The radio takes the    *)
(* commands of the connection it has granted one after another and acts    *)
(* on each, never taking one for a repetition of another; nothing else     *)
(* changes its settings or its stream while it runs; and what a processor  *)
(* is told is the verdict on the very command it waits for, on which the   *)
(* radio acted after it was sent.  A connection may be closed, and what    *)
(* was sent on it lost, at any moment.                                     *)
(***************************************************************************)
EXTENDS Naturals, Sequences

CONSTANTS
  Conns, NoConnection,   \* connections to the radio
  Commands,              \* records of a kind and settings
  Acceptable             \* settings that the device accepts

VARIABLES
  owner,      \* the connection granted, or NoConnection
  sent,       \* commands on their way on each connection; asked: waited for
  settings, streaming,   \* of the device
  told        \* the verdict on the command waited for, "none" until then

directVars == <<owner, sent, settings, streaming, told>>

NothingSent == [c \in Conns |-> <<>>]
DirectInit ==
  /\ owner = NoConnection /\ sent = NothingSent
  /\ settings \in Acceptable /\ streaming = FALSE /\ told = "none"

Grant ==
  /\ owner = NoConnection /\ owner' \in Conns
  /\ UNCHANGED <<sent, settings, streaming, told>>

Close(c) ==
  /\ owner' = (IF c = owner THEN NoConnection ELSE owner)
  /\ sent' = [sent EXCEPT ![c] = <<>>]
  /\ UNCHANGED <<settings, streaming, told>>

\* A command on its way, waited for or not.
marked(command, waited) ==
  [kind |-> command.kind, settings |-> command.settings, asked |-> waited]
\* Nothing on its way is waited for any more.
forgotten ==
  [c \in Conns |-> [i \in 1 .. Len(sent[c]) |-> marked(sent[c][i], FALSE)]]

\* A command is sent, and waited for from now on.
Ask(c) ==
  /\ told' = "none" /\ UNCHANGED <<owner, settings, streaming>>
  /\ \E command \in Commands :
       sent' = [forgotten EXCEPT ![c] = Append(@, marked(command, TRUE))]

\* A wait ends, or its command can no longer arrive.
Forget ==
  /\ told' \in {told, "none"} /\ UNCHANGED <<owner, settings, streaming>>
  /\ sent' = forgotten

\* Neither configuration nor start while streaming; settings must be acceptable.
permitted(command) ==
  /\ command.kind \in {"configure", "start"} => ~streaming
  /\ command.kind = "configure" => command.settings \in Acceptable

Act(command) ==
  /\ settings' = IF command.kind = "configure" /\ permitted(command)
                   THEN command.settings ELSE settings
  /\ streaming' = \/ streaming /\ command.kind # "stop"
                  \/ command.kind = "start" /\ permitted(command)

\* The answer may be lost on its way back.
Deliver ==
  /\ owner # NoConnection /\ sent[owner] # <<>>
  /\ sent' = [sent EXCEPT ![owner] = Tail(@)]
  /\ LET command == Head(sent[owner]) IN
     /\ Act(command)
     /\ \/ told' = told
        \/ /\ command.asked
           /\ told' = IF permitted(command) THEN "executed" ELSE "refused"
  /\ UNCHANGED owner

\* The radio starts again, and knows nothing of what was sent to it.
Restart ==
  /\ owner' = NoConnection /\ sent' = NothingSent
  /\ settings' \in Acceptable /\ streaming' = FALSE
  /\ UNCHANGED told

DirectNext ==
  \/ Forget \/ Grant \/ Deliver \/ Restart
  \/ \E c \in Conns : Close(c) \/ Ask(c)

DirectSpec == DirectInit /\ [][DirectNext]_directVars
=============================================================================

-------------------------- MODULE ProfileSwitcher --------------------------
(***************************************************************************)
(* The popup's profile switcher (popup/views/profiles.ts): one session per *)
(* open overlay, with at most one command that waits for the helper.  The  *)
(* session is a value; what the switcher does with it are operators on it. *)
(* A state of the popup is a record [up, current, profiles, diag]: whether *)
(* the helper is available, the profile and the profiles it last listed,   *)
(* and the command whose error is the newest diagnostic.                   *)
(***************************************************************************)
EXTENDS Naturals, FiniteSets

None == "none"
NoIdentity == ""      \* the id of a profile that has not logged in

Switch(id) == [type |-> "switch-profile", id |-> id]
Delete(id) == [type |-> "delete-profile", id |-> id]
NoCommand == [type |-> None, id |-> NoIdentity]
Commands(Ids) == {Switch(id) : id \in Ids} \cup {Delete(id) : id \in Ids}

Feedback == {"", "lost", "failed", "timeout"}
Closed == [open |-> FALSE, pending |-> NoCommand, confirmed |-> NoIdentity,
           diagnostic |-> None, feedback |-> ""]
Sessions(Ids, Diagnostics) ==
    [open : BOOLEAN, pending : Commands(Ids) \cup {NoCommand},
     confirmed : Ids \cup {NoIdentity}, diagnostic : Diagnostics,
     feedback : Feedback]

\* The session of a switcher that opens.
Opened(state) ==
    [open |-> TRUE, pending |-> NoCommand, confirmed |-> state.current,
     diagnostic |-> state.diag, feedback |-> ""]

\* A command is confirmed by what the helper lists, never by an answer.
ConfirmedBy(command, state) ==
    IF command.type = "switch-profile" THEN state.current = command.id
                                       ELSE command.id \notin state.profiles
\* An error counts when it is new since the session last looked, and about a
\* command of this kind: errors do not say which request they answer.
ErrorCounts(session, state) ==
    state.diag # session.diagnostic /\ state.diag = session.pending.type

EndedSilently(session, feedback) ==
    [session EXCEPT !.pending = NoCommand, !.feedback = ""]
Ended(session, feedback) ==
    [session EXCEPT !.pending = NoCommand, !.feedback = feedback]
Settled(session, state) ==
    CASE session.pending = NoCommand -> session
      [] session.pending # NoCommand /\ ~state.up -> Ended(session, "lost")
      [] /\ session.pending # NoCommand /\ state.up
         /\ ConfirmedBy(session.pending, state) -> Ended(session, "")
      [] /\ session.pending # NoCommand /\ state.up
         /\ ~ConfirmedBy(session.pending, state)
         /\ ErrorCounts(session, state) -> Ended(session, "failed")
      [] OTHER -> session

\* renderProfiles(): called with every state while the switcher is open.
Rendered(session, state) ==
    LET settled == Settled(session, state)
        noticed == [settled EXCEPT !.diagnostic = state.diag]
        moved == settled.pending = NoCommand /\ settled.confirmed # state.current
    IN  IF ~session.open THEN session
        ELSE IF state.current = NoIdentity THEN noticed
        ELSE [noticed EXCEPT !.confirmed = state.current,
                             !.feedback = IF moved THEN "" ELSE @]

\* What the rows and the add button let the user do.
CanRunCommand(session, state) ==
    session.open /\ session.pending = NoCommand /\ state.up
Offered(session, state) ==
    {Switch(id) : id \in state.profiles \ {session.confirmed}}
      \cup IF Cardinality(state.profiles) > 1
           THEN {Delete(id) : id \in state.profiles \ {session.confirmed}}
           ELSE {}
Begun(session, command, state) ==
    Rendered([session EXCEPT !.pending = command, !.feedback = ""], state)
=============================================================================

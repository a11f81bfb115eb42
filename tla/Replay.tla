------------------------------- MODULE Replay -------------------------------
(***************************************************************************)
(* replay(): a scenario made from a fault in a trace by narrowing the      *)
(* scenario that fired to the coordinate it fired at.  The session is run  *)
(* again up to that event; as nothing else differs the new scenario sees   *)
(* the same events, and fires at the first that it matches.  After a       *)
(* PortalSuspended the index of the statement stands still and its rows    *)
(* are numbered anew, so that coordinates of events before it may repeat:  *)
(* the claim is about those after it.                                      *)
(***************************************************************************)
EXTENDS Session

VARIABLE past      \* the reliable events since a portal was last suspended

ReplayedAnyRow(s, e) ==                                   \* mutant: the row not narrowed
    [s EXCEPT !.selector =
         [application_name |-> e.startup.application_name, user |-> e.startup.user,
          database |-> e.startup.database, connection_ordinal |-> @.connection_ordinal,
          transaction |-> e.epoch, query_cycle |-> e.cycle, statement |-> e.index,
          sql_fingerprint |-> e.stmt],
       !.when.event = e.event, !.when.occurrence = 1]

Replayed(s, e) ==
    [s EXCEPT !.selector =
         [application_name |-> e.startup.application_name, user |-> e.startup.user,
          database |-> e.startup.database, connection_ordinal |-> @.connection_ordinal,
          transaction |-> e.epoch, query_cycle |-> e.cycle, statement |-> e.index,
          sql_fingerprint |-> e.stmt],
       !.when.event = e.event, !.when.occurrence = 1, !.when.row = e.row]

ReplayInit == SessionInit /\ past = {}

PortalSuspended == Handled /\ reply'.frame.tag = "s"

ReplayNext ==
    /\ SessionNext
    /\ past' = (IF PortalSuspended THEN {} ELSE past) \cup {e \in NewEvents : e.reliable}

ReplaySpec == ReplayInit /\ [][ReplayNext]_<<sessionVars, past>>

(***************************************************************************)
(* A scenario that fires, whatever its selector and occurrence were.       *)
(***************************************************************************)
Fault(event, ordinal) ==
    [selector |-> [application_name |-> None, user |-> None, database |-> None,
                   connection_ordinal |-> ordinal, transaction |-> None,
                   query_cycle |-> None, statement |-> None, sql_fingerprint |-> None],
     when |-> [event |-> event, occurrence |-> None, statement_class |-> {}, row |-> None],
     action |-> [suppress |-> TRUE, disconnect |-> None, delay |-> None,
                 truncate_result |-> None]]

(***************************************************************************)
(* A replay hits the event its fault was recorded at: for any event a      *)
(* scenario may have fired at, the scenario replay() makes of it is valid, *)
(* matches that event and none before it.                                  *)
(***************************************************************************)
ReplayExact ==
    [][\A e \in NewEvents : e.reliable =>
          LET s == Replayed(Fault(e.event, None), e)
          IN  /\ Valid(s)
              /\ Matches(s, NewMatcher, e)
              /\ PortalSuspended \/ \A p \in past : ~Matches(s, NewMatcher, p)]_<<sessionVars, past>>

(***************************************************************************)
(* "never process-global connection numbers": a replayed scenario fires on *)
(* the connection that has the coordinate, whatever its ordinal is. Does   *)
(* not hold (ReplayOrdinal.cfg): the ordinal is kept.                      *)
(***************************************************************************)
OrdinalsIgnored ==
    \A e \in past : \A id \in {e.connection_id, e.connection_id + 1} :
        Matches(Replayed(Fault(e.event, e.connection_id), e), NewMatcher,
                [e EXCEPT !.connection_id = id])
=============================================================================

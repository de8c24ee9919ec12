----------------------------- MODULE CatchPortal -----------------------------
(***************************************************************************)
(* The owner's portal of a CATCH, on top of CatchInbox: one page of events *)
(* with a cursor, the cursors of the pages before it and the cursor of the *)
(* next one.  A click changes the cursors at once, a button is enabled or  *)
(* disabled when a page is rendered.  Nothing keeps a second load from     *)
(* starting while one is under way, and each answer is rendered when it    *)
(* arrives, so answers of two clicks may come in any order.  The status    *)
(* request after each load only repaints the meters; it is one of Manage's. *)
(***************************************************************************)
EXTENDS CatchInbox, Sequences, SequencesExt

CONSTANT MaxBack  \* bounds the pages one can go back

ASSUME PortalAssumption == MaxBack \in Nat

VARIABLES
  portal,  \* currentCursor, nextCursor, cursorHistory; if Previous is enabled
  late,    \* history: requests whose load started before the last reset
  walk     \* history: what the walk since then still has to show

portalVars == <<portal, late, walk>>
allVars == <<vars, portalVars>>

Fresh == [current |-> NoEvent, next |-> NoEvent, back |-> <<>>, previous |-> TRUE]
NewWalk(wanted) == [begun |-> FALSE, missing |-> wanted]
NoWalk == NewWalk({})

PortalInit == Init /\ portal = Fresh /\ late = {} /\ walk = NoWalk
-----------------------------------------------------------------------------
Loading == {r \in Requests : job[r].kind = "list"}

(* The first load, Refresh, and every change of a filter: from the newest  *)
(* event again.                                                            *)
ResetAndLoadEvents(r) ==
  /\ List(r, NoEvent)
  /\ ~Answered(r, "delete")
  /\ portal' = [Fresh EXCEPT !.previous = portal.previous]
  /\ late' = Loading
  /\ walk' = NewWalk(DOMAIN events)

(* nextCursor stays what it was until the load is answered, and a second   *)
(* click goes to the same page again.                                      *)
NextPage(r) ==
  /\ portal.next # NoEvent
  /\ Len(portal.back) < MaxBack
  /\ List(r, portal.next)
  /\ ~Answered(r, "delete")
  /\ portal' = [portal EXCEPT !.back = Append(@, portal.current),
                              !.current = portal.next]
  /\ UNCHANGED <<late, walk>>

PreviousPage(r) ==
  /\ portal.previous /\ portal.back # <<>>
  /\ List(r, Last(portal.back))
  /\ ~Answered(r, "delete")
  /\ portal' = [portal EXCEPT !.back = Front(@), !.current = Last(portal.back)]
  /\ UNCHANGED <<late, walk>>

(* A page replaces the one before, whichever load it answers.  A walk that *)
(* an earlier one's answer has overtaken is not followed any further.      *)
Rendered(page) ==
  [portal EXCEPT !.next = page.next, !.previous = portal.back # <<>>]

LoadEvents(r) ==
  /\ Answered(r, "list")
  /\ Receive(r)
  /\ portal' = Rendered(answer[r])
  /\ late' = late \ {r}
  /\ walk' = IF r \in late THEN NoWalk
             ELSE [begun |-> TRUE, missing |-> walk.missing \ answer[r].events]

(* An event is deleted, and the current page loaded again.                 *)
DeleteAndReload(r) ==
  /\ Answered(r, "delete")
  /\ List(r, portal.current)
  /\ UNCHANGED portalVars
-----------------------------------------------------------------------------
(* A request that ends without a page leaves the portal as it is.          *)
Elsewhere ==
  /\ Inbox
  /\ UNCHANGED portal
  /\ walk' = [walk EXCEPT !.missing = @ \cap DOMAIN events']
  /\ late' = {r \in late : job'[r].kind = "list"}

PortalNext ==
  \/ \E r \in Requests : \/ ResetAndLoadEvents(r) \/ NextPage(r) \/ PreviousPage(r)
                         \/ LoadEvents(r) \/ DeleteAndReload(r)
  \/ Elsewhere

PortalSpec == PortalInit /\ [][PortalNext]_allVars

-----------------------------------------------------------------------------
(* Paging misses nothing: of the events that were there when the walk was  *)
(* started and still are, the portal has shown every one that the next     *)
(* page does not begin below, whatever arrived, was deleted, failed or was *)
(* clicked twice, and in whatever order the loads of this walk were        *)
(* answered.  Nothing is said of a walk that the late answer of a load     *)
(* from before it has overtaken: Next goes by that answer's cursor then,   *)
(* and may skip events.                                                    *)
PagingMissesNothing ==
  walk.begun =>
    \A n \in walk.missing : portal.next # NoEvent /\ n < portal.next
=============================================================================

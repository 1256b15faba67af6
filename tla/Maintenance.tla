----------------------------- MODULE Maintenance -----------------------------
(***************************************************************************)
(* Maintenance windows (pkg/store/maintenance.go) and what keeps a page    *)
(* from being sent: the windows of the node's owner, the owner's settings, *)
(* a snooze and the cooldown of an incident that is still open.            *)
(*                                                                         *)
(* Every operation is one critical section of p.mu, so each is one action; *)
(* what is hard is the order of operators', janitor's and alerts' steps    *)
(* and the clock.  A write that fails leaves everything as it was; a read  *)
(* that fails on the way to a page is ignored, to another effect for each. *)
(* Each node has one condition that is raised, of one severity; how an     *)
(* incident is raised and resolved is Incidents'.                          *)
(***************************************************************************)
EXTENDS Clock, FiniteSets

CONSTANTS
  Operators, Admin,    \* users; Admin is the user with id 1
  Hosts,               \* nodes, by name
  Names,               \* what operators list as names of nodes
  TrimSpace,           \* a name without the blanks at its ends
  NoHost,              \* the empty name
  OwnerOf,             \* node_owners
  Windows,             \* rows the table can hold at once
  NoWindow,
  PageGap,            \* cooldownFor the severity
  SnoozeChoices,       \* the durations of the snooze buttons
  MaxListed,           \* LIMIT of ListMaintenanceWindows
  Ahead                \* bound: how far ahead a window is scheduled

ASSUME MaintenanceAssumption ==
  /\ Admin \in Operators
  /\ OwnerOf \in [Hosts -> Operators]
  /\ Hosts \subseteq Names /\ NoHost \notin Names
  /\ TrimSpace \in [Names -> Names \cup {NoHost}]
  /\ \A n \in Hosts : TrimSpace[n] # NoHost
  /\ MaxListed \in Nat
  /\ PageGap \in Nat \ {0} /\ Ahead \in Nat
  /\ SnoozeChoices \subseteq {s \in Nat : s >= PageGap}

VARIABLES
  window,      \* maintenance_windows
  alert,       \* the incident of a node: [open, last (last_notified_at), snoozed (snoozed_until)]
  notify,      \* user_settings: whether the severity is notified
  declared,    \* history: what operators have declared, whatever became of the row
  quiet,       \* history: the last instant an operator's wish, or a failed read, kept a node quiet
  paged,       \* history: when a node was last paged
  last         \* history: what the last step raised

maintVars == <<now, window, alert, notify, declared, quiet, paged, last>>

(* 0 stands for no instant in the table, so the clock is read as of 1.     *)
Unix == now + 1
Seconds == 0 .. MaxTime + 1

(* What a window is for: all its owner's nodes or those listed, by names   *)
(* that are stored as they came.                                           *)
Scopes == [scope : {"user"}, nodes : {{}}] \cup [scope : {"node"}, nodes : SUBSET Names]

MaintRows == [user : Operators, for : Scopes, start : Seconds, end : Seconds]

ASSUME NoWindowAssumption == NoWindow \notin MaintRows

Accepted(w) ==
  /\ w.for.scope = "node" => w.for.nodes # {}
  /\ w.end = 0 \/ w.end >= w.start

Closed == [open |-> FALSE, last |-> 0, snoozed |-> 0]
Quietly == [host |-> NoHost, page |-> FALSE, unread |-> "nothing"]

Covers(w, u, n) == w.user = u /\ (w.for.scope = "user" \/ n \in w.for.nodes)

\* Bug: a window silences as soon as it is created.
ActiveEarly(w) == w.end = 0 \/ w.end > Unix
Active(w) == w.start <= Unix /\ (w.end = 0 \/ w.end > Unix)

Present == {w \in Windows : window[w] # NoWindow}

(* isNodeSilencedLocked.                                                   *)
IsNodeSilenced(u, n) == \E w \in Present : Active(window[w]) /\ Covers(window[w], u, n)

(* Whether operators want n to be quiet now.                               *)
InDeclared(n) ==
  \E w \in Windows :
    LET d == declared[w] IN
      /\ d # NoWindow
      /\ Covers(d, OwnerOf[n], n)
      /\ d.start <= Unix /\ (d.end = 0 \/ Unix < d.end)

-----------------------------------------------------------------------------
CreateMaintenanceWindow(w, u, for, start, end) ==
  LET row == [user |-> u, for |-> for, start |-> start, end |-> end] IN
  /\ window[w] = NoWindow
  /\ Accepted(row)
  /\ window' = [window EXCEPT ![w] = row]
  /\ declared' = [declared EXCEPT ![w] = row]
  /\ last' = Quietly
  /\ UNCHANGED <<now, alert, notify, quiet, paged>>

May(u, w) == u = Admin \/ window[w].user = u

CloseMaintenanceWindow(w, u) ==
  /\ window[w] # NoWindow /\ May(u, w)
  /\ window[w].end = 0
  /\ window' = [window EXCEPT ![w].end = Unix]
  /\ declared' = [declared EXCEPT ![w].end = Unix]
  /\ last' = Quietly
  /\ UNCHANGED <<now, alert, notify, quiet, paged>>

DeleteMaintenanceWindow(w, u) ==
  /\ window[w] # NoWindow /\ May(u, w)
  /\ window' = [window EXCEPT ![w] = NoWindow]
  /\ declared' = [declared EXCEPT ![w] = NoWindow]
  /\ last' = Quietly
  /\ UNCHANGED <<now, alert, notify, quiet, paged>>

\* Bug: an open end is taken for one long past.
ExpiredWindowsOpenToo == {w \in Present : window[w].end < Unix}
ExpiredWindows == {w \in Present : window[w].end > 0 /\ window[w].end < Unix}

(* janitorTick's DELETE, which takes a window that was closed early with   *)
(* the others.                                                             *)
ExpireWindows ==
  /\ ExpiredWindows # {}
  /\ window' = [w \in Windows |-> IF w \in ExpiredWindows THEN NoWindow ELSE window[w]]
  /\ last' = Quietly
  /\ UNCHANGED <<now, alert, notify, declared, quiet, paged>>

UpdateSettings(u, on) ==
  /\ notify[u] # on
  /\ notify' = [notify EXCEPT ![u] = on]
  /\ last' = Quietly
  /\ UNCHANGED <<now, window, alert, declared, quiet, paged>>

-----------------------------------------------------------------------------
(* Cooldown and snooze of an open incident.                                *)
Due(n) ==
  \/ ~alert[n].open
  \/ alert[n].snoozed <= Unix /\ (alert[n].last = 0 \/ Unix - alert[n].last >= PageGap)

Wanted(u) == notify[u]

(* What notifyAfterCreate cannot read: an owner is taken for the           *)
(* administrator, settings for none, which pages nobody, and windows for   *)
(* none, which pages.                                                      *)
Unread == {"nothing", "owner", "settings", "windows"}

(* CreateIncident: the row says notified whether or not notifyAfterCreate  *)
(* finds the owner's settings or a window in the way.                      *)
Raise(n, unread) ==
  LET u == IF unread = "owner" THEN Admin ELSE OwnerOf[n]
      page == /\ Due(n)
              /\ unread # "settings" /\ Wanted(u)
              /\ unread = "windows" \/ ~IsNodeSilenced(u, n) IN
  /\ alert' = [alert EXCEPT ![n] = IF ~@.open THEN [Closed EXCEPT !.open = TRUE, !.last = Unix]
                                   ELSE IF Due(n) THEN [@ EXCEPT !.last = Unix] ELSE @]
  /\ last' = [host |-> n, page |-> page, unread |-> unread]
  /\ paged' = IF page THEN [paged EXCEPT ![n] = Unix] ELSE paged
  /\ quiet' = IF InDeclared(n) \/ ~notify[OwnerOf[n]] \/ alert[n].snoozed > Unix \/ unread # "nothing"
              THEN [quiet EXCEPT ![n] = Unix] ELSE quiet
  /\ UNCHANGED <<now, window, notify, declared>>

Resolves(n) ==
  /\ alert[n].open
  /\ alert' = [alert EXCEPT ![n] = Closed]
  /\ last' = Quietly
  /\ UNCHANGED <<now, window, notify, declared, quiet, paged>>

(* Counts from now, whatever an earlier snooze had left.                   *)
Snooze(n, s) ==
  /\ alert[n].open
  /\ alert' = [alert EXCEPT ![n].snoozed = Unix + s, ![n].last = Unix]
  /\ quiet' = [quiet EXCEPT ![n] = Unix]
  /\ last' = Quietly
  /\ UNCHANGED <<now, window, notify, declared, paged>>

MaintPasses ==
  /\ Passes
  /\ last' = Quietly
  /\ UNCHANGED <<window, alert, notify, declared, quiet, paged>>

MaintStarts ==
  /\ window = [w \in Windows |-> NoWindow]
  /\ alert = [n \in Hosts |-> Closed]
  /\ notify = [u \in Operators |-> TRUE]
  /\ declared = window
  /\ quiet = [n \in Hosts |-> 0]
  /\ paged = quiet
  /\ last = Quietly

MaintInit == ClockInit /\ MaintStarts

Starts == {s \in Seconds : s >= Unix /\ s <= Unix + Ahead}
Ends == {0} \cup {s \in Seconds : s >= Unix /\ s <= Unix + Ahead + 1}

MaintNext ==
  \/ \E w \in Windows, u \in Operators :
       \/ \E for \in Scopes, start \in Starts, end \in Ends :
            CreateMaintenanceWindow(w, u, for, start, end)
       \/ CloseMaintenanceWindow(w, u)
       \/ DeleteMaintenanceWindow(w, u)
  \/ ExpireWindows
  \/ \E u \in Operators, on \in BOOLEAN : UpdateSettings(u, on)
  \/ \E n \in Hosts :
       \/ \E unread \in Unread : Raise(n, unread)
       \/ Resolves(n)
       \/ \E s \in SnoozeChoices : Snooze(n, s)
  \/ MaintPasses

MaintSpec == MaintInit /\ [][MaintNext]_maintVars

-----------------------------------------------------------------------------
(* What users see, when the queries do not fail.                           *)
\* Bug: a window without an end is over.
StillOpenEnding(w) == w.end > Unix
StillOpen(w) == w.end = 0 \/ w.end > Unix

(* The lists a user may be given: of the rows asked for, those that start  *)
(* last, as many as fit.                                                   *)
ListMaintenanceWindows(u, closedOnly) ==
  LET asked == {w \in Present : (u = Admin \/ window[w].user = u) /\ (closedOnly \/ StillOpen(window[w]))}
  IN {list \in SUBSET asked :
        /\ Cardinality(list) <= MaxListed
        /\ list = asked \/ Cardinality(list) = MaxListed
        /\ \A w \in list, other \in asked \ list : window[other].start <= window[w].start}

(* No LIMIT, and the names trimmed.                                        *)
Notice(w) == [id |-> w, scope |-> window[w].for.scope, active |-> Active(window[w]),
              nodes |-> {TrimSpace[n] : n \in window[w].for.nodes} \ {NoHost}]

GetPublicMaintenanceWindows == {Notice(w) : w \in {v \in Present : StillOpen(window[v])}}

-----------------------------------------------------------------------------
MaintTypeOK ==
  /\ now \in Instants
  /\ window \in [Windows -> MaintRows \cup {NoWindow}]
  /\ declared \in [Windows -> MaintRows \cup {NoWindow}]
  /\ alert \in [Hosts -> [open : BOOLEAN, last : Seconds, snoozed : Nat]]
  /\ notify \in [Operators -> BOOLEAN]
  /\ quiet \in [Hosts -> Seconds] /\ paged \in [Hosts -> Seconds]
  /\ \A n \in Hosts : {alert[n].last, quiet[n], paged[n]} \subseteq 0 .. Unix
  /\ \A n \in Hosts : ~alert[n].open => alert[n] = Closed
  /\ last \in [host : Hosts \cup {NoHost}, page : BOOLEAN, unread : Unread]

(* No page is sent for a node while its owner has declared a window for it *)
(* and neither closed nor deleted it, whatever the janitor, other users or *)
(* settings do in the meantime, as long as its owner and the windows can   *)
(* be read.                                                                *)
NoPageInWindow == last.page /\ last.unread = "nothing" => ~InDeclared(last.host)

(* A quiet that nobody asked for does not last: when a condition is raised *)
(* that was neither paged nor wanted quiet by its owner for a cooldown,    *)
(* the page goes out now.  A page that a failed read lost costs one        *)
(* cooldown, no more.                                                      *)
QuietOnlyAsAsked ==
  last.host # NoHost =>
    \/ Unix - paged[last.host] < PageGap /\ paged[last.host] # 0
    \/ Unix - quiet[last.host] < PageGap /\ quiet[last.host] # 0

(* No silence is hidden, and none is only announced.  A window that        *)
(* silences a node is public, as active and under the node's name, and its *)
(* owner's list leaves it out only when it is full of windows that start   *)
(* no earlier.  And a node that a public notice of its owner's window      *)
(* names as in maintenance is silenced, unless the operator wrote blanks   *)
(* around a name, which the page trims and isNodeSilencedLocked does not.  *)
Announced(w, n) ==
  \E notice \in GetPublicMaintenanceWindows :
    notice.id = w /\ notice.active /\ (notice.scope = "user" \/ TrimSpace[n] \in notice.nodes)

Listed(w, u) ==
  \A list \in ListMaintenanceWindows(u, FALSE) :
    \/ w \in list
    \/ Cardinality(list) = MaxListed /\ \A v \in list : window[v].start >= window[w].start

SilenceVisible ==
  \A w \in Present, n \in Hosts :
    LET silences == Active(window[w]) /\ Covers(window[w], OwnerOf[n], n) IN
    /\ silences => Announced(w, n) /\ Listed(w, OwnerOf[n])
    /\ /\ Announced(w, n) /\ window[w].user = OwnerOf[n]
       /\ \A name \in window[w].for.nodes \cup {n} : TrimSpace[name] = name
       => IsNodeSilenced(OwnerOf[n], n)
=============================================================================

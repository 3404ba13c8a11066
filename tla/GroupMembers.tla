---------------------------- MODULE GroupMembers ----------------------------
(***************************************************************************)
(* Editing the members of one group: GroupsMembersComponent.               *)
(*                                                                         *)
(* ngOnInit loads the users (for the autocomplete) and the group's         *)
(* members.  The admin picks users into the chip list and removes chips;   *)
(* a removed chip is pushed on membersDrop, which nothing ever clears.     *)
(* onSubmit sends a "drop" call for every user on membersDrop and an       *)
(* "update" call for every chip, all at once; the answer of each update    *)
(* calls getMembers(), whose answer replaces the chip list.  The backend   *)
(* (outside src/) is the group's membership table: it applies a call when  *)
(* it serves it, and calls are served and answered in any order.           *)
(***************************************************************************)
EXTENDS Naturals, Bags, BagsExt

CONSTANTS
    Users,        \* users of the system (model values)
    NoUser,       \* model value: the user field of calls about no user
    MaxMembers,   \* bound on the chips in the list
    MaxSubmits,   \* bound on onSubmit() calls
    CallsMayFail  \* transport failures: no callback runs

ASSUME MaxMembers \in Nat /\ MaxSubmits \in Nat /\ CallsMayFail \in BOOLEAN
ASSUME NoUser \notin Users

\* An FDBRequest of GroupsMembersComponent: the operation and table it
\* names ("users" is the view of the users table), the user it is about,
\* the rows of a served view, and whether the backend has served it.
Call == [op : {"users", "view", "drop", "update"}, user : Users \cup {NoUser},
         rows : SUBSET Users, served : BOOLEAN]

NewCall(op, u) == [op |-> op, user |-> u, rows |-> {}, served |-> FALSE]

VARIABLES
    table,          \* the group's members in the backend's Members table
    members,        \* bag of users: the chip list (this.members)
    membersDrop,    \* users pushed on this.membersDrop
    usersLoaded,    \* this.users holds the users table
    calls,          \* bag of FDBRequest calls in flight
    submits,        \* onSubmit() calls so far
    lastSubmitted   \* the users of the chip list at the last onSubmit()

vars == <<table, members, membersDrop, usersLoaded, calls, submits,
          lastSubmitted>>

-----------------------------------------------------------------------------
\* ngOnInit() of an admin: getUsers() and getMembers() are in flight.
Init ==
    /\ table \in SUBSET Users
    /\ members = EmptyBag
    /\ membersDrop = {}
    /\ usersLoaded = FALSE
    /\ calls = SetToBag({NewCall("users", NoUser), NewCall("view", NoUser)})
    /\ submits = 0
    /\ lastSubmitted = {}

\* add(member): a member given by the chip input is pushed when it is set
\* and its Id is not the string 'undefined'; a user always passes.
Add(u) ==
    /\ BagCardinality(members) < MaxMembers
    /\ members' = BagAdd(members, u)
    /\ UNCHANGED <<table, membersDrop, usersLoaded, calls, submits,
                   lastSubmitted>>

\* selected(event): the admin picks a user of the autocomplete list, which
\* is filtered from this.users.
Selected(u) ==
    /\ usersLoaded
    /\ BagCardinality(members) < MaxMembers
    /\ members' = BagAdd(members, u)
    /\ UNCHANGED <<table, membersDrop, usersLoaded, calls, submits,
                   lastSubmitted>>

\* A variant of remove() without the `index >= 0` test: for a user not in
\* the list, members[-1] (undefined) is pushed and splice(-1, 1) removes the
\* last chip.
RemoveNoIndexCheck(u) ==
    IF BagIn(u, members)
    THEN /\ members' = BagRemove(members, u)
         /\ membersDrop' = membersDrop \cup {u}
         /\ UNCHANGED <<table, usersLoaded, calls, submits, lastSubmitted>>
    ELSE /\ membersDrop' = membersDrop \cup {NoUser}
         /\ \/ members = EmptyBag /\ members' = members
            \/ \E w \in BagToSet(members) : members' = BagRemove(members, w)
         /\ UNCHANGED <<table, usersLoaded, calls, submits, lastSubmitted>>

\* remove(member): one chip leaves the list and is pushed on membersDrop.
Remove(u) ==
    /\ BagIn(u, members)
    /\ members' = BagRemove(members, u)
    /\ membersDrop' = membersDrop \cup {u}
    /\ UNCHANGED <<table, usersLoaded, calls, submits, lastSubmitted>>

\* The update calls of onSubmit's loop: one per chip.
UpdateCalls == [c \in {NewCall("update", u) : u \in BagToSet(members)} |->
                    members[c.user]]

\* deleteMembers(): a drop call per user on membersDrop.
DropCalls == SetToBag({NewCall("drop", u) : u \in membersDrop})

\* onSubmit(): deleteMembers(), then the loop sends an update per chip.
Submit ==
    /\ submits < MaxSubmits
    /\ submits' = submits + 1
    /\ calls' = calls (+) DropCalls (+) UpdateCalls
    /\ lastSubmitted' = BagToSet(members)
    /\ UNCHANGED <<table, members, membersDrop, usersLoaded>>

\* The backend serves a call.  A drop deletes the row, an update stores it,
\* a view reads the table.  The callback of a drop only shows a message, so
\* a served drop leaves nothing in flight.
Serve(c) ==
    /\ ~c.served
    /\ table' = CASE c.op = "drop"   -> table \ {c.user}
                  [] c.op = "update" -> table \cup {c.user}
                  [] OTHER           -> table
    /\ calls' = IF c.op = "drop" THEN BagRemove(calls, c)
                ELSE BagAdd(BagRemove(calls, c),
                            [c EXCEPT !.served = TRUE,
                                      !.rows = IF c.op = "view" THEN table
                                               ELSE {}])
    /\ UNCHANGED <<members, membersDrop, usersLoaded, submits, lastSubmitted>>

\* The callback of an update: getMembers().
DeliverUpdate(c) ==
    /\ c.served /\ c.op = "update"
    /\ calls' = BagAdd(BagRemove(calls, c), NewCall("view", NoUser))
    /\ UNCHANGED <<table, members, membersDrop, usersLoaded, submits,
                   lastSubmitted>>

\* The callback of getMembers(): `if (data) this.members = data`.  An empty
\* table may be answered with no rows or with null, which leaves the list.
DeliverView(c) ==
    /\ c.served /\ c.op = "view"
    /\ calls' = BagRemove(calls, c)
    /\ IF c.rows = {} THEN members' \in {members, EmptyBag}
                      ELSE members' = SetToBag(c.rows)
    /\ UNCHANGED <<table, membersDrop, usersLoaded, submits, lastSubmitted>>

\* The callback of getUsers(): this.users = data.
DeliverUsers(c) ==
    /\ c.served /\ c.op = "users"
    /\ calls' = BagRemove(calls, c)
    /\ usersLoaded' = TRUE
    /\ UNCHANGED <<table, members, membersDrop, submits, lastSubmitted>>

\* A call whose transport fails, before or after it was served.
Fail(c) ==
    /\ CallsMayFail
    /\ calls' = BagRemove(calls, c)
    /\ UNCHANGED <<table, members, membersDrop, usersLoaded, submits,
                   lastSubmitted>>

Next ==
    \/ \E u \in Users : Add(u) \/ Selected(u) \/ Remove(u)
    \/ Submit
    \/ \E c \in BagToSet(calls) :
         Serve(c) \/ DeliverUpdate(c) \/ DeliverView(c) \/ DeliverUsers(c)
         \/ Fail(c)

\* The backend serves every call and the browser runs every callback; the
\* admin's edits and submits are not forced.
Fairness ==
    /\ WF_vars(\E c \in BagToSet(calls) : Serve(c))
    /\ WF_vars(\E c \in BagToSet(calls) :
                 DeliverUpdate(c) \/ DeliverView(c) \/ DeliverUsers(c))

Spec == Init /\ [][Next]_vars /\ Fairness

-----------------------------------------------------------------------------
(* Properties                                                              *)

TypeOK ==
    /\ table \subseteq Users
    /\ IsABag(members) /\ BagToSet(members) \subseteq Users
    /\ BagCardinality(members) \in 0..MaxMembers
    /\ membersDrop \subseteq Users
    /\ usersLoaded \in BOOLEAN
    /\ IsABag(calls) /\ BagToSet(calls) \subseteq Call
    /\ submits \in 0..MaxSubmits
    /\ lastSubmitted \subseteq Users

\* Once the drops and updates of the submits have all been served, every
\* user in the chip list at the last submit is a member in the backend:
\* saving a list keeps the members it shows.  It is about deleteMembers()
\* dropping every user ever removed, including those picked again.
SubmittedMembersAreStored ==
    (\A c \in BagToSet(calls) : c.op \notin {"drop", "update"})
        => lastSubmitted \subseteq table

=============================================================================

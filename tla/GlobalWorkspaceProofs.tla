----------------------- MODULE GlobalWorkspaceProofs -----------------------
(***************************************************************************)
(* Coordinated Workspaces and the changes of their default directories,    *)
(* for any Workspaces, Nodes, operations, owner Workspaces and handlers.   *)
(***************************************************************************)
EXTENDS WorkspaceCwd, FiniteSetTheorems, TLAPS

\* What a handler, a request in flight and an operation that is pending know of
\* each other.
CallShape ==
  \A o \in Ops :
    /\ pend[o] # None => req[o] # None
    /\ call[o].pc # "idle" => req[o] # None /\ done[o] = None
    /\ call[o].pc \in {"check", "send", "sent", "verify", "complete"} =>
         pend[o] # None
    /\ call[o].pc = "sent" => pend[o].attempted
    /\ call[o].pc = "local" =>
         o \in Creates /\ req[o].node = Home /\ call[o].seen # None
CloserShape ==
  \A k \in Closers :
    /\ closer[k].pc # "idle" => closer[k].g # None
    /\ closer[k].pc \in {"close", "confirm"} =>
         closer[k].node # None /\ closer[k].owner # None
FlightShape == \A m \in flight : req[m.op] # None
OwnerShape == \A w \in Owners : ~Exists(w) => own[w].holds = {}

\* A creation asks for one resource, of its own ID; a project for a resource
\* of a project, its own or that of the one it joined.
Asks(o, r) == o = r \/ {o, r} \subseteq Projects
\* The same, by the variables that each part depends on.
WsPart == ws \in [Ids -> Workspace \cup {None, Gone}]
CallPart ==
  /\ pend \in [Ops -> Pending \cup {None}] /\ done \in [Ops -> Ids \cup {None}]
  /\ req \in [Ops -> Demand \cup {None}] /\ call \in [Ops -> Call]
  /\ \A o \in Ops : pend[o] = None \/ done[o] = None
  /\ \A o \in Ops : pend[o] # None => Asks(o, pend[o].resource)
  /\ CallShape
CloserPart == closer \in [Closers -> Close] /\ CloserShape
OwnPart == own \in [Owners -> OwnerWorkspace] /\ OwnerShape
FlightPart == /\ flight \subseteq Request /\ FlightShape
              /\ \A m \in flight : Asks(m.op, m.resource)
RestPart == /\ move \in [Moves -> Move \cup {None}]
            /\ blind \subseteq Ops /\ shut \subseteq Owners /\ known \subseteq Nodes
Shapes == /\ WsPart /\ CallPart /\ CloserPart /\ OwnPart /\ FlightPart
          /\ RestPart

\* No owner Workspace belongs to two global Workspaces, and no two of them have
\* the name of the projects.
OneLink ==
  /\ \A g \in Ids, n \in Nodes :
       Live(g) /\ ws[g].at[n] # None => ~LinkedBeyond(g, ws[g].at[n].owner)
  /\ \A g, h \in Ids :
       Live(g) /\ ws[g].project /\ Live(h) /\ ws[h].project => g = h

\* An owner Workspace that a placement or a handler has seen exists until it is
\* closed; its revision only grows, and one revision has one directory.
Seen(w) == Exists(w) \/ w \in shut
Honest(w, revision, cwd) ==
  w \notin shut => /\ revision <= own[w].revision
                   /\ revision = own[w].revision => cwd = own[w].cwd
PlacementsSeen ==
  \A g \in Ids, n \in Nodes : Live(g) /\ ws[g].at[n] # None =>
    LET p == ws[g].at[n] IN Seen(p.owner) /\ Honest(p.owner, p.revision, p.cwd)
CallsSeen ==
  \A o \in Ops : call[o].pc = "complete" =>
    /\ Seen(pend[o].owner)
    /\ Honest(pend[o].owner, call[o].revision, call[o].cwd)
ClosersSeen ==
  \A k \in Closers :
    /\ \A n \in Nodes : closer[k].todo[n] # None => Seen(closer[k].todo[n])
    /\ closer[k].pc = "close" => Seen(closer[k].owner)
    /\ closer[k].pc = "confirm" =>
         closer[k].owner \in shut \/ closer[k].node \notin known

\* An operation whose request may have been applied stays answerable for the
\* resource; a creation that was not sent has created nothing, and neither has
\* one whose only request is in flight.
Answers(o, r) ==
  \/ done[o] # None \/ o \in blind
  \/ pend[o] # None /\ pend[o].attempted /\ pend[o].resource = r
Alone(o, sent) ==
  /\ \A m \in flight : m.op = o => m \in sent
  /\ \A w \in Owners : o \notin own[w].holds
Unsent(o) == /\ done[o] = None /\ o \notin blind
             /\ pend[o] # None => ~pend[o].attempted
Accounted ==
  /\ \A w \in Owners : \A r \in own[w].holds :
       \E o \in Ops : Asks(o, r) /\ Answers(o, r)
  /\ \A m \in flight : Answers(m.op, m.resource)
  /\ \A o \in Creates :
       /\ Unsent(o) => Alone(o, {})
       /\ call[o].pc = "sent" /\ ~call[o].again /\ o \notin blind
            /\ RequestOf(o, FALSE) \in flight => Alone(o, {RequestOf(o, FALSE)})

GInv == /\ Shapes /\ ClosingIsQuiet /\ OwnerShared /\ OneLink
        /\ PlacementsSeen /\ CallsSeen /\ ClosersSeen /\ Accounted

-----------------------------------------------------------------------------
(* The changes of a default directory.                                     *)

Mover == [pc : {"idle", "look", "send", "sent", "complete"}, again : BOOLEAN,
          revision : Nat, cwd : Cwds]
MoveTypeOK ==
  /\ moved \subseteq Moves /\ applied \subseteq Moves /\ unseen \subseteq Moves
  /\ asked \in [Moves -> Move \cup {None}] /\ mover \in [Moves -> Mover]
  /\ guarded \subseteq [op : Moves, again : BOOLEAN]
MoveShape(o) ==
  /\ move[o] # None =>
       asked[o] # None
         /\ move[o] = [asked[o] EXCEPT !.attempted = move[o].attempted]
  /\ mover[o].pc \in {"send", "sent", "complete"} => move[o] # None
  /\ mover[o].pc = "sent" => move[o].attempted
  /\ o \in applied => asked[o] # None
  /\ \A x \in guarded : x.op = o => asked[o] # None
MoveSeen(o) ==
  /\ asked[o] # None =>
       \/ asked[o].owner \in shut
       \/ /\ Exists(asked[o].owner)
          /\ asked[o].revision <= own[asked[o].owner].revision
  /\ mover[o].pc = "complete" =>
       Honest(asked[o].owner, mover[o].revision, mover[o].cwd)

\* An owner Workspace that has gone on to something else never shows what the
\* operation asked for again, and refuses its requests.  A request that may
\* have been applied has an operation that is attempted or over, and the only
\* request of an operation has not been applied while it is in flight.
Superseded(m) == m.revision < own[m.owner].revision /\ ~Reached(m)
Over(o) == \/ o \in moved \cup unseen \/ asked[o].owner \in shut
           \/ Superseded(asked[o])
MoveKept(o) ==
  /\ o \in applied \/ (\E x \in guarded : x.op = o) =>
       Over(o) \/ (move[o] # None /\ move[o].attempted)
  /\ mover[o].pc = "sent" /\ ~mover[o].again
       /\ MoveRequest(o, FALSE) \in guarded =>
       \/ Over(o)
       \/ /\ o \notin applied
          /\ \A x \in guarded : x.op = o => x = MoveRequest(o, FALSE)
MoveOf(o) == MoveShape(o) /\ MoveSeen(o) /\ MoveKept(o)
MoveInv == MoveTypeOK /\ \A o \in Moves : MoveOf(o)

-----------------------------------------------------------------------------
(* What the store's updates leave of a global Workspace.                    *)

\* A global Workspace that is there has the fields of one.
LEMMA LiveFields ==
  ASSUME TypeOK, NEW g \in Ids, Live(g)
  PROVE  /\ ws[g] \in Workspace /\ ws[g].revision \in Nat
         /\ ws[g].closing \in BOOLEAN /\ ws[g].project \in BOOLEAN
         /\ ws[g].at \in [Nodes -> Placement \cup {None}]
         /\ \A n \in Nodes : ws[g].at[n] # None => ws[g].at[n] \in Placement
<1>1. ws[g] \in Workspace BY DEF TypeOK, Live
<1> QED BY <1>1 DEF Workspace

\* A record of the fields of a global Workspace is neither None nor Gone.
LEMMA WorkspaceIsLive ==
  ASSUME NEW w \in Workspace PROVE w # None /\ w # Gone
BY WorkspaceAssumption

\* A new global Workspace is open and has no placement.
LEMMA NewFacts ==
  ASSUME NEW b \in BOOLEAN
  PROVE  /\ NewWorkspace(b) \in Workspace /\ NewWorkspace(b).project = b
         /\ NewWorkspace(b).closing = FALSE
         /\ \A n \in Nodes : NewWorkspace(b).at[n] = None
BY DEF NewWorkspace, Workspace

\* What a mirror of an owner Workspace shows.
LEMMA MirrorFacts ==
  ASSUME NEW w \in Owners, NEW r \in Nat, NEW d \in Cwds
  PROVE  /\ Mirror(w, r, d) \in Placement /\ Mirror(w, r, d) # None
         /\ Mirror(w, r, d).owner = w /\ Mirror(w, r, d).revision = r
         /\ Mirror(w, r, d).cwd = d
<1>1. Mirror(w, r, d) \in Placement BY DEF Mirror, Placement
<1> QED BY <1>1, WorkspaceAssumption DEF Mirror

\* The stored Workspace of the IDs in memory, after g's has become w.
Put(g, w) == [ws EXCEPT ![g] = w]

\* Putting w at g changes nothing else in memory.
LEMMA PutFacts ==
  ASSUME TypeOK, NEW g \in Ids, NEW w \in Workspace \cup {None, Gone},
         ws' = Put(g, w)
  PROVE  /\ ws' \in [Ids -> Workspace \cup {None, Gone}] /\ ws'[g] = w
         /\ \A h \in Ids \ {g} : ws'[h] = ws[h]
BY DEF TypeOK, Put

\* The Workspace g with revision r and, at Node n, placement m.
Placing(g, r, n, m) ==
  [ws[g] EXCEPT !.revision = r, !.at[n] = m]

\* Placing m at n leaves the rest of the Workspace as it was.
LEMMA PlacingFacts ==
  ASSUME TypeOK, NEW g \in Ids, Live(g), NEW r \in Nat, NEW n \in Nodes,
         NEW m \in Placement
  PROVE  /\ Placing(g, r, n, m) \in Workspace
         /\ Placing(g, r, n, m).at[n] = m /\ Placing(g, r, n, m).revision = r
         /\ \A i \in Nodes \ {n} : Placing(g, r, n, m).at[i] = ws[g].at[i]
         /\ Placing(g, r, n, m).closing = ws[g].closing
         /\ Placing(g, r, n, m).project = ws[g].project
BY LiveFields DEF Placing, Workspace

\* complete_resource and its local twin place m at n.
LEMMA PlaceFacts ==
  ASSUME TypeOK, NEW g \in Ids, Live(g), NEW n \in Nodes, NEW m
  PROVE  \E r \in Nat : Place(g, n, m) = Put(g, Placing(g, r, n, m))
<1>1. CASE ws[g].at[n] = None
  <2>1. Place(g, n, m) = Put(g, Placing(g, ws[g].revision + 1, n, m))
    BY <1>1 DEF Place, Put, Placing, TypeOK
  <2> QED BY <2>1, LiveFields
<1>2. CASE ws[g].at[n] # None
  <2>1. Place(g, n, m) = Put(g, Placing(g, ws[g].revision, n, m))
    BY <1>2 DEF Place, Put, Placing, TypeOK
  <2> QED BY <2>1, LiveFields
<1> QED BY <1>1, <1>2

\* link does too.
LEMMA LinkFacts ==
  ASSUME TypeOK, NEW g \in Ids, NEW w \in Owners, Link(g, w)
  PROVE  LET m == Mirror(w, own[w].revision, own[w].cwd) IN
         /\ own[w].node \in Nodes /\ Live(g)
         /\ ws' = Put(g, Placing(g, ws[g].revision + 1, own[w].node, m))
<1>1. Live(g) BY DEF Link
<1>3. own[w].node \in Nodes BY DEF Link, TypeOK
<1> DEFINE n == own[w].node
           m == Mirror(w, own[w].revision, own[w].cwd)
<1>4. ws' = [ws EXCEPT ![g].revision = @ + 1, ![g].at[n] = m] BY DEF Link
<1>5. ws' = Put(g, Placing(g, ws[g].revision + 1, n, m))
  <2> HIDE DEF m, n
  <2> QED BY <1>4 DEF Put, Placing, TypeOK
<1> QED BY <1>1, <1>3, <1>5

\* adopt makes a global Workspace of one placement.
LEMMA AdoptFacts ==
  ASSUME TypeOK, NEW g \in Ids, NEW w \in Owners, Adopt(g, w)
  PROVE  \E W \in Workspace, n \in Nodes :
           /\ ws' = Put(g, W) /\ ~W.closing /\ ~W.project
           /\ W.at[n] = Mirror(w, own[w].revision, own[w].cwd)
           /\ \A i \in Nodes \ {n} : W.at[i] = None
<1> DEFINE n == own[w].node
           m == Mirror(w, own[w].revision, own[w].cwd)
           W == [NewWorkspace(FALSE) EXCEPT !.at[n] = m]
<1>1. n \in Nodes BY DEF Adopt, TypeOK
<1>2. m \in Placement BY MirrorFacts DEF TypeOK, OwnerWorkspace
<1>3. /\ W \in Workspace /\ ~W.closing /\ ~W.project /\ W.at[n] = m
      /\ \A i \in Nodes \ {n} : W.at[i] = None
  <2> HIDE DEF m, n
  <2> QED BY <1>1, <1>2 DEF NewWorkspace, Workspace
<1>4. ws' = Put(g, W) BY DEF Adopt, Put
<1> HIDE DEF W
<1> QED BY <1>1, <1>3, <1>4

\* rename, and the beginning of a close, keep every placement.
LEMMA RenameFacts ==
  ASSUME TypeOK, NEW g \in Ids, Rename(g)
  PROVE  \E W \in Workspace : /\ ws' = Put(g, W) /\ W.at = ws[g].at
                              /\ W.closing = ws[g].closing /\ ~W.project
<1>1. Live(g) BY DEF Rename
<1> DEFINE W == [ws[g] EXCEPT !.revision = @ + 1, !.project = FALSE]
<1>a. ws[g] \in Workspace /\ ws[g].revision + 1 \in Nat BY <1>1, LiveFields
<1>2. /\ W \in Workspace /\ W.at = ws[g].at /\ ~W.project
      /\ W.closing = ws[g].closing
  BY <1>a DEF Workspace
<1>3. ws' = [ws EXCEPT ![g].revision = @ + 1, ![g].project = FALSE]
  BY DEF Rename
<1>4. ws' = Put(g, W) BY <1>3 DEF Put, TypeOK
<1> HIDE DEF W
<1> QED BY <1>2, <1>4

\* begin_close keeps the name and the placements.
LEMMA BeginFacts ==
  ASSUME TypeOK, NEW g \in Ids, NEW k \in Closers, BeginClose(k, g)
  PROVE  \E W \in Workspace : /\ ws' = Put(g, W) /\ W.at = ws[g].at
                              /\ W.project = ws[g].project
<1>1. Live(g) BY DEF BeginClose
<1>2. ws[g] = [revision |-> ws[g].revision, closing |-> ws[g].closing,
               project |-> ws[g].project, at |-> ws[g].at]
  BY <1>1, LiveFields DEF Workspace
<1> DEFINE W == [revision |-> ws[g].revision + 1, closing |-> TRUE,
                 project |-> ws[g].project, at |-> ws[g].at]
<1>3. W \in Workspace BY <1>1, LiveFields DEF Workspace
<1>4. ws' = Put(g, W)
  BY <1>1, <1>2, LiveFields DEF BeginClose, Put, TypeOK, Workspace
<1> QED BY <1>3, <1>4

\* confirm_closed drops the placement of the owner Workspace that is gone.
LEMMA ConfirmFacts ==
  ASSUME TypeOK, CloserShape, NEW k \in Closers, Confirm(k), ws' # ws
  PROVE  LET g == closer[k].g IN
         /\ g \in Ids /\ Live(g) /\ ws[g].closing
         /\ \E W \in Workspace \cup {Gone} :
              /\ ws' = Put(g, W)
              /\ \/ /\ W = Gone
                    /\ \A n \in Nodes :
                         \/ ws[g].at[n] = None
                         \/ /\ n = closer[k].node
                            /\ ws[g].at[n].owner = closer[k].owner
                 \/ /\ W \in Workspace /\ W.closing = ws[g].closing
                    /\ W.project = ws[g].project
                    /\ \A n \in Nodes :
                         \/ W.at[n] = ws[g].at[n]
                         \/ /\ W.at[n] = None /\ n = closer[k].node
                            /\ ws[g].at[n].owner = closer[k].owner
<1> DEFINE x == closer[k]
           g == x.g
           left == [n \in Nodes |-> IF n = x.node /\ ws[g].at[n] # None
                                        /\ ws[g].at[n].owner = x.owner
                                    THEN None ELSE ws[g].at[n]]
<1>1. /\ x.pc = "confirm" /\ Live(g) /\ ws[g].closing
      /\ ws' = IF \A n \in Nodes : left[n] = None
               THEN [ws EXCEPT ![g] = Gone]
               ELSE [ws EXCEPT ![g].at = left, ![g].revision = @ + 1]
  BY DEF Confirm
<1>2. g \in Ids BY <1>1 DEF TypeOK, CloserShape, Close
<1>3. ws[g] = [revision |-> ws[g].revision, closing |-> ws[g].closing,
               project |-> ws[g].project, at |-> ws[g].at]
  BY <1>1, <1>2, LiveFields DEF Workspace
<1>4. CASE \A n \in Nodes : left[n] = None
  <2>1. ws' = Put(g, Gone) BY <1>1, <1>4 DEF Put
  <2>2. \A n \in Nodes : \/ ws[g].at[n] = None
                         \/ n = x.node /\ ws[g].at[n].owner = x.owner
    BY <1>4
  <2> QED BY <2>1, <2>2, <1>1, <1>2
<1>5. CASE ~\A n \in Nodes : left[n] = None
  <2> DEFINE W == [revision |-> ws[g].revision + 1, closing |-> ws[g].closing,
                   project |-> ws[g].project, at |-> left]
  <2>1. left \in [Nodes -> Placement \cup {None}]
    BY <1>1, <1>2, LiveFields
  <2>2. W \in Workspace
    <3> HIDE DEF left
    <3> QED BY <2>1, <1>1, <1>2, LiveFields DEF Workspace
  <2>3. ws' = Put(g, W)
    <3>1. ws' = [ws EXCEPT ![g].at = left, ![g].revision = @ + 1]
      BY <1>1, <1>5
    <3> HIDE DEF left
    <3> QED BY <3>1, <1>1, <1>2, <1>3, LiveFields DEF Put, TypeOK, Workspace
  <2>4. \A n \in Nodes :
          \/ W.at[n] = ws[g].at[n]
          \/ /\ W.at[n] = None /\ n = x.node
             /\ ws[g].at[n].owner = x.owner
    OBVIOUS
  <2>5. W.closing = ws[g].closing /\ W.project = ws[g].project OBVIOUS
  <2> HIDE DEF W, left
  <2> QED BY <2>2, <2>3, <2>4, <2>5, <1>1, <1>2
<1> QED BY <1>4, <1>5

\* complete_default_cwd.
LEMMA CompleteMoveFacts ==
  ASSUME TypeOK, NEW o \in Moves, CompleteMove(o), mover[o].revision \in Nat
  PROVE  LET m == move[o] IN
         /\ m \in Move /\ Live(m.g) /\ ws[m.g].at[m.node] # None
         /\ ws[m.g].at[m.node].owner = m.owner
         /\ \E r \in Nat :
              ws' = Put(m.g, Placing(m.g, r, m.node,
                               Mirror(m.owner, mover[o].revision, m.cwd)))
<1> DEFINE m == move[o]
           g == m.g
           M == Mirror(m.owner, mover[o].revision, m.cwd)
<1>1. m \in Move /\ Live(g) /\ ws[g].at[m.node] # None
        /\ ws[g].at[m.node].owner = m.owner
  BY DEF CompleteMove, TypeOK
<1>2. g \in Ids /\ m.node \in Nodes BY <1>1 DEF Move
<1>4. ws' = [ws EXCEPT ![g].at[m.node] = M,
                       ![g].revision = IF mover[o].revision = m.revision THEN @
                                       ELSE @ + 1]
  BY DEF CompleteMove
<1>5. ASSUME NEW r
      PROVE  [ws[g] EXCEPT !.at[m.node] = M, !.revision = r]
               = Placing(g, r, m.node, M)
  <2> HIDE DEF M
  <2> QED BY <1>1, <1>2, LiveFields DEF Placing, Workspace
<1>6. CASE mover[o].revision = m.revision
  <2>1. ws' = Put(g, [ws[g] EXCEPT !.at[m.node] = M, !.revision = ws[g].revision])
    <3> HIDE DEF M
    <3> QED BY <1>4, <1>6 DEF Put, TypeOK
  <2>2. ws' = Put(g, Placing(g, ws[g].revision, m.node, M)) BY <2>1, <1>5
  <2> QED BY <1>1, <1>2, <2>2, LiveFields
<1>7. CASE mover[o].revision # m.revision
  <2>1. ws' = Put(g, [ws[g] EXCEPT !.at[m.node] = M,
                                   !.revision = ws[g].revision + 1])
    <3> HIDE DEF M
    <3> QED BY <1>4, <1>7 DEF Put, TypeOK
  <2>2. ws' = Put(g, Placing(g, ws[g].revision + 1, m.node, M)) BY <2>1, <1>5
  <2> QED BY <1>1, <1>2, <2>2, LiveFields
<1> QED BY <1>6, <1>7

-----------------------------------------------------------------------------
(* Every step keeps the shapes.                                             *)

\* The parts together say that every record is well formed.
LEMMA ShapesTyped ==
  ASSUME Shapes PROVE TypeOK
BY DEF Shapes, WsPart, CallPart, CloserPart, OwnPart, FlightPart, RestPart, TypeOK

\* A part is kept by a step that leaves its variables alone.
LEMMA Frames ==
  ASSUME Shapes
  PROVE  /\ UNCHANGED ws => WsPart'
         /\ UNCHANGED <<pend, done, req, call>> => CallPart'
         /\ UNCHANGED closer => CloserPart'
         /\ UNCHANGED own => OwnPart'
         /\ UNCHANGED <<flight, req>> => FlightPart'
         /\ UNCHANGED most => RestPart'
<1>1. UNCHANGED ws => WsPart' BY DEF Shapes, WsPart
<1>2. UNCHANGED <<pend, done, req, call>> => CallPart'
  BY DEF Shapes, CallPart, CallShape
<1>3. UNCHANGED closer => CloserPart' BY DEF Shapes, CloserPart, CloserShape
<1>4. UNCHANGED own => OwnPart' BY DEF Shapes, OwnPart, OwnerShape, Exists
<1>5. UNCHANGED <<flight, req>> => FlightPart'
  BY DEF Shapes, FlightPart, FlightShape
<1>6. UNCHANGED most => RestPart' BY DEF Shapes, RestPart, most
<1> QED BY <1>1, <1>2, <1>3, <1>4, <1>5, <1>6

\* The ID of an operation may be that of an owner Workspace.
LEMMA IdFacts == Ops \subseteq Owners /\ Projects \subseteq Ids
BY DEF Ops, Owners, Ids

\* What an operation that is pending has reserved.
LEMMA PendFields ==
  ASSUME Shapes, NEW o \in Ops, pend[o] # None
  PROVE  /\ pend[o] \in Pending /\ pend[o].g \in Ids /\ pend[o].node \in Nodes
         /\ pend[o].owner \in Owners /\ pend[o].cwd \in Cwds
         /\ pend[o].resource \in Ops /\ pend[o].attempted \in BOOLEAN
         /\ pend[o].expected \in Nat
<1>1. pend[o] \in Pending BY DEF Shapes, CallPart
<1> QED BY <1>1 DEF Pending

\* What a client has asked for.
LEMMA ReqFields ==
  ASSUME Shapes, NEW o \in Ops, req[o] # None
  PROVE  req[o].g \in Ids /\ req[o].node \in Nodes /\ req[o].expected \in Nat
<1>1. req[o] \in Demand BY DEF Shapes, CallPart
<1> QED BY <1>1 DEF Demand

\* What a handler holds.
LEMMA CallFields ==
  ASSUME Shapes, NEW o \in Ops
  PROVE  /\ call[o] \in Call /\ call[o].pc \in CallSteps /\ call[o].cwd \in Cwds
         /\ call[o].revision \in Nat /\ call[o].again \in BOOLEAN
         /\ call[o].seen \in Workspace \cup {None}
<1>1. call[o] \in Call BY DEF Shapes, CallPart
<1> QED BY <1>1 DEF Call

\* What an owner Workspace holds.
LEMMA OwnFields ==
  ASSUME Shapes, NEW w \in Owners
  PROVE  /\ own[w] \in OwnerWorkspace /\ own[w].node \in Nodes \cup {None}
         /\ own[w].revision \in Nat /\ own[w].cwd \in Cwds
         /\ own[w].holds \subseteq Ops
<1>1. own[w] \in OwnerWorkspace BY DEF Shapes, OwnPart
<1> QED BY <1>1 DEF OwnerWorkspace

\* A request names what was reserved.
LEMMA RequestFields ==
  ASSUME Shapes, NEW o \in Ops, pend[o] # None, NEW b \in BOOLEAN
  PROVE  /\ RequestOf(o, b) \in Request /\ RequestOf(o, b).op = o
         /\ RequestOf(o, b).owner = pend[o].owner
         /\ RequestOf(o, b).cwd = pend[o].cwd
         /\ RequestOf(o, b).resource = pend[o].resource
         /\ RequestOf(o, b).again = b
BY PendFields DEF RequestOf, Request

\* prepare_resource reserves the resource of its own ID for what was asked.
LEMMA PreparedFields ==
  ASSUME Shapes, NEW o \in Ops, req[o] # None, Live(req[o].g), NEW d \in Cwds
  PROVE  /\ Prepared(o, d) \in Pending /\ Prepared(o, d).g = req[o].g
         /\ Prepared(o, d).node = req[o].node /\ Prepared(o, d).resource = o
         /\ ~Prepared(o, d).attempted
<1> DEFINE r == req[o]
           shared == Sharing(r.g, r.node)
           p == CHOOSE x \in shared : TRUE
<1>1. r.g \in Ids /\ r.node \in Nodes /\ r.expected \in Nat BY ReqFields
<1>2. shared # {} => pend[p].owner \in Owners /\ pend[p].cwd \in Cwds
  <2>1. shared # {} => p \in shared OBVIOUS
  <2>2. \A x \in shared : x \in Ops /\ pend[x] # None BY DEF Sharing
  <2> HIDE DEF p, shared
  <2> QED BY <2>1, <2>2, PendFields
<1>3. ws[r.g].at[r.node] # None => ws[r.g].at[r.node].owner \in Owners
  BY <1>1, LiveFields, ShapesTyped DEF Placement
<1> DEFINE w == IF ws[r.g].at[r.node] # None THEN ws[r.g].at[r.node].owner
                ELSE IF shared # {} THEN pend[p].owner ELSE o
           c == IF shared # {} THEN pend[p].cwd ELSE d
<1>4. w \in Owners /\ c \in Cwds
  <2> HIDE DEF shared, p
  <2> QED BY <1>2, <1>3, IdFacts
<1>5. Prepared(o, d) = [g |-> r.g, node |-> r.node, resource |-> o,
                        expected |-> r.expected, attempted |-> FALSE,
                        owner |-> w, cwd |-> c]
  BY DEF Prepared
<1> HIDE DEF w, c
<1> QED BY <1>1, <1>4, <1>5 DEF Pending

\* remove_pending_at takes a global Workspace with it only when it is empty and
\* nothing else is pending for it.
LEMMA CancelFacts ==
  ASSUME Shapes, NEW o \in Ops, pend[o] # None, Cancel(o)
  PROVE  /\ pend' = [pend EXCEPT ![o] = None]
         /\ \/ ws' = ws
            \/ /\ ws' = Put(pend[o].g, None)
               /\ \A n \in Nodes : ws[pend[o].g].at[n] = None
               /\ \A p \in Ops \ {o} : pend[p] = None \/ pend[p].g # pend[o].g
BY DEF Cancel, Put

\* A cancelled operation leaves a well-formed store.
LEMMA CancelParts ==
  ASSUME Shapes, NEW o \in Ops, pend[o] # None, Cancel(o)
  PROVE  WsPart' /\ pend' = [pend EXCEPT ![o] = None]
<1>1. CASE ws' = ws BY <1>1, CancelFacts, Frames
<1>2. CASE ws' # ws
  <2>1. ws' = Put(pend[o].g, None) BY <1>2, CancelFacts
  <2> QED BY <2>1, PendFields, PutFacts, ShapesTyped, CancelFacts DEF WsPart
<1> QED BY <1>1, <1>2, CancelFacts

\* A request makes the owner Workspace hold its resource, in one step.
LEMMA ApplyFacts ==
  ASSUME Shapes, NEW m, m.owner \in Owners, m.cwd \in Cwds, m.resource \in Ops,
         req[m.op].node \in Nodes, Apply(m)
  PROVE  /\ OwnPart'
         /\ \A w \in Owners \ {m.owner} : own'[w] = own[w]
         /\ own'[m.owner].cwd = m.cwd /\ own'[m.owner].revision > 0
         /\ own'[m.owner].holds = own[m.owner].holds \cup {m.resource}
         /\ \/ own'[m.owner].revision > own[m.owner].revision
            \/ own'[m.owner] = own[m.owner]
<1> DEFINE w == m.owner
           n == req[m.op].node
<1>1. own' = [own EXCEPT ![w] = Created(m, n)] BY DEF Apply
<1>2. ~Exists(w) => own[w].holds = {} BY DEF Shapes, OwnPart, OwnerShape
<1>3. CASE m.resource \in own[w].holds
  <2>1. Created(m, n) = own[w] BY <1>3 DEF Created
  <2>2. own' = own BY <1>1, <2>1 DEF Shapes, OwnPart
  <2>3. own[w].cwd = m.cwd /\ own[w].revision # 0
    BY <1>2, <1>3 DEF Apply, Accepts, Exists
  <2> QED BY <2>2, <2>3, <1>3, Frames, OwnFields
<1>4. CASE m.resource \notin own[w].holds
  <2> DEFINE W == [node |-> n, cwd |-> m.cwd,
                   holds |-> own[w].holds \cup {m.resource},
                   revision |-> IF Exists(w) THEN own[w].revision + 1 ELSE 2]
  <2>1. own' = [own EXCEPT ![w] = W] BY <1>1, <1>4 DEF Created
  <2>2. /\ W \in OwnerWorkspace /\ W.revision > own[w].revision
        /\ W.revision > 0
    BY OwnFields DEF OwnerWorkspace, Exists
  <2>3. own'[w] = W /\ \A x \in Owners \ {w} : own'[x] = own[x]
    BY <2>1 DEF Shapes, OwnPart
  <2>4. own' \in [Owners -> OwnerWorkspace]
    BY <2>1, <2>2 DEF Shapes, OwnPart
  <2>5. OwnerShape'
    <3> SUFFICES ASSUME NEW x \in Owners, ~Exists(x)' PROVE own'[x].holds = {}
      BY DEF OwnerShape
    <3> QED BY <2>2, <2>3 DEF Exists, Shapes, OwnPart, OwnerShape
  <2>6. OwnPart' BY <2>4, <2>5 DEF OwnPart
  <2> QED BY <2>2, <2>3, <2>6
<1> QED BY <1>3, <1>4

\* The handlers' records.
LEMMA IdleFacts ==
  /\ Idle \in Call /\ Idle.pc = "idle" /\ Idle.again = FALSE
  /\ \A pc \in CallSteps : /\ [Idle EXCEPT !.pc = pc] \in Call
                           /\ [Idle EXCEPT !.pc = pc].pc = pc
BY WorkspaceAssumption DEF Idle, Call, CallSteps

\* A handler that goes on to pc.
LEMMA GotoFacts ==
  ASSUME Shapes, NEW o \in Ops, NEW pc \in CallSteps, Goto(o, pc)
  PROVE  \E c \in Call : call' = [call EXCEPT ![o] = c] /\ c.pc = pc
BY IdleFacts DEF Goto

\* A handler that stops.
LEMMA StopFacts ==
  ASSUME Shapes, NEW o \in Ops, Stop(o)
  PROVE  \E c \in Call : call' = [call EXCEPT ![o] = c] /\ c.pc = "idle"
BY IdleFacts DEF Stop

\* A handler that has seen the owner Workspace shows it.
LEMMA ObserveFacts ==
  ASSUME Shapes, NEW o \in Ops, pend[o] # None, Observe(o)
  PROVE  \E c \in Call :
           /\ call' = [call EXCEPT ![o] = c] /\ c.pc = "complete"
           /\ c.revision = own[pend[o].owner].revision
           /\ c.cwd = own[pend[o].owner].cwd
<1> DEFINE w == own[pend[o].owner]
           c == [call[o] EXCEPT !.pc = "complete", !.revision = w.revision,
                                !.cwd = w.cwd]
<1>1. w.revision \in Nat /\ w.cwd \in Cwds BY PendFields, OwnFields
<1>2. call' = [call EXCEPT ![o] = c]
  <2>1. call' = [call EXCEPT ![o].pc = "complete", ![o].revision = w.revision,
                             ![o].cwd = w.cwd]
    BY DEF Observe
  <2> HIDE DEF w
  <2> QED BY <2>1 DEF Shapes, CallPart
<1>3. /\ c \in Call /\ c.pc = "complete" /\ c.revision = w.revision
      /\ c.cwd = w.cwd
  <2> HIDE DEF w
  <2> QED BY <1>1, CallFields DEF Call, CallSteps
<1> HIDE DEF c
<1> QED BY <1>2, <1>3

\* A step of one handler keeps the shape of the calls when what it leaves to
\* its operation has that shape.
HandlerShape(o, c, p, d) ==
  /\ p = None \/ d = None
  /\ p # None => req[o] # None /\ Asks(o, p.resource)
  /\ c.pc # "idle" => req[o] # None /\ d = None
  /\ c.pc \in {"check", "send", "sent", "verify", "complete"} => p # None
  /\ c.pc = "sent" => p.attempted
  /\ c.pc = "local" => /\ o \in Creates /\ req[o].node = Home
                       /\ c.seen # None

\* The entries of one operation, replaced by ones of that shape.
LEMMA OneHandler ==
  ASSUME Shapes, NEW o \in Ops, NEW c \in Call, NEW p \in Pending \cup {None},
         NEW d \in Ids \cup {None}, UNCHANGED req,
         call' = [call EXCEPT ![o] = c], pend' = [pend EXCEPT ![o] = p],
         done' = [done EXCEPT ![o] = d], HandlerShape(o, c, p, d)
  PROVE  CallPart'
<1>1. /\ pend' \in [Ops -> Pending \cup {None}] /\ done' \in [Ops -> Ids \cup {None}]
      /\ req' \in [Ops -> Demand \cup {None}] /\ call' \in [Ops -> Call]
  BY DEF Shapes, CallPart
<1>2. /\ call'[o] = c /\ pend'[o] = p /\ done'[o] = d /\ req' = req
      /\ \A x \in Ops \ {o} : /\ call'[x] = call[x] /\ pend'[x] = pend[x]
                              /\ done'[x] = done[x]
  BY DEF Shapes, CallPart
<1>3. ASSUME NEW x \in Ops
      PROVE  /\ pend'[x] = None \/ done'[x] = None
             /\ pend'[x] # None => Asks(x, pend'[x].resource)
  BY <1>2 DEF Shapes, CallPart, HandlerShape
<1>4. CallShape'
  <2> SUFFICES ASSUME NEW x \in Ops
               PROVE  HandlerShape(x, call'[x], pend'[x], done'[x])
    BY <1>2 DEF CallShape, HandlerShape
  <2>1. CASE x = o BY <2>1, <1>2
  <2>2. CASE x # o
    BY <2>2, <1>2 DEF Shapes, CallPart, CallShape, HandlerShape
  <2> QED BY <2>1, <2>2
<1> QED BY <1>1, <1>3, <1>4 DEF CallPart

\* What a handler leaves alone has the form OneHandler asks for.
LEMMA Same ==
  ASSUME Shapes, NEW o \in Ops
  PROVE  /\ call = [call EXCEPT ![o] = call[o]]
         /\ pend = [pend EXCEPT ![o] = pend[o]]
         /\ done = [done EXCEPT ![o] = done[o]]
         /\ pend[o] \in Pending \cup {None} /\ done[o] \in Ids \cup {None}
         /\ HandlerShape(o, call[o], pend[o], done[o])
BY DEF Shapes, CallPart, CallShape, HandlerShape

\* A step of a handler that leaves the store alone.
LEMMA OneCall ==
  ASSUME Shapes, NEW o \in Ops, NEW c \in Call, UNCHANGED <<pend, done, req>>,
         call' = [call EXCEPT ![o] = c], HandlerShape(o, c, pend[o], done[o])
  PROVE  CallPart'
<1>1. pend' = [pend EXCEPT ![o] = pend[o]] /\ done' = [done EXCEPT ![o] = done[o]]
  BY Same
<1>2. pend[o] \in Pending \cup {None} /\ done[o] \in Ids \cup {None} BY Same
<1>3. UNCHANGED req OBVIOUS
<1> QED BY <1>1, <1>2, <1>3, OneHandler

\* A step of a handler that leaves the completed operations alone.
LEMMA OnePending ==
  ASSUME Shapes, NEW o \in Ops, NEW c \in Call, NEW p \in Pending \cup {None},
         UNCHANGED <<done, req>>, call' = [call EXCEPT ![o] = c],
         pend' = [pend EXCEPT ![o] = p], HandlerShape(o, c, p, done[o])
  PROVE  CallPart'
<1>1. done' = [done EXCEPT ![o] = done[o]] BY Same
<1> QED BY <1>1, OneHandler, Same

\* create_local_global_workspace_shell starts.
LEMMA StartLocallyShapes ==
  ASSUME Shapes, NEW o \in Ops, StartLocally(o) PROVE Shapes'
<1> DEFINE c == [call[o] EXCEPT !.pc = "local", !.seen = ws[req[o].g]]
<1>1. ws[req[o].g] \in Workspace
  BY ReqFields, LiveFields, ShapesTyped DEF StartLocally
<1>2. call' = [call EXCEPT ![o] = c]
  BY DEF StartLocally, Shapes, CallPart
<1>3. c \in Call /\ c.pc = "local" /\ c.seen # None
  BY <1>1, CallFields, WorkspaceIsLive DEF Call, CallSteps
<1>4. HandlerShape(o, c, pend[o], done[o])
  <2> HIDE DEF c
  <2> QED BY <1>3 DEF StartLocally, HandlerShape
<1>5. CallPart'
  <2> HIDE DEF c
  <2>1. UNCHANGED <<pend, done, req>> BY DEF StartLocally, storeVars
  <2> QED BY <2>1, <1>2, <1>3, <1>4, OneCall
<1> QED BY <1>5, Frames DEF StartLocally, storeVars, rest, most, Shapes

\* prepare_workspace_shell.
LEMMA PrepareProjectShapes ==
  ASSUME Shapes, NEW o \in Ops, PrepareProject(o) PROVE Shapes'
<1> DEFINE named == {g \in Ids : Live(g) /\ ws[g].project}
<1>0. /\ o \in Projects /\ req[o] # None /\ call[o].pc = "idle"
      /\ done[o] = None /\ pend[o] = None /\ UNCHANGED req
  BY DEF PrepareProject
<1>1. ASSUME NEW g \in named, NEW p \in Projects,
             done' = [done EXCEPT ![o] = g], UNCHANGED <<ws, pend, call>>
      PROVE  CallPart' /\ WsPart'
  <2>1. HandlerShape(o, call[o], pend[o], g) BY <1>0 DEF HandlerShape
  <2>2. CallPart' BY <1>0, <1>1, <2>1, OneHandler, Same, CallFields
  <2> QED BY <2>2, <1>1, Frames
<1>2. ASSUME NEW g \in named, NEW p \in Projects, pend[p] # None,
             pend' = [pend EXCEPT ![o] = [pend[p] EXCEPT !.attempted = FALSE]],
             Goto(o, "look"), UNCHANGED <<ws, done>>
      PROVE  CallPart' /\ WsPart'
  <2> DEFINE q == [pend[p] EXCEPT !.attempted = FALSE]
  <2>1. p \in Ops /\ "look" \in CallSteps BY DEF Ops, CallSteps
  <2>2. q \in Pending /\ q.resource = pend[p].resource
    BY <1>2, <2>1, PendFields DEF Pending
  <2>3. Asks(o, q.resource)
    BY <1>0, <1>2, <2>1, <2>2 DEF Shapes, CallPart, Asks
  <2>4. PICK c \in Call : call' = [call EXCEPT ![o] = c] /\ c.pc = "look"
    BY <1>2, <2>1, GotoFacts
  <2>5. HandlerShape(o, c, q, done[o])
    <3> HIDE DEF q
    <3> QED BY <1>0, <2>3, <2>4 DEF HandlerShape
  <2>6. CallPart'
    <3> HIDE DEF q
    <3>1. pend' = [pend EXCEPT ![o] = q] BY <1>2 DEF q
    <3> QED BY <1>0, <1>2, <2>2, <2>4, <2>5, <3>1, OnePending
  <2> QED BY <2>6, <1>2, Frames
<1>3. ASSUME ws' = [ws EXCEPT ![o] = NewWorkspace(TRUE)],
             pend' = [pend EXCEPT ![o] =
               [g |-> o, node |-> req[o].node, owner |-> o, cwd |-> Cwd0,
                resource |-> o, expected |-> 1, attempted |-> FALSE]],
             Goto(o, "look"), UNCHANGED done
      PROVE  CallPart' /\ WsPart'
  <2> DEFINE q == [g |-> o, node |-> req[o].node, owner |-> o, cwd |-> Cwd0,
                   resource |-> o, expected |-> 1, attempted |-> FALSE]
  <2>1. o \in Ids /\ o \in Owners /\ "look" \in CallSteps
    BY <1>0, IdFacts DEF CallSteps
  <2>2. q \in Pending /\ Asks(o, q.resource)
    BY <1>0, <2>1, ReqFields, WorkspaceAssumption DEF Pending, Asks
  <2>4. PICK c \in Call : call' = [call EXCEPT ![o] = c] /\ c.pc = "look"
    BY <1>3, <2>1, GotoFacts
  <2>5. HandlerShape(o, c, q, done[o])
    <3> HIDE DEF q
    <3> QED BY <1>0, <2>2, <2>4 DEF HandlerShape
  <2>6. CallPart'
    <3> HIDE DEF q
    <3>1. pend' = [pend EXCEPT ![o] = q] BY <1>3 DEF q
    <3> QED BY <1>0, <1>3, <2>2, <2>4, <2>5, <3>1, OnePending
  <2>7. WsPart'
    BY <1>3, <2>1, NewFacts, PutFacts, ShapesTyped DEF Put, WsPart
  <2> QED BY <2>6, <2>7
<1>4. CallPart' /\ WsPart' BY <1>1, <1>2, <1>3 DEF PrepareProject
<1> QED BY <1>4, Frames DEF PrepareProject, rest, most, Shapes

\* A project that is not eligible any more is cancelled.
LEMMA DropProjectShapes ==
  ASSUME Shapes, NEW o \in Ops, DropProject(o) PROVE Shapes'
<1>1. pend[o] # None /\ Cancel(o) /\ call[o].pc = "idle" BY DEF DropProject
<1>2. WsPart' /\ pend' = [pend EXCEPT ![o] = None] BY <1>1, CancelParts
<1>3. HandlerShape(o, call[o], None, done[o])
  BY <1>1 DEF HandlerShape
<1>4. UNCHANGED <<done, req, call>> BY DEF DropProject
<1>5. /\ call[o] \in Call /\ done[o] \in Ids \cup {None}
      /\ call' = [call EXCEPT ![o] = call[o]] /\ done' = [done EXCEPT ![o] = done[o]]
  BY <1>4, Same, CallFields
<1>6. CallPart' BY <1>2, <1>3, <1>4, <1>5, OneHandler
<1> QED BY <1>2, <1>6, Frames DEF DropProject, most, Shapes

\* A creation reads its placement and the owner Workspace.
LEMMA LookShapes ==
  ASSUME Shapes, NEW o \in Ops, Look(o) PROVE Shapes'
<1> DEFINE n == req[o].node
           p == ws[Target(o)].at[n]
           d == IF p = None THEN Cwd0 ELSE own[p.owner].cwd
           c == [call[o] EXCEPT !.pc = "prepare", !.cwd = d]
<1>1. req[o] # None /\ done[o] = None
  BY DEF Look, Starts, Shapes, CallPart, CallShape
<1>2. d \in Cwds
  <2>1. Target(o) \in Ids /\ n \in Nodes
    BY <1>1, ReqFields, PendFields DEF Target
  <2>2. p # None => p \in Placement
    BY <2>1, LiveFields, ShapesTyped DEF Look
  <2>3. p # None => p.owner \in Owners BY <2>2 DEF Placement
  <2> HIDE DEF p
  <2> QED BY <2>3, OwnFields, WorkspaceAssumption
<1>3. call' = [call EXCEPT ![o] = c]
  <2>1. call' = [call EXCEPT ![o].pc = "prepare", ![o].cwd = d] BY DEF Look
  <2> HIDE DEF d
  <2> QED BY <2>1 DEF Shapes, CallPart
<1>4. c \in Call /\ c.pc = "prepare"
  <2> HIDE DEF d
  <2> QED BY <1>2, CallFields DEF Call, CallSteps
<1>5. HandlerShape(o, c, pend[o], done[o])
  <2> HIDE DEF c
  <2> QED BY <1>1, <1>4, Same DEF HandlerShape
<1>6. PICK x \in Call : /\ call' = [call EXCEPT ![o] = x]
                        /\ HandlerShape(o, x, pend[o], done[o])
  <2> HIDE DEF c
  <2> QED BY <1>3, <1>4, <1>5
<1> HIDE DEF c, d, p, n
<1>7. UNCHANGED <<pend, done, req>> BY DEF Look, storeVars
<1>8. CallPart' BY <1>6, <1>7, OneCall
<1> QED BY <1>8, Frames DEF Look, storeVars, rest, most, Shapes

\* prepare_resource.
LEMMA PrepareShapes ==
  ASSUME Shapes, NEW o \in Ops, Prepare(o) PROVE Shapes'
<1>0. /\ call[o].pc = "prepare" /\ UNCHANGED <<done, req>>
      /\ req[o] # None /\ done[o] = None
      /\ "check" \in CallSteps /\ "send" \in CallSteps
  BY DEF Prepare, Shapes, CallPart, CallShape, CallSteps
<1>1. ASSUME pend[o] # None PROVE CallPart'
  <2>1. Goto(o, "check") /\ UNCHANGED pend BY <1>1 DEF Prepare
  <2>2. PICK c \in Call : call' = [call EXCEPT ![o] = c] /\ c.pc = "check"
    BY <1>0, <2>1, GotoFacts
  <2>3. HandlerShape(o, c, pend[o], done[o])
    BY <1>0, <1>1, <2>2, Same DEF HandlerShape
  <2> QED BY <1>0, <2>1, <2>2, <2>3, OneCall
<1>2. ASSUME pend[o] = None PROVE CallPart'
  <2>1. /\ Goto(o, "send") /\ Live(req[o].g)
        /\ pend' = [pend EXCEPT ![o] = Prepared(o, call[o].cwd)]
    BY <1>2 DEF Prepare, Preparable
  <2>2. PICK c \in Call : call' = [call EXCEPT ![o] = c] /\ c.pc = "send"
    BY <1>0, <2>1, GotoFacts
  <2>3. /\ Prepared(o, call[o].cwd) \in Pending
        /\ Prepared(o, call[o].cwd).resource = o
    BY <1>0, <2>1, PreparedFields, CallFields
  <2>4. HandlerShape(o, c, Prepared(o, call[o].cwd), done[o])
    BY <1>0, <2>2, <2>3, WorkspaceAssumption DEF HandlerShape, Asks
  <2> QED BY <1>0, <2>1, <2>2, <2>3, <2>4, OnePending
<1>3. CallPart' BY <1>1, <1>2
<1> QED BY <1>3, Frames DEF Prepare, rest, most, Shapes

\* pending_owner_resource, before anything is sent.
LEMMA CheckShapes ==
  ASSUME Shapes, NEW o \in Ops, Check(o) PROVE Shapes'
<1>0. /\ pend[o] # None /\ req[o] # None /\ done[o] = None
      /\ UNCHANGED <<pend, done, req>> /\ "send" \in CallSteps
  BY DEF Check, storeVars, Shapes, CallPart, CallShape, CallSteps
<1>1. Observe(o) \/ Goto(o, "send") BY DEF Check
<1>2. PICK c \in Call : /\ call' = [call EXCEPT ![o] = c]
                        /\ c.pc \in {"complete", "send"}
  BY <1>0, <1>1, ObserveFacts, GotoFacts
<1>3. HandlerShape(o, c, pend[o], done[o])
  BY <1>0, <1>2, Same DEF HandlerShape
<1>4. CallPart' BY <1>0, <1>2, <1>3, OneCall
<1> QED BY <1>4, Frames DEF Check, storeVars, rest, most, Shapes

\* mark_owner_attempted.
LEMMA AttemptFacts ==
  ASSUME Shapes, NEW o \in Ops, pend[o] # None,
         pend' = [pend EXCEPT ![o].attempted = TRUE]
  PROVE  \E p \in Pending :
           /\ pend' = [pend EXCEPT ![o] = p] /\ p.attempted
           /\ p.g = pend[o].g /\ p.node = pend[o].node /\ p.owner = pend[o].owner
           /\ p.cwd = pend[o].cwd /\ p.resource = pend[o].resource
<1> DEFINE p == [pend[o] EXCEPT !.attempted = TRUE]
<1>1. pend' = [pend EXCEPT ![o] = p] BY DEF Shapes, CallPart
<1>2. /\ p \in Pending /\ p.attempted
      /\ p.g = pend[o].g /\ p.node = pend[o].node /\ p.owner = pend[o].owner
      /\ p.cwd = pend[o].cwd /\ p.resource = pend[o].resource
  BY PendFields DEF Pending
<1> HIDE DEF p
<1> QED BY <1>1, <1>2

\* A request that is sent is well formed.
LEMMA FlightAdds ==
  ASSUME Shapes, NEW o \in Ops, pend[o] # None, NEW b \in BOOLEAN,
         flight' = flight \cup {RequestOf(o, b)}, UNCHANGED req
  PROVE  FlightPart'
<1>1. Asks(o, pend[o].resource) /\ req[o] # None
  BY DEF Shapes, CallPart, CallShape
<1> QED BY <1>1, RequestFields DEF Shapes, FlightPart, FlightShape

\* Requests that leave the flight leave well-formed ones.
LEMMA FlightDrops ==
  ASSUME Shapes, flight' \subseteq flight, UNCHANGED req
  PROVE  FlightPart'
BY DEF Shapes, FlightPart, FlightShape

\* The first request, or the first of a retry, is sent.
LEMMA SendShapes ==
  ASSUME Shapes, NEW o \in Ops, Send(o) PROVE Shapes'
<1>0. /\ pend[o] # None /\ req[o] # None /\ done[o] = None
      /\ UNCHANGED <<done, req>> /\ pend[o].attempted \in BOOLEAN
  BY PendFields DEF Send, Shapes, CallPart, CallShape
<1>1. PICK p \in Pending :
        /\ pend' = [pend EXCEPT ![o] = p] /\ p.attempted
        /\ p.resource = pend[o].resource
  BY <1>0, AttemptFacts DEF Send
<1> DEFINE c == [call[o] EXCEPT !.pc = "sent", !.again = pend[o].attempted]
<1>2. call' = [call EXCEPT ![o] = c]
  BY DEF Send, Shapes, CallPart
<1>3. c \in Call /\ c.pc = "sent"
  BY <1>0, CallFields DEF Call, CallSteps
<1>4. HandlerShape(o, c, p, done[o])
  <2> HIDE DEF c
  <2> QED BY <1>0, <1>1, <1>3, Same, WorkspaceAssumption DEF HandlerShape
<1>5. CallPart'
  <2> HIDE DEF c
  <2> QED BY <1>0, <1>1, <1>2, <1>3, <1>4, OnePending
<1>6. FlightPart' BY <1>0, FlightAdds DEF Send
<1> QED BY <1>5, <1>6, Frames DEF Send, rest, most, Shapes

\* A request that lost its channel is sent again.
LEMMA SendAgainShapes ==
  ASSUME Shapes, NEW o \in Ops, SendAgain(o) PROVE Shapes'
<1>0. /\ pend[o] # None /\ req[o] # None /\ done[o] = None
      /\ call[o].pc = "sent" /\ UNCHANGED <<pend, done, req>>
  BY DEF SendAgain, storeVars, Shapes, CallPart, CallShape
<1> DEFINE c == [call[o] EXCEPT !.again = TRUE]
<1>2. call' = [call EXCEPT ![o] = c]
  BY DEF SendAgain, Shapes, CallPart
<1>3. c \in Call /\ c.pc = "sent"
  BY <1>0, CallFields DEF Call
<1>4. HandlerShape(o, c, pend[o], done[o])
  <2> HIDE DEF c
  <2> QED BY <1>0, <1>3, Same DEF HandlerShape
<1>5. CallPart'
  <2> HIDE DEF c
  <2> QED BY <1>0, <1>2, <1>3, <1>4, OneCall
<1>6. FlightPart' BY <1>0, FlightAdds DEF SendAgain
<1> QED BY <1>5, <1>6, Frames DEF SendAgain, storeVars, most, Shapes

\* The owner Workspace that a request of an operation makes.
LEMMA RequestApplies ==
  ASSUME Shapes, NEW m \in flight, Apply(m)
  PROVE  OwnPart'
<1>1. /\ m.op \in Ops /\ m.owner \in Owners /\ m.cwd \in Cwds
      /\ m.resource \in Ops /\ req[m.op] # None
  BY DEF Shapes, FlightPart, FlightShape, Request
<1> QED BY <1>1, ApplyFacts, ReqFields

\* The owner applies the request and answers.
LEMMA AnsweredShapes ==
  ASSUME Shapes, NEW o \in Ops, Answered(o) PROVE Shapes'
<1> DEFINE m == RequestOf(o, call[o].again)
<1>0. /\ pend[o] # None /\ req[o] # None /\ done[o] = None
      /\ UNCHANGED <<pend, done, req>> /\ "verify" \in CallSteps
      /\ m \in flight /\ Apply(m) /\ flight' = flight \ {m} /\ Goto(o, "verify")
  BY DEF Answered, storeVars, Shapes, CallPart, CallShape, CallSteps
<1>1. PICK c \in Call : call' = [call EXCEPT ![o] = c] /\ c.pc = "verify"
  BY <1>0, GotoFacts
<1>2. HandlerShape(o, c, pend[o], done[o])
  BY <1>0, <1>1, Same DEF HandlerShape
<1>3. CallPart' BY <1>0, <1>1, <1>2, OneCall
<1>4. OwnPart' /\ FlightPart'
  <2> HIDE DEF m
  <2> QED BY <1>0, RequestApplies, FlightDrops
<1> QED BY <1>3, <1>4, Frames DEF Answered, storeVars, rest, most, Shapes

\* A handler that stops leaves the shapes as they were.
LEMMA StopShapes ==
  ASSUME Shapes, NEW o \in Ops, Stop(o), UNCHANGED <<done, req>>,
         NEW p \in Pending \cup {None}, pend' = [pend EXCEPT ![o] = p],
         p # None => pend[o] # None /\ p.resource = pend[o].resource
  PROVE  CallPart'
<1>1. PICK c \in Call : call' = [call EXCEPT ![o] = c] /\ c.pc = "idle"
  BY StopFacts
<1>2. HandlerShape(o, c, p, done[o]) BY <1>1, Same DEF HandlerShape
<1> QED BY <1>1, <1>2, OnePending

\* The answer is lost.
LEMMA UnknownShapes ==
  ASSUME Shapes, NEW o \in Ops, Unknown(o) PROVE Shapes'
<1>1. CallPart' BY StopShapes, Same DEF Unknown, storeVars
<1> QED BY <1>1, Frames DEF Unknown, storeVars, most, Shapes


\* A refusal cancels the operation or leaves it pending.
LEMMA RefusalShapes ==
  ASSUME Shapes, NEW o \in Ops, NEW b \in BOOLEAN, pend[o] # None,
         Refusal(o, b), Stop(o), UNCHANGED <<done, req>>
  PROVE  WsPart' /\ CallPart' /\ blind' \subseteq Ops
<1>1. blind' \subseteq Ops BY DEF Refusal, Shapes, RestPart
<1>2. ASSUME Cancel(o) PROVE WsPart' /\ CallPart'
  <2>1. WsPart' /\ pend' = [pend EXCEPT ![o] = None] BY <1>2, CancelParts
  <2>2. CallPart' BY <2>1, StopShapes
  <2> QED BY <2>1, <2>2
<1>3. ASSUME pend' = [pend EXCEPT ![o].attempted = TRUE], UNCHANGED ws
      PROVE  WsPart' /\ CallPart'
  <2>1. PICK p \in Pending : /\ pend' = [pend EXCEPT ![o] = p]
                             /\ p.resource = pend[o].resource
    BY <1>3, AttemptFacts
  <2>2. CallPart' BY <2>1, StopShapes
  <2> QED BY <1>3, <2>2, Frames
<1> QED BY <1>1, <1>2, <1>3 DEF Refusal

\* The request is refused.
LEMMA RefusedShapes ==
  ASSUME Shapes, NEW o \in Ops, Refused(o) PROVE Shapes'
<1>1. pend[o] # None BY DEF Refused, Shapes, CallPart, CallShape
<1>2. WsPart' /\ CallPart' /\ blind' \subseteq Ops
  BY <1>1, RefusalShapes, CallFields DEF Refused
<1>3. FlightPart' BY FlightDrops DEF Refused
<1>4. RestPart' BY <1>2 DEF Refused, Shapes, RestPart
<1> QED BY <1>2, <1>3, <1>4, Frames DEF Refused, Shapes

\* The request has no route.
LEMMA UnroutableShapes ==
  ASSUME Shapes, NEW o \in Ops, Unroutable(o) PROVE Shapes'
<1>1. pend[o] # None BY DEF Unroutable
<1>2. WsPart' /\ CallPart' /\ blind' \subseteq Ops
  BY <1>1, RefusalShapes, PendFields DEF Unroutable
<1>4. RestPart' BY <1>2 DEF Unroutable, Shapes, RestPart
<1> QED BY <1>2, <1>4, Frames DEF Unroutable, Shapes

\* A handler that has observed the owner Workspace goes on to complete.
LEMMA ObserveShapes ==
  ASSUME Shapes, NEW o \in Ops, pend[o] # None, Observe(o),
         UNCHANGED <<pend, done, req>>
  PROVE  CallPart'
<1>1. PICK c \in Call : call' = [call EXCEPT ![o] = c] /\ c.pc = "complete"
  BY ObserveFacts
<1>2. HandlerShape(o, c, pend[o], done[o])
  BY <1>1, Same DEF HandlerShape
<1> QED BY <1>1, <1>2, OneCall

\* The owner Workspace is read again after the answer.
LEMMA VerifyShapes ==
  ASSUME Shapes, NEW o \in Ops, Verify(o) PROVE Shapes'
<1>1. pend[o] # None BY DEF Verify, Shapes, CallPart, CallShape
<1>2. CallPart' BY <1>1, ObserveShapes DEF Verify, storeVars
<1> QED BY <1>2, Frames DEF Verify, storeVars, rest, most, Shapes

\* A reconciliation finds the resource at its owner.
LEMMA ReconcileShapes ==
  ASSUME Shapes, NEW o \in Ops, Reconcile(o) PROVE Shapes'
<1>1. CallPart' BY ObserveShapes DEF Reconcile, storeVars
<1> QED BY <1>1, Frames DEF Reconcile, storeVars, rest, most, Shapes

\* The completion of an operation for g.
LEMMA DoneShapes ==
  ASSUME Shapes, NEW o \in Ops, NEW g \in Ids, Stop(o), UNCHANGED req,
         pend' = [pend EXCEPT ![o] = None], done' = [done EXCEPT ![o] = g]
  PROVE  CallPart'
<1>1. PICK c \in Call : call' = [call EXCEPT ![o] = c] /\ c.pc = "idle"
  BY StopFacts
<1>2. HandlerShape(o, c, None, g) BY <1>1 DEF HandlerShape
<1> QED BY <1>1, <1>2, OneHandler

\* A placement leaves a well-formed store.
LEMMA PlaceShapes ==
  ASSUME Shapes, NEW g \in Ids, Live(g), NEW n \in Nodes, NEW m \in Placement,
         ws' = Place(g, n, m)
  PROVE  WsPart'
<1>1. PICK r \in Nat : ws' = Put(g, Placing(g, r, n, m))
  BY PlaceFacts, ShapesTyped
<1> QED BY <1>1, PlacingFacts, PutFacts, ShapesTyped DEF WsPart

\* complete_resource.
LEMMA CompleteShapes ==
  ASSUME Shapes, NEW o \in Ops, Complete(o) PROVE Shapes'
<1>0. pend[o] # None /\ Live(pend[o].g) BY DEF Complete
<1>1. CallPart' BY <1>0, PendFields, DoneShapes DEF Complete
<1>2. Mirror(pend[o].owner, call[o].revision, pend[o].cwd) \in Placement
  BY <1>0, PendFields, CallFields, MirrorFacts
<1>3. WsPart' BY <1>0, <1>2, PendFields, PlaceShapes DEF Complete
<1> QED BY <1>1, <1>3, Frames DEF Complete, rest, most, Shapes

\* A guard, a routed read or a save fails.
LEMMA FailsShapes ==
  ASSUME Shapes, NEW o \in Ops, Fails(o) PROVE Shapes'
<1>0. Stop(o) /\ UNCHANGED <<done, req>> BY DEF Fails
<1>1. ASSUME UNCHANGED <<ws, pend>> PROVE WsPart' /\ CallPart'
  <2>1. CallPart' BY <1>0, <1>1, StopShapes, Same
  <2> QED BY <1>1, <2>1, Frames
<1>2. ASSUME pend[o] # None, Cancel(o) PROVE WsPart' /\ CallPart'
  <2>1. WsPart' /\ pend' = [pend EXCEPT ![o] = None] BY <1>2, CancelParts
  <2>2. CallPart' BY <1>0, <2>1, StopShapes
  <2> QED BY <2>1, <2>2
<1>3. WsPart' /\ CallPart' BY <1>1, <1>2 DEF Fails
<1> QED BY <1>3, Frames DEF Fails, most, Shapes

\* create_local_global_workspace_shell asks the owner on its own Node.
LocalRequest(o) ==
  LET g == req[o].g
      seen == call[o].seen
      first == Live(g) /\ FirstMeanwhile(seen, ws[g])
      cwd == IF first THEN ws[g].at[Home].cwd
             ELSE IF seen.at[Home] = None THEN Cwd0
             ELSE own[seen.at[Home].owner].cwd
      p == Prepared(o, cwd) IN
  [op |-> o, owner |-> p.owner, cwd |-> p.cwd, resource |-> o]

\* What the local creation requires and does.
LEMMA LocallyFacts ==
  ASSUME Shapes, NEW o \in Ops, CreateLocally(o)
  PROVE  LET g == req[o].g
             m == LocalRequest(o) IN
         /\ o \in Creates /\ req[o] # None /\ done[o] = None /\ pend[o] = None
         /\ req[o].node = Home /\ g \in Ids /\ Live(g) /\ ~ws[g].closing
         /\ ~LinkedBeyond(g, m.owner) /\ m.owner = Prepared(o, Cwd0).owner
         /\ m.op = o /\ m.resource = o /\ m.owner \in Owners /\ m.cwd \in Cwds
         /\ Apply(m) /\ own'[m.owner].revision \in Nat
         /\ ws' = Place(g, Home, Mirror(m.owner, own'[m.owner].revision, m.cwd))
<1> DEFINE g == req[o].g
           seen == call[o].seen
           first == Live(g) /\ FirstMeanwhile(seen, ws[g])
           cwd == IF first THEN ws[g].at[Home].cwd
                  ELSE IF seen.at[Home] = None THEN Cwd0
                  ELSE own[seen.at[Home].owner].cwd
           p == Prepared(o, cwd)
           m == LocalRequest(o)
<1>1. /\ o \in Creates /\ req[o] # None /\ done[o] = None /\ pend[o] = None
      /\ req[o].node = Home /\ seen # None /\ Live(g)
  BY DEF CreateLocally, Shapes, CallPart, CallShape
<1>2. g \in Ids /\ Home \in Nodes BY <1>1, ReqFields, WorkspaceAssumption
<1>3. cwd \in Cwds
  <2>1. seen \in Workspace BY <1>1, CallFields
  <2>2. seen.at \in [Nodes -> Placement \cup {None}] BY <2>1 DEF Workspace
  <2>3. CASE first
    <3>1. ws[g].at[Home] # None BY <2>3 DEF FirstMeanwhile
    <3>2. ws[g].at[Home] \in Placement
      BY <1>1, <1>2, <3>1, LiveFields, ShapesTyped
    <3> QED BY <2>3, <3>2 DEF Placement
  <2>4. CASE ~first /\ seen.at[Home] = None BY <2>4, WorkspaceAssumption
  <2>5. CASE ~first /\ seen.at[Home] # None
    <3>1. seen.at[Home].owner \in Owners BY <1>2, <2>2, <2>5 DEF Placement
    <3> QED BY <2>5, <3>1, OwnFields
  <2> HIDE DEF first
  <2> QED BY <2>3, <2>4, <2>5
<1>4. p \in Pending
  <2> HIDE DEF cwd
  <2> QED BY <1>1, <1>3, PreparedFields
<1>5. /\ m = [op |-> o, owner |-> p.owner, cwd |-> p.cwd, resource |-> o]
      /\ p.owner \in Owners /\ p.cwd \in Cwds
  <2>1. m = [op |-> o, owner |-> p.owner, cwd |-> p.cwd, resource |-> o]
    BY DEF LocalRequest
  <2> HIDE DEF p, m
  <2> QED BY <1>4, <2>1 DEF Pending
<1>6. p.owner = Prepared(o, Cwd0).owner BY DEF Prepared
<1>7. /\ Preparable(o, IF first THEN ws[g].revision ELSE req[o].expected)
      /\ Apply([op |-> o, owner |-> p.owner, cwd |-> p.cwd, resource |-> o])
      /\ ws' = Place(g, Home, Mirror(p.owner, own'[p.owner].revision, p.cwd))
  BY DEF CreateLocally
<1>8. ~ws[g].closing /\ ~LinkedBeyond(g, p.owner)
  BY <1>6, <1>7 DEF Preparable
<1>9. /\ m.op = o /\ m.resource = o /\ m.owner = p.owner /\ m.cwd = p.cwd
      /\ Apply(m)
  <2> HIDE DEF p, m, first
  <2> QED BY <1>5, <1>7
<1>10. own'[m.owner].revision \in Nat
  <2>1. req[m.op].node \in Nodes BY <1>1, <1>2, <1>9
  <2>2. OwnPart'
    <3> HIDE DEF m, p
    <3> QED BY <1>5, <1>9, <2>1, ApplyFacts
  <2>3. m.owner \in Owners
    <3> HIDE DEF m, p
    <3> QED BY <1>5, <1>9
  <2> HIDE DEF m
  <2> QED BY <2>2, <2>3 DEF OwnPart, OwnerWorkspace
<1> HIDE DEF p, m, first, cwd
<1>11. /\ m.owner \in Owners /\ m.cwd \in Cwds
       /\ m.owner = Prepared(o, Cwd0).owner /\ ~LinkedBeyond(g, m.owner)
       /\ ws' = Place(g, Home, Mirror(m.owner, own'[m.owner].revision, m.cwd))
  BY <1>5, <1>6, <1>7, <1>8, <1>9
<1> QED BY <1>1, <1>2, <1>8, <1>9, <1>10, <1>11 DEF m

\* The local creation is durable in one step.
LEMMA CreateLocallyShapes ==
  ASSUME Shapes, NEW o \in Ops, CreateLocally(o) PROVE Shapes'
<1> DEFINE m == LocalRequest(o)
           g == req[o].g
<1>1. /\ req[o] # None /\ g \in Ids /\ Live(g) /\ m.op = o /\ m.resource = o
      /\ pend[o] = None /\ req[o].node = Home
      /\ m.owner \in Owners /\ m.cwd \in Cwds /\ Apply(m)
      /\ own'[m.owner].revision \in Nat
      /\ ws' = Place(g, Home, Mirror(m.owner, own'[m.owner].revision, m.cwd))
  BY LocallyFacts
<1> HIDE DEF m
<1>2. Home \in Nodes BY WorkspaceAssumption
<1>3. OwnPart' BY <1>1, <1>2, ApplyFacts
<1>4. WsPart' BY <1>1, <1>2, MirrorFacts, PlaceShapes
<1>5. CallPart'
  <2>1. pend' = [pend EXCEPT ![o] = None]
    <3>1. UNCHANGED pend BY DEF CreateLocally
    <3> QED BY <1>1, <3>1, Same
  <2> QED BY <1>1, <2>1, DoneShapes DEF CreateLocally
<1> QED BY <1>3, <1>4, <1>5, Frames DEF CreateLocally, rest, most, Shapes

\* The steps that change a global Workspace and nothing pending.
LEMMA CreateShapes ==
  ASSUME Shapes, NEW g \in Ids, Create(g) PROVE Shapes'
<1>1. ws' = Put(g, NewWorkspace(FALSE)) BY DEF Create, Put
<1>2. WsPart' BY <1>1, NewFacts, PutFacts, ShapesTyped DEF WsPart
<1> QED BY <1>2, Frames DEF Create, rest, most, Shapes

\* adopt.
LEMMA AdoptShapes ==
  ASSUME Shapes, NEW g \in Ids, NEW w \in Owners, Adopt(g, w) PROVE Shapes'
<1>1. WsPart' BY AdoptFacts, PutFacts, ShapesTyped DEF WsPart
<1> QED BY <1>1, Frames DEF Adopt, rest, most, Shapes

\* link.
LEMMA LinkShapes ==
  ASSUME Shapes, NEW g \in Ids, NEW w \in Owners, Link(g, w) PROVE Shapes'
<1> DEFINE m == Mirror(w, own[w].revision, own[w].cwd)
<1>1. own[w].node \in Nodes /\ Live(g)
        /\ ws' = Put(g, Placing(g, ws[g].revision + 1, own[w].node, m))
  BY LinkFacts, ShapesTyped
<1>2. m \in Placement BY OwnFields, MirrorFacts
<1>3. WsPart'
  <2>1. ws[g].revision + 1 \in Nat BY <1>1, LiveFields, ShapesTyped
  <2> HIDE DEF m
  <2>2. Placing(g, ws[g].revision + 1, own[w].node, m) \in Workspace
    BY <1>1, <1>2, <2>1, PlacingFacts, ShapesTyped
  <2> QED BY <1>1, <2>2, PutFacts, ShapesTyped DEF WsPart
<1> QED BY <1>3, Frames DEF Link, rest, most, Shapes

\* rename.
LEMMA RenameShapes ==
  ASSUME Shapes, NEW g \in Ids, Rename(g) PROVE Shapes'
<1>1. WsPart' BY RenameFacts, PutFacts, ShapesTyped DEF WsPart
<1> QED BY <1>1, Frames DEF Rename, most, Shapes

\* The first try of an operation fixes what it asks for.
LEMMA FirstCallShapes ==
  ASSUME Shapes, NEW o \in Ops, NEW g \in Ids, NEW n \in Nodes, FirstCall(o, g, n)
  PROVE  Shapes'
<1> DEFINE r == [g |-> g, node |-> n,
                 expected |-> IF o \in Creates THEN ws[g].revision ELSE 1]
<1>1. req[o] = None /\ req' = [req EXCEPT ![o] = r] BY DEF FirstCall
<1>2. o \in Creates => ws[g].revision \in Nat
  BY LiveFields, ShapesTyped DEF FirstCall
<1>3. r \in Demand BY <1>2 DEF Demand
<1>4. /\ req' \in [Ops -> Demand \cup {None}] /\ req'[o] # None
      /\ \A x \in Ops \ {o} : req'[x] = req[x]
  <2> HIDE DEF r
  <2> QED BY <1>1, <1>3, WorkspaceAssumption DEF Shapes, CallPart
<1>5. UNCHANGED <<pend, done, call>> /\ UNCHANGED flight
  BY DEF FirstCall, storeVars
<1>6. CallPart'
  BY <1>1, <1>4, <1>5 DEF Shapes, CallPart, CallShape
<1>7. FlightPart'
  BY <1>1, <1>4, <1>5 DEF Shapes, FlightPart, FlightShape, Request
<1> QED BY <1>6, <1>7, Frames DEF FirstCall, storeVars, rest, most, Shapes

\* No ID is None.
LEMMA IdsAreNot == None \notin Ids /\ None \notin Nodes /\ None \notin Owners
BY WorkspaceAssumption DEF Ids, Owners, Ops

\* The handlers of close requests.
LEMMA NotClosingFacts ==
  /\ NotClosing \in Close /\ NotClosing.pc = "idle" /\ NotClosing.g = None
  /\ \A n \in Nodes : NotClosing.todo[n] = None
BY DEF NotClosing, Close

\* What a handler of a close holds.
LEMMA CloseFields ==
  ASSUME Shapes, NEW k \in Closers
  PROVE  /\ closer[k] \in Close
         /\ closer[k].pc \in {"idle", "next", "close", "confirm"}
         /\ closer[k].g \in Ids \cup {None}
         /\ closer[k].todo \in [Nodes -> Owners \cup {None}]
         /\ closer[k].node \in Nodes \cup {None}
         /\ closer[k].owner \in Owners \cup {None} /\ closer[k].revision \in Nat
         /\ closer[k].pc # "idle" => closer[k].g # None
         /\ closer[k].pc \in {"close", "confirm"} =>
              closer[k].node # None /\ closer[k].owner # None
<1>1. closer[k] \in Close BY DEF Shapes, CloserPart
<1> QED BY <1>1 DEF Close, Shapes, CloserPart, CloserShape

\* The entry of one handler, replaced by a well-formed one.
LEMMA OneCloser ==
  ASSUME Shapes, NEW k \in Closers, NEW x \in Close,
         closer' = [closer EXCEPT ![k] = x],
         x.pc # "idle" => x.g # None,
         x.pc \in {"close", "confirm"} => x.node # None /\ x.owner # None
  PROVE  CloserPart'
BY DEF Shapes, CloserPart, CloserShape

\* A close goes through the placements it has read.
LEMMA ClosesFacts ==
  ASSUME Shapes, NEW k \in Closers, NEW g \in Ids, Live(g), Closes(k, g)
  PROVE  \E x \in Close :
           /\ closer' = [closer EXCEPT ![k] = x] /\ x.pc = "next" /\ x.g = g
           /\ \A n \in Nodes : \/ x.todo[n] = None
                               \/ /\ ws[g].at[n] # None
                                  /\ x.todo[n] = ws[g].at[n].owner
<1> DEFINE t == [n \in Nodes |-> IF ws[g].at[n] = None THEN None
                                 ELSE ws[g].at[n].owner]
           x == [NotClosing EXCEPT !.pc = "next", !.g = g, !.todo = t]
<1>1. t \in [Nodes -> Owners \cup {None}]
  BY LiveFields, ShapesTyped DEF Placement
<1>2. closer' = [closer EXCEPT ![k] = x] BY DEF Closes
<1>3. x \in Close /\ x.pc = "next" /\ x.g = g /\ x.todo = t
  <2> HIDE DEF t
  <2> QED BY <1>1 DEF NotClosing, Close
<1>4. \A n \in Nodes : \/ t[n] = None
                       \/ ws[g].at[n] # None /\ t[n] = ws[g].at[n].owner
  OBVIOUS
<1> HIDE DEF x, t
<1> QED BY <1>2, <1>3, <1>4

\* On to the next placement.
LEMMA ResumeFacts ==
  ASSUME Shapes, NEW k \in Closers, closer[k].pc # "idle", Resume(k)
  PROVE  \E x \in Close :
           /\ closer' = [closer EXCEPT ![k] = x] /\ x.pc = "next"
           /\ x.g = closer[k].g /\ x.todo = closer[k].todo
<1> DEFINE x == [NotClosing EXCEPT !.pc = "next", !.g = closer[k].g,
                                   !.todo = closer[k].todo]
<1>1. closer' = [closer EXCEPT ![k] = x] BY DEF Resume
<1>2. /\ x \in Close /\ x.pc = "next" /\ x.g = closer[k].g
      /\ x.todo = closer[k].todo
  BY CloseFields DEF NotClosing, Close
<1> HIDE DEF x
<1> QED BY <1>1, <1>2

\* The owner of a placement that is read.
LEMMA ReadFacts ==
  ASSUME Shapes, NEW k \in Closers, NEW n \in Nodes, ReadToClose(k, n)
  PROVE  \E x \in Close :
           LET w == closer[k].todo[n] IN
           /\ closer' = [closer EXCEPT ![k] = x] /\ x.g = closer[k].g
           /\ x.node = n /\ w \in Owners /\ x.owner = w
           /\ \A i \in Nodes : x.todo[i] \in {None, closer[k].todo[i]}
           /\ \/ x.pc = "close" /\ n \in known /\ Exists(w)
              \/ x.pc = "confirm" /\ (n \notin known \/ ~Exists(w))
<1> DEFINE w == closer[k].todo[n]
           r == IF n \in known THEN own[w].revision ELSE 0
           pc == IF n \in known /\ Exists(w) THEN "close" ELSE "confirm"
           x == [closer[k] EXCEPT !.todo[n] = None, !.node = n, !.owner = w,
                                  !.revision = r, !.pc = pc]
<1>1. w \in Owners BY CloseFields DEF ReadToClose
<1>2. r \in Nat /\ pc \in {"idle", "next", "close", "confirm"}
  BY <1>1, OwnFields
<1>3. closer' = [closer EXCEPT ![k] = x]
  <2>1. closer' = [closer EXCEPT ![k] = [@ EXCEPT !.todo[n] = None, !.node = n,
           !.owner = w, !.revision = r, !.pc = pc]]
    BY DEF ReadToClose
  <2> HIDE DEF w, r, pc
  <2> QED BY <2>1 DEF Shapes, CloserPart
<1>4. /\ x \in Close /\ x.g = closer[k].g /\ x.node = n /\ x.owner = w
      /\ x.pc = pc /\ \A i \in Nodes : x.todo[i] \in {None, closer[k].todo[i]}
  <2> HIDE DEF w, r, pc
  <2> QED BY <1>1, <1>2, CloseFields DEF Close
<1> HIDE DEF x
<1> QED BY <1>1, <1>3, <1>4

\* A placement whose owner cannot be read is left out.
LEMMA SkipFacts ==
  ASSUME Shapes, NEW k \in Closers, NEW n \in Nodes, SkipToClose(k, n)
  PROVE  \E x \in Close :
           /\ closer' = [closer EXCEPT ![k] = x] /\ x.g = closer[k].g
           /\ x.pc = "next"
           /\ \A i \in Nodes : x.todo[i] \in {None, closer[k].todo[i]}
<1> DEFINE x == [closer[k] EXCEPT !.todo[n] = None]
<1>1. closer' = [closer EXCEPT ![k] = x]
  BY DEF SkipToClose, Shapes, CloserPart
<1>2. /\ x \in Close /\ x.g = closer[k].g /\ x.pc = "next"
      /\ \A i \in Nodes : x.todo[i] \in {None, closer[k].todo[i]}
  BY CloseFields DEF Close, SkipToClose
<1> HIDE DEF x
<1> QED BY <1>1, <1>2

\* What the guarded close does at the owner.
LEMMA CloseOwnerFacts ==
  ASSUME Shapes, NEW k \in Closers, CloseOwner(k)
  PROVE  LET w == closer[k].owner IN
         /\ w \in Owners /\ closer[k].pc = "close"
         /\ \/ own' = [own EXCEPT ![w] = NoOwner] /\ shut' = shut \cup {w}
            \/ UNCHANGED <<own, shut>>
         /\ \E x \in Close :
              /\ closer' = [closer EXCEPT ![k] = x] /\ x.g = closer[k].g
              /\ x.todo = closer[k].todo
              /\ \/ x.pc = "next"
                 \/ /\ x.pc = "confirm" /\ x.owner = w /\ x.node = closer[k].node
                    /\ own'[w].revision = 0 \/ closer[k].node \notin known
<1>0. closer[k].pc = "close" BY DEF CloseOwner
<1>1. closer[k].owner \in Owners BY <1>0, CloseFields
<1>2. \/ /\ own' = [own EXCEPT ![closer[k].owner] = NoOwner]
         /\ shut' = shut \cup {closer[k].owner}
      \/ UNCHANGED <<own, shut>>
  BY DEF CloseOwner
<1>3. ASSUME own'[closer[k].owner].revision = 0 \/ closer[k].node \notin known,
             closer' = [closer EXCEPT ![k].pc = "confirm", ![k].revision = 0]
      PROVE  \E x \in Close :
               /\ closer' = [closer EXCEPT ![k] = x] /\ x.g = closer[k].g
               /\ x.todo = closer[k].todo
               /\ x.pc = "confirm" /\ x.owner = closer[k].owner
               /\ x.node = closer[k].node
  <2> DEFINE x == [closer[k] EXCEPT !.pc = "confirm", !.revision = 0]
  <2>1. closer' = [closer EXCEPT ![k] = x] BY <1>3 DEF Shapes, CloserPart
  <2>2. /\ x \in Close /\ x.g = closer[k].g /\ x.todo = closer[k].todo
        /\ x.pc = "confirm" /\ x.owner = closer[k].owner
        /\ x.node = closer[k].node
    BY CloseFields DEF Close
  <2> HIDE DEF x
  <2> QED BY <2>1, <2>2
<1>4. \/ /\ own'[closer[k].owner].revision = 0 \/ closer[k].node \notin known
         /\ closer' = [closer EXCEPT ![k].pc = "confirm", ![k].revision = 0]
      \/ Resume(k)
  BY DEF CloseOwner
<1>5. CASE Resume(k) BY <1>0, <1>1, <1>2, <1>5, ResumeFacts
<1>6. CASE /\ own'[closer[k].owner].revision = 0 \/ closer[k].node \notin known
           /\ closer' = [closer EXCEPT ![k].pc = "confirm", ![k].revision = 0]
  BY <1>0, <1>1, <1>2, <1>3, <1>6
<1> QED BY <1>4, <1>5, <1>6

\* An owner Workspace that is closed is not there any more.
LEMMA ClosedOwner ==
  ASSUME Shapes, NEW w \in Owners, own' = [own EXCEPT ![w] = NoOwner]
  PROVE  OwnPart'
<1>1. NoOwner \in OwnerWorkspace /\ NoOwner.holds = {}
  BY WorkspaceAssumption DEF NoOwner, OwnerWorkspace
<1> QED BY <1>1 DEF Shapes, OwnPart, OwnerShape, Exists

\* The steps of a close.
LEMMA CloserShapes ==
  ASSUME Shapes, NEW k \in Closers
  PROVE  /\ \A g \in Ids : BeginClose(k, g) \/ RetryClose(k, g) => Shapes'
         /\ EndClose(k) \/ CloseOwner(k) \/ Confirm(k) => Shapes'
         /\ \A n \in Nodes : ReadToClose(k, n) \/ SkipToClose(k, n) => Shapes'
<1>1. ASSUME NEW g \in Ids, BeginClose(k, g) PROVE Shapes'
  <2>1. CloserPart'
    BY <1>1, ClosesFacts, OneCloser, WorkspaceAssumption, IdsAreNot DEF BeginClose
  <2>2. WsPart' BY <1>1, BeginFacts, PutFacts, ShapesTyped DEF WsPart
  <2> QED BY <1>1, <2>1, <2>2, Frames DEF BeginClose, rest, most, Shapes
<1>2. ASSUME NEW g \in Ids, RetryClose(k, g) PROVE Shapes'
  <2>1. CloserPart' BY <1>2, ClosesFacts, OneCloser, IdsAreNot DEF RetryClose
  <2> QED BY <1>2, <2>1, Frames DEF RetryClose, storeVars, rest, most, Shapes
<1>3. ASSUME EndClose(k) PROVE Shapes'
  <2>1. CloserPart' BY <1>3, NotClosingFacts, OneCloser DEF EndClose
  <2>2. closer[k].g \in Ids BY <1>3, CloseFields DEF EndClose
  <2>3. WsPart' BY <1>3, <2>2 DEF EndClose, Shapes, WsPart
  <2> QED BY <1>3, <2>1, <2>3, Frames DEF EndClose, rest, most, Shapes
<1>4. ASSUME CloseOwner(k) PROVE Shapes'
  <2>1. CloserPart'
    <3>1. PICK x \in Close :
            /\ closer' = [closer EXCEPT ![k] = x] /\ x.g = closer[k].g
            /\ \/ x.pc = "next"
               \/ /\ x.pc = "confirm" /\ x.owner = closer[k].owner
                  /\ x.node = closer[k].node
      BY <1>4, CloseOwnerFacts
    <3> QED BY <1>4, <3>1, CloseOwnerFacts, CloseFields, OneCloser
  <2>2. OwnPart'
    <3>1. CASE UNCHANGED own BY <3>1, Frames
    <3>2. CASE own' = [own EXCEPT ![closer[k].owner] = NoOwner]
      BY <1>4, <3>2, CloseOwnerFacts, ClosedOwner
    <3> QED BY <1>4, <3>1, <3>2, CloseOwnerFacts
  <2>3. RestPart'
    <3>1. shut' \subseteq Owners
      BY <1>4, CloseOwnerFacts DEF Shapes, RestPart
    <3> QED BY <1>4, <3>1 DEF CloseOwner, Shapes, RestPart
  <2> QED BY <1>4, <2>1, <2>2, <2>3, Frames DEF CloseOwner, storeVars, Shapes
<1>5. ASSUME Confirm(k) PROVE Shapes'
  <2>1. closer[k].pc # "idle" BY <1>5 DEF Confirm
  <2>2. CloserPart'
    <3>1. CASE Resume(k)
      BY <2>1, <3>1, ResumeFacts, OneCloser, CloseFields
    <3>2. CASE closer' = [closer EXCEPT ![k] = NotClosing]
      BY <3>2, NotClosingFacts, OneCloser
    <3> QED BY <1>5, <3>1, <3>2 DEF Confirm
  <2>3. WsPart'
    <3>1. CASE ws' = ws BY <3>1, Frames
    <3>2. CASE ws' # ws
      BY <1>5, <3>2, ConfirmFacts, PutFacts, ShapesTyped
         DEF WsPart, Shapes, CloserPart
    <3> QED BY <3>1, <3>2
  <2> QED BY <1>5, <2>2, <2>3, Frames DEF Confirm, most, Shapes
<1>6. ASSUME NEW n \in Nodes, ReadToClose(k, n) PROVE Shapes'
  <2>1. closer[k].g # None BY <1>6, CloseFields DEF ReadToClose
  <2>2. CloserPart'
    BY <1>6, <2>1, ReadFacts, OneCloser, WorkspaceAssumption
  <2> QED BY <1>6, <2>2, Frames DEF ReadToClose, storeVars, rest, most, Shapes
<1>7. ASSUME NEW n \in Nodes, SkipToClose(k, n) PROVE Shapes'
  <2>1. closer[k].g # None BY <1>7, CloseFields DEF SkipToClose
  <2>2. CloserPart' BY <1>7, <2>1, SkipFacts, OneCloser
  <2> QED BY <1>7, <2>2, Frames DEF SkipToClose, storeVars, most, Shapes
<1> QED BY <1>1, <1>2, <1>3, <1>4, <1>5, <1>6, <1>7

\* The owners and their clients.
LEMMA OwnerShapes ==
  ASSUME Shapes
  PROVE  /\ \A m \in flight : AppliedLate(m) => Shapes'
         /\ \A w \in Owners, d \in Cwds : OwnerSetsCwd(w, d) => Shapes'
         /\ \A w \in Owners, r \in Ops : OwnerDeletes(w, r) => Shapes'
         /\ \A w \in Owners : OwnerCloses(w) => Shapes'
         /\ \A n \in Nodes : Forget(n) => Shapes'
<1>1. ASSUME NEW m \in flight, AppliedLate(m) PROVE Shapes'
  <2>1. OwnPart' BY <1>1, RequestApplies DEF AppliedLate
  <2>2. FlightPart' BY <1>1, FlightDrops DEF AppliedLate
  <2> QED BY <1>1, <2>1, <2>2, Frames DEF AppliedLate, rest, most, Shapes
<1>2. ASSUME NEW w \in Owners, NEW d \in Cwds, OwnerSetsCwd(w, d) PROVE Shapes'
  <2> DEFINE x == [own[w] EXCEPT !.cwd = d, !.revision = own[w].revision + 1]
  <2>1. own' = [own EXCEPT ![w] = x]
    BY <1>2 DEF OwnerSetsCwd, Shapes, OwnPart
  <2>a. /\ own[w] \in OwnerWorkspace /\ own[w].revision + 1 \in Nat
        /\ own[w].revision + 1 # 0 /\ own[w].holds \subseteq Ops
    BY OwnFields
  <2>2. x \in OwnerWorkspace /\ x.revision # 0
    BY <2>a DEF OwnerWorkspace
  <2>3. OwnPart'
    <3> HIDE DEF x
    <3> QED BY <2>1, <2>2 DEF Shapes, OwnPart, OwnerShape, Exists
  <2> QED BY <1>2, <2>3, Frames DEF OwnerSetsCwd, storeVars, most, Shapes
<1>3. ASSUME NEW w \in Owners, NEW r \in Ops, OwnerDeletes(w, r) PROVE Shapes'
  <2> DEFINE x == [own[w] EXCEPT !.holds = own[w].holds \ {r},
                                 !.revision = own[w].revision + 1]
  <2>1. own' = [own EXCEPT ![w] = x]
    BY <1>3 DEF OwnerDeletes, Shapes, OwnPart
  <2>a. /\ own[w] \in OwnerWorkspace /\ own[w].revision + 1 \in Nat
        /\ own[w].revision + 1 # 0 /\ own[w].holds \subseteq Ops
    BY OwnFields
  <2>2. x \in OwnerWorkspace /\ x.revision # 0
    BY <2>a DEF OwnerWorkspace
  <2>3. OwnPart'
    <3> HIDE DEF x
    <3> QED BY <2>1, <2>2 DEF Shapes, OwnPart, OwnerShape, Exists
  <2> QED BY <1>3, <2>3, Frames DEF OwnerDeletes, storeVars, most, Shapes
<1>4. ASSUME NEW w \in Owners, OwnerCloses(w) PROVE Shapes'
  <2>1. OwnPart' BY <1>4, ClosedOwner DEF OwnerCloses
  <2>2. RestPart' BY <1>4 DEF OwnerCloses, Shapes, RestPart
  <2> QED BY <1>4, <2>1, <2>2, Frames DEF OwnerCloses, storeVars, Shapes
<1>5. ASSUME NEW n \in Nodes, Forget(n) PROVE Shapes'
  <2>1. RestPart' BY <1>5 DEF Forget, Shapes, RestPart
  <2> QED BY <1>5, <2>1, Frames DEF Forget, storeVars, Shapes
<1> QED BY <1>1, <1>2, <1>3, <1>4, <1>5

\* The steps of the handlers of operations.
OpSteps(o) ==
  \/ StartLocally(o) \/ PrepareProject(o) \/ DropProject(o) \/ Look(o)
  \/ Prepare(o) \/ Check(o) \/ Send(o) \/ Answered(o)
  \/ SendAgain(o) \/ Unknown(o) \/ Refused(o) \/ Unroutable(o) \/ Verify(o)
  \/ Complete(o) \/ Fails(o) \/ Reconcile(o) \/ CreateLocally(o)

\* Every step of an operation keeps the shapes.
LEMMA OpShapes ==
  ASSUME Shapes, NEW o \in Ops, OpSteps(o) PROVE Shapes'
BY StartLocallyShapes, PrepareProjectShapes, DropProjectShapes, LookShapes,
   PrepareShapes, CheckShapes, SendShapes, AnsweredShapes, SendAgainShapes,
   UnknownShapes, RefusedShapes, UnroutableShapes, VerifyShapes, CompleteShapes,
   FailsShapes, ReconcileShapes, CreateLocallyShapes DEF OpSteps

\* The steps of Next, by who takes them.
StoreSteps ==
  \E g \in Ids : \/ Create(g) \/ Rename(g)
                 \/ \E w \in Owners : Adopt(g, w) \/ Link(g, w)
                 \/ \E o \in Ops, n \in Nodes : FirstCall(o, g, n)
CloserSteps ==
  \E k \in Closers :
    \/ \E g \in Ids : BeginClose(k, g) \/ RetryClose(k, g)
    \/ EndClose(k) \/ CloseOwner(k) \/ Confirm(k)
    \/ \E n \in Nodes : ReadToClose(k, n) \/ SkipToClose(k, n)
OwnerSteps ==
  \/ \E m \in flight : AppliedLate(m)
  \/ \E w \in Owners : \/ \E d \in Cwds : OwnerSetsCwd(w, d)
                       \/ \E r \in Ops : OwnerDeletes(w, r)
                       \/ OwnerCloses(w)
  \/ \E n \in Nodes : Forget(n)

\* The sorts are all of them.
LEMMA Sorted ==
  Steps <=> StoreSteps \/ (\E o \in Ops : OpSteps(o)) \/ CloserSteps \/ OwnerSteps
BY Zenon DEF Steps, StoreSteps, OpSteps, CloserSteps, OwnerSteps

\* Every step but a restart keeps the shapes.
LEMMA StepShapes ==
  ASSUME Shapes, Steps PROVE Shapes'
<1>1. CASE StoreSteps
  BY <1>1, CreateShapes, RenameShapes, AdoptShapes, LinkShapes, FirstCallShapes
     DEF StoreSteps
<1>2. CASE \E o \in Ops : OpSteps(o) BY <1>2, OpShapes
<1>3. CASE CloserSteps BY <1>3, CloserShapes DEF CloserSteps
<1>4. CASE OwnerSteps BY <1>4, OwnerShapes DEF OwnerSteps
<1> QED BY <1>1, <1>2, <1>3, <1>4, Sorted

\* A restart of the coordinating daemon.
LEMMA CrashShapes ==
  ASSUME Shapes, Crash PROVE Shapes'
<1>1. CallPart'
  BY IdleFacts DEF Crash, storeVars, Shapes, CallPart, CallShape
<1>2. CloserPart'
  BY NotClosingFacts DEF Crash, CloserPart, CloserShape
<1> QED BY <1>1, <1>2, Frames DEF Crash, storeVars, most, Shapes

\* A store that was just made has the shapes.
LEMMA InitShapes ==
  ASSUME Init PROVE Shapes
<1>1. WsPart BY DEF Init, WsPart
<1>2. CallPart BY IdleFacts DEF Init, CallPart, CallShape
<1>3. CloserPart BY NotClosingFacts DEF Init, CloserPart, CloserShape
<1>4. OwnPart
  <2>1. NoOwner \in OwnerWorkspace /\ NoOwner.holds = {}
    BY WorkspaceAssumption DEF NoOwner, OwnerWorkspace
  <2>2. \A n \in Nodes :
          /\ [NoOwner EXCEPT !.node = n, !.revision = 1] \in OwnerWorkspace
          /\ [NoOwner EXCEPT !.node = n, !.revision = 1].holds = {}
    BY WorkspaceAssumption DEF NoOwner, OwnerWorkspace
  <2>3. \A w \in Owners : own[w] \in OwnerWorkspace /\ own[w].holds = {}
    <3> SUFFICES ASSUME NEW w \in Owners
                 PROVE  own[w] \in OwnerWorkspace /\ own[w].holds = {}
      OBVIOUS
    <3>1. \/ own[w] = NoOwner
          \/ \E n \in Nodes :
               own[w] = [NoOwner EXCEPT !.node = n, !.revision = 1]
      BY DEF Init
    <3> QED BY <2>1, <2>2, <3>1
  <2> QED BY <2>3 DEF Init, OwnPart, OwnerShape
<1>5. FlightPart BY DEF Init, FlightPart, FlightShape
<1>6. RestPart BY DEF Init, RestPart
<1> QED BY <1>1, <1>2, <1>3, <1>4, <1>5, <1>6 DEF Shapes

-----------------------------------------------------------------------------
(* Owner Workspaces only go ahead.                                          *)

Further(w) ==
  \/ w \in shut'
  \/ /\ Exists(w) => Exists(w)'
     /\ \/ own'[w].revision > own[w].revision
        \/ own'[w].revision = own[w].revision /\ own'[w].cwd = own[w].cwd
Ahead == /\ shut \subseteq shut' /\ known' \subseteq known
         /\ \A w \in Owners : Further(w)

\* What was seen of an owner Workspace that goes ahead stays true.
LEMMA AheadKeeps ==
  ASSUME Ahead, Shapes, Shapes', NEW w \in Owners
  PROVE  /\ Seen(w) => Seen(w)'
         /\ \A r \in Nat, d \in Cwds : Honest(w, r, d) => Honest(w, r, d)'
<1>1. Further(w) /\ shut \subseteq shut' BY DEF Ahead
<1>2. own[w].revision \in Nat BY OwnFields
<1>3. own'[w].revision \in Nat BY DEF Shapes, OwnPart, OwnerWorkspace
<1>4. Seen(w) => Seen(w)' BY <1>1 DEF Further, Seen, Exists
<1>5. ASSUME NEW r \in Nat, NEW d \in Cwds, Honest(w, r, d)
      PROVE  Honest(w, r, d)'
  BY <1>1, <1>2, <1>3, <1>5 DEF Further, Honest
<1> QED BY <1>4, <1>5

\* Owner Workspaces that are left alone have gone no further back.
LEMMA StandsStill ==
  ASSUME UNCHANGED <<own, shut, known>> PROVE Ahead
BY DEF Ahead, Further, Exists

\* What one owner Workspace becomes.
LEMMA OneOwner ==
  ASSUME Shapes, NEW w \in Owners, shut \subseteq shut', known' \subseteq known,
         \A x \in Owners \ {w} : own'[x] = own[x], Further(w)
  PROVE  Ahead
BY DEF Ahead, Further, Exists

\* A request only takes its owner Workspace ahead.
LEMMA ApplyAhead ==
  ASSUME Shapes, NEW m, m.owner \in Owners, m.cwd \in Cwds, m.resource \in Ops,
         req[m.op].node \in Nodes, Apply(m), UNCHANGED <<shut, known>>
  PROVE  Ahead
<1> DEFINE w == m.owner
<1>1. /\ \A x \in Owners \ {w} : own'[x] = own[x]
      /\ own'[w].revision > 0
      /\ own'[w].revision > own[w].revision \/ own'[w] = own[w]
  BY ApplyFacts
<1>2. Further(w) BY <1>1 DEF Further, Exists
<1> QED BY <1>1, <1>2, OneOwner

\* Every step but a restart takes owner Workspaces ahead.
LEMMA StepAhead ==
  ASSUME Shapes, Steps PROVE Ahead
<1>1. CASE StoreSteps
  <2>1. UNCHANGED <<own, shut, known>>
    BY <1>1 DEF StoreSteps, Create, Rename, Adopt, Link, FirstCall, rest, most
  <2> QED BY <2>1, StandsStill
<1>2. ASSUME NEW o \in Ops, OpSteps(o) PROVE Ahead
  <2>1. ASSUME Answered(o) PROVE Ahead
    <3> DEFINE m == RequestOf(o, call[o].again)
    <3>1. m \in flight /\ Apply(m) /\ UNCHANGED <<shut, known>>
      BY <2>1 DEF Answered, rest
    <3>2. /\ m.op \in Ops /\ m.owner \in Owners /\ m.cwd \in Cwds
          /\ m.resource \in Ops /\ req[m.op] # None
      <4> HIDE DEF m
      <4> QED BY <3>1 DEF Shapes, FlightPart, FlightShape, Request
    <3> HIDE DEF m
    <3> QED BY <3>1, <3>2, ApplyAhead, ReqFields
  <2>2. ASSUME CreateLocally(o) PROVE Ahead
    <3> DEFINE m == LocalRequest(o)
    <3>1. /\ m.owner \in Owners /\ m.cwd \in Cwds /\ m.resource \in Ops
          /\ req[m.op].node \in Nodes /\ Apply(m)
      BY <2>2, LocallyFacts, WorkspaceAssumption
    <3>2. UNCHANGED <<shut, known>> BY <2>2 DEF CreateLocally, rest
    <3> HIDE DEF m
    <3> QED BY <3>1, <3>2, ApplyAhead
  <2>3. ASSUME \/ StartLocally(o) \/ PrepareProject(o) \/ DropProject(o)
               \/ Look(o) \/ Prepare(o) \/ Check(o) \/ Send(o)
        PROVE  Ahead
    <3>1. UNCHANGED <<own, shut, known>>
      BY <2>3 DEF StartLocally, PrepareProject, DropProject, Look, Prepare, Check,
                  Send, rest, most
    <3> QED BY <3>1, StandsStill
  <2>4. ASSUME \/ SendAgain(o) \/ Unknown(o) \/ Refused(o) \/ Unroutable(o)
               \/ Verify(o) \/ Complete(o) \/ Fails(o) \/ Reconcile(o)
        PROVE  Ahead
    <3>1. UNCHANGED <<own, shut, known>>
      BY <2>4 DEF SendAgain, Unknown, Refused, Unroutable, Verify, Complete,
                  Fails, Reconcile, rest, most
    <3> QED BY <3>1, StandsStill
  <2> QED BY <1>2, <2>1, <2>2, <2>3, <2>4 DEF OpSteps
<1>3. ASSUME NEW k \in Closers, CloseOwner(k) PROVE Ahead
  <2> DEFINE w == closer[k].owner
  <2>1. /\ w \in Owners
        /\ \/ own' = [own EXCEPT ![w] = NoOwner] /\ shut' = shut \cup {w}
           \/ UNCHANGED <<own, shut>>
    BY <1>3, CloseOwnerFacts
  <2>2. UNCHANGED known BY <1>3 DEF CloseOwner
  <2>3. CASE UNCHANGED <<own, shut>> BY <2>2, <2>3, StandsStill
  <2>4. CASE own' = [own EXCEPT ![w] = NoOwner] /\ shut' = shut \cup {w}
    <3>1. Further(w) BY <2>4 DEF Further
    <3> HIDE DEF w
    <3> QED BY <2>1, <2>2, <2>4, <3>1, OneOwner DEF Shapes, OwnPart
  <2> QED BY <2>1, <2>3, <2>4
<1>4. CASE CloserSteps
  <2>1. CASE \E k \in Closers : CloseOwner(k) BY <2>1, <1>3
  <2>2. CASE ~\E k \in Closers : CloseOwner(k)
    <3>1. UNCHANGED <<own, shut, known>>
      BY <1>4, <2>2 DEF CloserSteps, BeginClose, RetryClose, EndClose, Confirm,
                        ReadToClose, SkipToClose, rest, most
    <3> QED BY <3>1, StandsStill
  <2> QED BY <2>1, <2>2
<1>5. ASSUME NEW m \in flight, AppliedLate(m) PROVE Ahead
  <2>1. /\ m.op \in Ops /\ m.owner \in Owners /\ m.cwd \in Cwds
        /\ m.resource \in Ops /\ req[m.op] # None
    BY DEF Shapes, FlightPart, FlightShape, Request
  <2> QED BY <1>5, <2>1, ApplyAhead, ReqFields DEF AppliedLate, rest
<1>6. ASSUME NEW w \in Owners, NEW d \in Cwds, OwnerSetsCwd(w, d) PROVE Ahead
  <2>1. /\ own'[w].revision = own[w].revision + 1
        /\ \A x \in Owners \ {w} : own'[x] = own[x]
    BY <1>6, OwnFields DEF OwnerSetsCwd, Shapes, OwnPart, OwnerWorkspace
  <2>2. Further(w) BY <2>1, OwnFields DEF Further, Exists
  <2> QED BY <1>6, <2>1, <2>2, OneOwner DEF OwnerSetsCwd
<1>7. ASSUME NEW w \in Owners, NEW r \in Ops, OwnerDeletes(w, r) PROVE Ahead
  <2>1. /\ own'[w].revision = own[w].revision + 1
        /\ \A x \in Owners \ {w} : own'[x] = own[x]
    BY <1>7, OwnFields DEF OwnerDeletes, Shapes, OwnPart, OwnerWorkspace
  <2>2. Further(w) BY <2>1, OwnFields DEF Further, Exists
  <2> QED BY <1>7, <2>1, <2>2, OneOwner DEF OwnerDeletes
<1>8. ASSUME NEW w \in Owners, OwnerCloses(w) PROVE Ahead
  <2>1. Further(w) BY <1>8 DEF Further, OwnerCloses
  <2> QED BY <1>8, <2>1, OneOwner DEF OwnerCloses, Shapes, OwnPart
<1>9. ASSUME NEW n \in Nodes, Forget(n) PROVE Ahead
  BY <1>9 DEF Forget, Ahead, Further, Exists
<1>10. CASE OwnerSteps
  BY <1>5, <1>6, <1>7, <1>8, <1>9, <1>10 DEF OwnerSteps
<1> QED BY <1>1, <1>2, <1>4, <1>10, Sorted

\* A restart leaves them where they are.
LEMMA CrashAhead ==
  ASSUME Crash PROVE Ahead
BY StandsStill DEF Crash, most

-----------------------------------------------------------------------------
(* What a step may do to the stored Workspaces and the pending operations.  *)

Lost(w, n) == w \in shut \/ n \notin known
Fair(m) == Seen(m.owner) /\ Honest(m.owner, m.revision, m.cwd)

\* A new global Workspace, with a placement of an owner Workspace not linked.
Made(g) ==
  /\ ws[g] = None /\ UNCHANGED pend
  /\ \E W \in Workspace :
       /\ ws' = Put(g, W) /\ ~W.closing /\ ~W.project
       /\ \A n \in Nodes : W.at[n] # None =>
            Fair(W.at[n])' /\ ~Linked(W.at[n].owner)
\* One that a project asks for.
Projected(o) ==
  /\ o \in Projects /\ ws[o] = None /\ pend[o] = None
  /\ \A g \in Ids : ~(Live(g) /\ ws[g].project)
  /\ ws' = Put(o, NewWorkspace(TRUE))
  /\ \E q \in Pending : q.g = o /\ pend' = [pend EXCEPT ![o] = q]
\* A placement that agrees with what is pending.
Placed(g, n) ==
  /\ Live(g)
  /\ UNCHANGED pend \/ \E o \in Ops : pend' = [pend EXCEPT ![o] = None]
  /\ \E m \in Placement, r \in Nat :
       /\ ws' = Put(g, Placing(g, r, n, m)) /\ Fair(m)'
       /\ ~LinkedBeyond(g, m.owner)
       /\ \A o \in Sharing(g, n) : pend[o].owner = m.owner
\* A change of name or the beginning of a close.
Marked(g) ==
  /\ Live(g) /\ UNCHANGED pend
  /\ \E W \in Workspace :
       /\ ws' = Put(g, W) /\ W.at = ws[g].at
       /\ W.project => ws[g].project
       /\ W.closing => ws[g].closing \/ NoPending(g)
\* Placements that are lost, and with the last of them the Workspace.
Dropped(g) ==
  /\ Live(g) /\ ws[g].closing /\ UNCHANGED pend
  /\ \/ /\ ws' = Put(g, Gone)
        /\ \A n \in Nodes :
             ws[g].at[n] # None => Lost(ws[g].at[n].owner, n)
     \/ \E W \in Workspace :
          /\ ws' = Put(g, W) /\ W.closing /\ W.project = ws[g].project
          /\ \A n \in Nodes :
               \/ W.at[n] = ws[g].at[n]
               \/ W.at[n] = None /\ Lost(ws[g].at[n].owner, n)
\* An operation that is pending for an open Workspace and agrees with the rest.
Reserved(o) ==
  /\ UNCHANGED ws /\ pend[o] = None
  /\ \E q \in Pending :
       /\ pend' = [pend EXCEPT ![o] = q] /\ Live(q.g) /\ ~ws[q.g].closing
       /\ ws[q.g].at[q.node] # None => ws[q.g].at[q.node].owner = q.owner
       /\ \A p \in Sharing(q.g, q.node) : pend[p].owner = q.owner
Attempted(o) ==
  /\ UNCHANGED ws /\ pend[o] # None
  /\ \E q \in Pending :
       /\ pend' = [pend EXCEPT ![o] = q]
       /\ q.g = pend[o].g /\ q.node = pend[o].node /\ q.owner = pend[o].owner
Cancelled(o) ==
  /\ pend[o] # None /\ pend' = [pend EXCEPT ![o] = None]
  /\ \/ UNCHANGED ws
     \/ /\ ws' = Put(pend[o].g, None)
        /\ \A n \in Nodes : ws[pend[o].g].at[n] = None
        /\ \A p \in Ops \ {o} : pend[p] = None \/ pend[p].g # pend[o].g

Effect ==
  \/ UNCHANGED <<ws, pend>>
  \/ \E g \in Ids : \/ Made(g) \/ Marked(g) \/ Dropped(g)
                    \/ \E n \in Nodes : Placed(g, n)
  \/ \E o \in Ops : Projected(o) \/ Reserved(o) \/ Attempted(o) \/ Cancelled(o)

\* The invariant holds of well-formed records.
LEMMA Typed ==
  ASSUME GInv PROVE Shapes /\ TypeOK
BY ShapesTyped DEF GInv

\* What is mirrored while the owner stands still is true of it.
LEMMA MirrorFair ==
  ASSUME Shapes, NEW w \in Owners, Exists(w), UNCHANGED <<own, shut>>,
         NEW m \in Placement, m = Mirror(w, own[w].revision, own[w].cwd)
  PROVE  Fair(m)'
<1>1. m.owner = w /\ m.revision = own[w].revision /\ m.cwd = own[w].cwd
  BY OwnFields, MirrorFacts
<1>2. own[w].revision \in Nat BY OwnFields
<1>3. Seen(m.owner)' BY <1>1 DEF Seen, Exists
<1>4. Honest(m.owner, m.revision, m.cwd)' BY <1>1, <1>2 DEF Honest
<1> QED BY <1>3, <1>4 DEF Fair

\* The effect of create, rename, adopt, link and a first try.
LEMMA StoreEffect ==
  ASSUME GInv, StoreSteps PROVE Effect
<1> USE Typed
<1>1. ASSUME NEW g \in Ids, Create(g) PROVE Made(g)
  <2>1. ws' = Put(g, NewWorkspace(FALSE)) /\ ws[g] = None /\ UNCHANGED pend
    BY <1>1 DEF Create, Put
  <2> QED BY <2>1, NewFacts DEF Made
<1>2. ASSUME NEW g \in Ids, NEW w \in Owners, Adopt(g, w) PROVE Made(g)
  <2> DEFINE m == Mirror(w, own[w].revision, own[w].cwd)
  <2>1. /\ ws[g] = None /\ UNCHANGED pend /\ Exists(w) /\ ~Linked(w)
        /\ UNCHANGED <<own, shut>>
    BY <1>2 DEF Adopt, rest
  <2>2. PICK W \in Workspace, n \in Nodes :
          /\ ws' = Put(g, W) /\ ~W.closing /\ ~W.project /\ W.at[n] = m
          /\ \A i \in Nodes \ {n} : W.at[i] = None
    BY <1>2, AdoptFacts
  <2>3. W.at[n] \in Placement /\ W.at[n].owner = w
    BY <2>2, MirrorFacts, OwnFields
  <2>4. Fair(W.at[n])' BY <2>1, <2>2, <2>3, MirrorFair
  <2> HIDE DEF m
  <2>5. ASSUME NEW i \in Nodes, W.at[i] # None
        PROVE  Fair(W.at[i])' /\ ~Linked(W.at[i].owner)
    BY <2>1, <2>2, <2>3, <2>4, <2>5
  <2> QED BY <2>1, <2>2, <2>5 DEF Made
<1>3. ASSUME NEW g \in Ids, NEW w \in Owners, Link(g, w)
      PROVE  \E n \in Nodes : Placed(g, n)
  <2> DEFINE m == Mirror(w, own[w].revision, own[w].cwd)
             n == own[w].node
  <2>1. /\ Live(g) /\ UNCHANGED pend /\ Exists(w) /\ ~Linked(w) /\ NoPending(g)
        /\ UNCHANGED <<own, shut>>
    BY <1>3 DEF Link, rest
  <2>2. n \in Nodes /\ ws' = Put(g, Placing(g, ws[g].revision + 1, n, m))
    BY <1>3, LinkFacts
  <2>3. m.owner = w /\ m \in Placement BY MirrorFacts, OwnFields
  <2>5. ws[g].revision + 1 \in Nat BY <2>1, LiveFields
  <2>6. ~LinkedBeyond(g, w) BY <2>1, IdsAreNot DEF Linked, LinkedBeyond
  <2>7. Sharing(g, n) = {} BY <2>1 DEF NoPending, Sharing
  <2> HIDE DEF n
  <2>8. PICK x \in Placement : x = m BY <2>3
  <2>9. Fair(x)' BY <2>1, <2>8, MirrorFair
  <2> HIDE DEF m
  <2>10. /\ ws' = Put(g, Placing(g, ws[g].revision + 1, n, x))
         /\ ~LinkedBeyond(g, x.owner)
         /\ \A o \in Sharing(g, n) : pend[o].owner = x.owner
    BY <2>2, <2>3, <2>6, <2>7, <2>8
  <2> QED BY <2>1, <2>2, <2>5, <2>9, <2>10 DEF Placed
<1>4. ASSUME NEW g \in Ids, Rename(g) PROVE Marked(g)
  <2>1. Live(g) /\ UNCHANGED pend BY <1>4 DEF Rename
  <2> QED BY <1>4, <2>1, RenameFacts DEF Marked
<1>5. ASSUME NEW g \in Ids, NEW o \in Ops, NEW n \in Nodes, FirstCall(o, g, n)
      PROVE  UNCHANGED <<ws, pend>>
  BY <1>5 DEF FirstCall, storeVars
<1> QED BY <1>1, <1>2, <1>3, <1>4, <1>5 DEF StoreSteps, Effect

\* The effect of a close: only what is lost is dropped.
LEMMA CloserEffect ==
  ASSUME GInv, CloserSteps PROVE Effect
<1> USE Typed
<1>1. ASSUME NEW k \in Closers, NEW g \in Ids, BeginClose(k, g) PROVE Marked(g)
  <2>1. Live(g) /\ UNCHANGED pend /\ NoPending(g) BY <1>1 DEF BeginClose
  <2> QED BY <1>1, <2>1, BeginFacts DEF Marked
<1>2. ASSUME NEW k \in Closers, EndClose(k)
      PROVE  UNCHANGED <<ws, pend>> \/ \E g \in Ids : Dropped(g)
  <2> DEFINE g == closer[k].g
  <2>1. g \in Ids /\ UNCHANGED pend BY <1>2, CloseFields DEF EndClose
  <2>2. CASE Live(g) /\ ws[g].closing /\ \A n \in Nodes : ws[g].at[n] = None
    <3>1. ws' = Put(g, Gone) BY <1>2, <2>2 DEF EndClose, Put
    <3> QED BY <2>1, <2>2, <3>1 DEF Dropped
  <2>3. CASE ~(Live(g) /\ ws[g].closing /\ \A n \in Nodes : ws[g].at[n] = None)
    BY <1>2, <2>1, <2>3 DEF EndClose
  <2> QED BY <2>2, <2>3
<1>3. ASSUME NEW k \in Closers, Confirm(k)
      PROVE  UNCHANGED <<ws, pend>> \/ \E g \in Ids : Dropped(g)
  <2> DEFINE g == closer[k].g
  <2>1. closer[k].pc = "confirm" /\ UNCHANGED pend BY <1>3 DEF Confirm
  <2>2. Lost(closer[k].owner, closer[k].node)
    BY <2>1 DEF GInv, ClosersSeen, Lost
  <2>3. CASE ws' # ws
    <3>1. /\ g \in Ids /\ Live(g) /\ ws[g].closing
      BY <1>3, <2>3, ConfirmFacts DEF Shapes, CloserPart
    <3>2. PICK W \in Workspace \cup {Gone} :
              /\ ws' = Put(g, W)
              /\ \/ /\ W = Gone
                    /\ \A n \in Nodes :
                         \/ ws[g].at[n] = None
                         \/ /\ n = closer[k].node
                            /\ ws[g].at[n].owner = closer[k].owner
                 \/ /\ W \in Workspace /\ W.closing = ws[g].closing
                    /\ W.project = ws[g].project
                    /\ \A n \in Nodes :
                         \/ W.at[n] = ws[g].at[n]
                         \/ /\ W.at[n] = None /\ n = closer[k].node
                            /\ ws[g].at[n].owner = closer[k].owner
      BY <1>3, <2>3, ConfirmFacts DEF Shapes, CloserPart
    <3>3. CASE W = Gone BY <2>1, <2>2, <3>1, <3>2, <3>3, WorkspaceAssumption, ZenonT(90) DEF Dropped
    <3>4. CASE W \in Workspace
      <4>1. W # Gone BY <3>4, WorkspaceAssumption
      <4>2. W.closing /\ W.project = ws[g].project BY <3>1, <3>2, <4>1
      <4>3. \A n \in Nodes : \/ W.at[n] = ws[g].at[n]
                             \/ W.at[n] = None /\ Lost(ws[g].at[n].owner, n)
        BY <2>2, <3>2, <4>1
      <4> QED BY <2>1, <3>1, <3>2, <3>4, <4>2, <4>3 DEF Dropped
    <3> QED BY <3>2, <3>3, <3>4
  <2> QED BY <2>1, <2>3
<1>4. ASSUME NEW k \in Closers, NEW g \in Ids, RetryClose(k, g)
      PROVE  UNCHANGED <<ws, pend>>
  BY <1>4 DEF RetryClose, storeVars
<1>5. ASSUME NEW k \in Closers, CloseOwner(k) PROVE UNCHANGED <<ws, pend>>
  BY <1>5 DEF CloseOwner, storeVars
<1>6. ASSUME NEW k \in Closers, NEW n \in Nodes,
             ReadToClose(k, n) \/ SkipToClose(k, n)
      PROVE  UNCHANGED <<ws, pend>>
  BY <1>6 DEF ReadToClose, SkipToClose, storeVars
<1> QED BY <1>1, <1>2, <1>3, <1>4, <1>5, <1>6 DEF CloserSteps, Effect

\* Owners and their clients leave the store alone.
LEMMA OwnerEffect ==
  ASSUME OwnerSteps PROVE UNCHANGED <<ws, pend>>
BY DEF OwnerSteps, AppliedLate, OwnerSetsCwd, OwnerDeletes, OwnerCloses, Forget,
       storeVars

\* What is pending for one Workspace and Node.
LEMMA SharingFacts ==
  ASSUME NEW g, NEW n, NEW p \in Sharing(g, n)
  PROVE  p \in Ops /\ pend[p] # None /\ pend[p].g = g /\ pend[p].node = n
BY DEF Sharing

\* What is pending agrees, whoever looks at it.
LEMMA Agreement ==
  ASSUME GInv, NEW o \in Ops, pend[o] # None
  PROVE  /\ Live(pend[o].g) /\ ~ws[pend[o].g].closing
         /\ \A p \in Sharing(pend[o].g, pend[o].node) : pend[p].owner = pend[o].owner
         /\ ws[pend[o].g].at[pend[o].node] # None =>
              ws[pend[o].g].at[pend[o].node].owner = pend[o].owner
<1>1. Live(pend[o].g) BY DEF GInv, OwnerShared
<1>2. pend[o].g \in Ids BY Typed, PendFields
<1>3. ~ws[pend[o].g].closing
  BY <1>1, <1>2 DEF GInv, ClosingIsQuiet, NoPending
<1> QED BY <1>1, <1>3 DEF GInv, OwnerShared

\* prepare_resource shares the owner Workspace of the placement and of what is
\* pending for it.
LEMMA PreparedAgrees ==
  ASSUME GInv, NEW o \in Ops, req[o] # None, Live(req[o].g), NEW d
  PROVE  LET q == Prepared(o, d)
             g == req[o].g
             n == req[o].node IN
         /\ ws[g].at[n] # None => ws[g].at[n].owner = q.owner
         /\ \A p \in Sharing(g, n) : pend[p].owner = q.owner
<1> DEFINE g == req[o].g
           n == req[o].node
           shared == Sharing(g, n)
           c == CHOOSE x \in shared : TRUE
           q == Prepared(o, d)
<1>1. q.owner = IF ws[g].at[n] # None THEN ws[g].at[n].owner
                ELSE IF shared # {} THEN pend[c].owner ELSE o
  BY DEF Prepared
<1>2. ASSUME NEW p \in shared, NEW x \in shared
      PROVE  pend[p].owner = pend[x].owner
  <2>1. /\ x \in Ops /\ pend[x] # None /\ pend[x].g = g /\ pend[x].node = n
    BY SharingFacts
  <2> QED BY <2>1, Agreement
<1>3. ASSUME NEW p \in shared, ws[g].at[n] # None
      PROVE  ws[g].at[n].owner = pend[p].owner
  <2>1. /\ p \in Ops /\ pend[p] # None /\ pend[p].g = g /\ pend[p].node = n
    BY SharingFacts
  <2> QED BY <1>3, <2>1, Agreement
<1>4. shared # {} => c \in shared OBVIOUS
<1> HIDE DEF c, shared, q
<1>5. ws[g].at[n] # None => ws[g].at[n].owner = q.owner BY <1>1
<1>6. \A p \in shared : pend[p].owner = q.owner
  BY <1>1, <1>2, <1>3, <1>4
<1> QED BY <1>5, <1>6 DEF q, shared

\* prepare_workspace_shell reserves a name, or joins its holder.
LEMMA ProjectEffect ==
  ASSUME GInv, NEW o \in Ops, PrepareProject(o) PROVE Effect
<1> USE Typed
<1> DEFINE named == {g \in Ids : Live(g) /\ ws[g].project}
<1>0. /\ o \in Projects /\ req[o] # None /\ done[o] = None /\ pend[o] = None
  BY DEF PrepareProject
<1>1. ASSUME NEW p \in Projects, pend[p] # None, UNCHANGED ws,
             pend' = [pend EXCEPT ![o] = [pend[p] EXCEPT !.attempted = FALSE]]
      PROVE  Reserved(o)
  <2> DEFINE q == [pend[p] EXCEPT !.attempted = FALSE]
  <2>1. p \in Ops BY DEF Ops
  <2>2. /\ q \in Pending /\ q.g = pend[p].g /\ q.node = pend[p].node
        /\ q.owner = pend[p].owner
    BY <1>1, <2>1, PendFields DEF Pending
  <2>3. pend' = [pend EXCEPT ![o] = q] BY <1>1
  <2> HIDE DEF q
  <2>4. /\ Live(q.g) /\ ~ws[q.g].closing
        /\ ws[q.g].at[q.node] # None => ws[q.g].at[q.node].owner = q.owner
        /\ \A x \in Sharing(q.g, q.node) : pend[x].owner = q.owner
    BY <1>1, <2>1, <2>2, Agreement
  <2> QED BY <1>0, <1>1, <2>2, <2>3, <2>4 DEF Reserved
<1>2. ASSUME named = {}, ws[o] = None,
             ws' = [ws EXCEPT ![o] = NewWorkspace(TRUE)],
             pend' = [pend EXCEPT ![o] =
               [g |-> o, node |-> req[o].node, owner |-> o, cwd |-> Cwd0,
                resource |-> o, expected |-> 1, attempted |-> FALSE]]
      PROVE  Projected(o)
  <2> DEFINE q == [g |-> o, node |-> req[o].node, owner |-> o, cwd |-> Cwd0,
                   resource |-> o, expected |-> 1, attempted |-> FALSE]
  <2>1. q \in Pending /\ q.g = o
    BY <1>0, IdFacts, ReqFields, WorkspaceAssumption DEF Pending
  <2>2. pend' = [pend EXCEPT ![o] = q] /\ ws' = Put(o, NewWorkspace(TRUE))
    BY <1>2 DEF Put
  <2>3. \A g \in Ids : ~(Live(g) /\ ws[g].project) BY <1>2
  <2> HIDE DEF q
  <2> QED BY <1>0, <1>2, <2>1, <2>2, <2>3 DEF Projected
<1>3. \/ UNCHANGED <<ws, pend>>
      \/ \E p \in Projects :
           /\ pend[p] # None /\ UNCHANGED ws
           /\ pend' = [pend EXCEPT ![o] = [pend[p] EXCEPT !.attempted = FALSE]]
      \/ /\ named = {} /\ ws[o] = None
         /\ ws' = [ws EXCEPT ![o] = NewWorkspace(TRUE)]
         /\ pend' = [pend EXCEPT ![o] =
               [g |-> o, node |-> req[o].node, owner |-> o, cwd |-> Cwd0,
                resource |-> o, expected |-> 1, attempted |-> FALSE]]
  BY DEF PrepareProject
<1> HIDE DEF named
<1> QED BY <1>1, <1>2, <1>3 DEF Effect

\* The effect of remove_pending_at.
LEMMA CancelEffect ==
  ASSUME Shapes, NEW o \in Ops, pend[o] # None, Cancel(o) PROVE Cancelled(o)
BY CancelFacts DEF Cancelled

\* The effect of mark_owner_attempted.
LEMMA AttemptEffect ==
  ASSUME Shapes, NEW o \in Ops, pend[o] # None, UNCHANGED ws,
         pend' = [pend EXCEPT ![o].attempted = TRUE]
  PROVE  Attempted(o)
BY AttemptFacts DEF Attempted

\* complete_resource places the owner that everybody agreed on.
LEMMA CompleteEffect ==
  ASSUME GInv, NEW o \in Ops, Complete(o)
  PROVE  \E g \in Ids, n \in Nodes : Placed(g, n)
<1> USE Typed
<1> DEFINE p == pend[o]
           M == Mirror(p.owner, call[o].revision, p.cwd)
<1>1. /\ call[o].pc = "complete" /\ p # None /\ call[o].cwd = p.cwd
      /\ ~LinkedBeyond(p.g, p.owner) /\ Live(p.g)
      /\ ws' = Place(p.g, p.node, M)
      /\ pend' = [pend EXCEPT ![o] = None] /\ UNCHANGED <<own, shut>>
  BY DEF Complete, rest
<1>2. /\ p.g \in Ids /\ p.node \in Nodes /\ p.owner \in Owners /\ p.cwd \in Cwds
      /\ call[o].revision \in Nat
  BY <1>1, PendFields, CallFields
<1>3. /\ M \in Placement /\ M.owner = p.owner /\ M.cwd = p.cwd
      /\ M.revision = call[o].revision
  BY <1>2, MirrorFacts
<1>4. Seen(p.owner) /\ Honest(p.owner, call[o].revision, call[o].cwd)
  BY <1>1 DEF GInv, CallsSeen
<1>5. PICK m \in Placement : m = M BY <1>3
<1> HIDE DEF M
<1>6. Fair(m)'
  BY <1>1, <1>3, <1>4, <1>5 DEF Fair, Seen, Honest, Exists
<1>7. PICK r \in Nat : Place(p.g, p.node, M) = Put(p.g, Placing(p.g, r, p.node, M))
  BY <1>1, <1>2, PlaceFacts
<1>8. \A x \in Sharing(p.g, p.node) : pend[x].owner = p.owner
  BY <1>1, Agreement
<1> HIDE DEF p
<1>9. /\ ws' = Put(p.g, Placing(p.g, r, p.node, m)) /\ ~LinkedBeyond(p.g, m.owner)
      /\ \A x \in Sharing(p.g, p.node) : pend[x].owner = m.owner
  BY <1>1, <1>3, <1>5, <1>7, <1>8
<1>10. Placed(p.g, p.node) BY <1>1, <1>6, <1>9 DEF Placed
<1> QED BY <1>2, <1>10

\* So does the local creation.
LEMMA LocallyEffect ==
  ASSUME GInv, NEW o \in Ops, CreateLocally(o)
  PROVE  \E g \in Ids, n \in Nodes : Placed(g, n)
<1> USE Typed
<1> DEFINE g == req[o].g
           q == LocalRequest(o)
           M == Mirror(q.owner, own'[q.owner].revision, q.cwd)
<1>1. /\ req[o] # None /\ g \in Ids /\ Live(g) /\ req[o].node = Home
      /\ ~LinkedBeyond(g, q.owner) /\ q.owner = Prepared(o, Cwd0).owner
      /\ q.op = o /\ q.resource = o /\ q.owner \in Owners /\ q.cwd \in Cwds
      /\ Apply(q) /\ own'[q.owner].revision \in Nat /\ ws' = Place(g, Home, M)
  BY LocallyFacts
<1>2. Home \in Nodes BY WorkspaceAssumption
<1>3. UNCHANGED <<pend, shut>> BY DEF CreateLocally, rest
<1>4. /\ M \in Placement /\ M.owner = q.owner /\ M.cwd = q.cwd
      /\ M.revision = own'[q.owner].revision
  BY <1>1, MirrorFacts
<1>5. PICK m \in Placement : m = M BY <1>4
<1>6. own'[q.owner].cwd = q.cwd /\ own'[q.owner].revision > 0
  <2> HIDE DEF q, M
  <2> QED BY <1>1, <1>2, ApplyFacts
<1> HIDE DEF M
<1>7. m.owner = q.owner /\ m.cwd = q.cwd /\ m.revision = own'[q.owner].revision
  BY <1>4, <1>5
<1>8. Fair(m)'
  <2> HIDE DEF q
  <2> QED BY <1>1, <1>6, <1>7 DEF Fair, Seen, Honest, Exists
<1>9. PICK r \in Nat : Place(g, Home, M) = Put(g, Placing(g, r, Home, M))
  BY <1>1, <1>2, PlaceFacts
<1>10. \A x \in Sharing(g, Home) : pend[x].owner = q.owner
  BY <1>1, PreparedAgrees
<1> HIDE DEF q
<1>11. Placed(g, Home)
  BY <1>1, <1>3, <1>5, <1>7, <1>8, <1>9, <1>10 DEF Placed
<1> QED BY <1>1, <1>2, <1>11

\* The effect of every step of an operation.
LEMMA OpEffect ==
  ASSUME GInv, NEW o \in Ops, OpSteps(o) PROVE Effect
<1> USE Typed
<1>1. ASSUME DropProject(o) PROVE Cancelled(o)
  BY <1>1, CancelEffect DEF DropProject
<1>2. ASSUME Prepare(o) PROVE UNCHANGED <<ws, pend>> \/ Reserved(o)
  <2>1. CASE pend[o] # None BY <1>2, <2>1 DEF Prepare
  <2>2. CASE pend[o] = None
    <3> DEFINE q == Prepared(o, call[o].cwd)
    <3>1. /\ pend' = [pend EXCEPT ![o] = q] /\ UNCHANGED ws
          /\ Live(req[o].g) /\ ~ws[req[o].g].closing /\ req[o] # None
      BY <1>2, <2>2 DEF Prepare, Preparable, Shapes, CallPart, CallShape
    <3>2. q \in Pending /\ q.g = req[o].g /\ q.node = req[o].node
      BY <3>1, PreparedFields, CallFields
    <3>3. /\ ws[q.g].at[q.node] # None => ws[q.g].at[q.node].owner = q.owner
          /\ \A p \in Sharing(q.g, q.node) : pend[p].owner = q.owner
      BY <3>1, <3>2, PreparedAgrees
    <3> HIDE DEF q
    <3> QED BY <2>2, <3>1, <3>2, <3>3 DEF Reserved
  <2> QED BY <2>1, <2>2
<1>3. ASSUME Send(o) PROVE Attempted(o)
  BY <1>3, AttemptEffect DEF Send
<1>4. ASSUME Refused(o) \/ Unroutable(o) PROVE Cancelled(o) \/ Attempted(o)
  <2>1. pend[o] # None
    BY <1>4 DEF Refused, Unroutable, Shapes, CallPart, CallShape
  <2>2. Cancel(o) \/ (UNCHANGED ws /\ pend' = [pend EXCEPT ![o].attempted = TRUE])
    BY <1>4 DEF Refused, Unroutable, Refusal
  <2> QED BY <2>1, <2>2, CancelEffect, AttemptEffect
<1>5. ASSUME Fails(o) PROVE UNCHANGED <<ws, pend>> \/ Cancelled(o)
  <2>1. UNCHANGED <<ws, pend>> \/ (pend[o] # None /\ Cancel(o))
    BY <1>5 DEF Fails
  <2> QED BY <2>1, CancelEffect
<1>6. ASSUME \/ StartLocally(o) \/ Look(o) \/ Check(o) \/ Answered(o)
             \/ SendAgain(o) \/ Unknown(o) \/ Verify(o) \/ Reconcile(o)
      PROVE  UNCHANGED <<ws, pend>>
  BY <1>6 DEF StartLocally, Look, Check, Answered, SendAgain, Unknown, Verify,
              Reconcile, storeVars
<1>7. \/ UNCHANGED <<ws, pend>> \/ Reserved(o) \/ Attempted(o) \/ Cancelled(o)
      \/ PrepareProject(o) \/ Complete(o) \/ CreateLocally(o)
  BY <1>1, <1>2, <1>3, <1>4, <1>5, <1>6 DEF OpSteps
<1> QED BY <1>7, ProjectEffect, CompleteEffect, LocallyEffect DEF Effect

\* The effect of every step but a restart.
LEMMA StepEffect ==
  ASSUME GInv, Steps PROVE Effect
BY StoreEffect, OpEffect, CloserEffect, OwnerEffect, Sorted DEF Effect

\* A restart leaves the store alone.
LEMMA CrashEffect ==
  ASSUME Crash PROVE Effect
BY DEF Crash, storeVars, Effect

-----------------------------------------------------------------------------
(* What any step does to one global Workspace.                              *)

WsEffect(g) ==
  /\ \A h \in Ids \ {g} : ws'[h] = ws[h]
  /\ Live(g)' =>
       /\ ws'[g].closing => (Live(g) /\ ws[g].closing) \/ NoPending(g)
       /\ ws'[g].project => \/ Live(g) /\ ws[g].project
                            \/ \A h \in Ids : ~(Live(h) /\ ws[h].project)
       /\ \A n \in Nodes, m \in Placement :
            ws'[g].at[n] = m => \/ Live(g) /\ ws[g].at[n] = m
                                \/ Fair(m)' /\ ~LinkedBeyond(g, m.owner)
  /\ Live(g) =>
       \A n \in Nodes : ws[g].at[n] # None =>
         Lost(ws[g].at[n].owner, n) \/ (Live(g)' /\ ws'[g].at[n] # None)

\* A Workspace that has just been made.
LEMMA MadeWs ==
  ASSUME TypeOK, NEW g \in Ids, Made(g) PROVE WsEffect(g)
<1>1. PICK W \in Workspace :
        /\ ws' = Put(g, W) /\ ~W.closing /\ ~W.project
        /\ \A n \in Nodes : W.at[n] # None =>
             Fair(W.at[n])' /\ ~Linked(W.at[n].owner)
  BY DEF Made
<1>2. ws'[g] = W /\ \A h \in Ids \ {g} : ws'[h] = ws[h] BY <1>1, PutFacts
<1>3. ASSUME NEW n \in Nodes, NEW m \in Placement, W.at[n] = m
      PROVE  Fair(m)' /\ ~LinkedBeyond(g, m.owner)
  <2>1. W.at[n] # None BY <1>3, WorkspaceAssumption
  <2>2. ~Linked(m.owner) /\ Fair(m)' BY <1>1, <1>3, <2>1
  <2> QED BY <2>2, IdsAreNot DEF Linked, LinkedBeyond
<1>4. ~Live(g) BY DEF Made, Live
<1> QED BY <1>1, <1>2, <1>3, <1>4 DEF WsEffect

\* One that a project asked for is the only one of its name.
LEMMA ProjectedWs ==
  ASSUME TypeOK, NEW o \in Ops, Projected(o) PROVE o \in Ids /\ WsEffect(o)
<1>1. o \in Ids BY IdFacts DEF Projected
<1>2. ws' = Put(o, NewWorkspace(TRUE)) /\ ~Live(o) BY DEF Projected, Live
<1>3. ws'[o] = NewWorkspace(TRUE) /\ \A h \in Ids \ {o} : ws'[h] = ws[h]
  BY <1>1, <1>2, NewFacts, PutFacts
<1>4. ASSUME NEW n \in Nodes, NEW m \in Placement PROVE ws'[o].at[n] # m
  BY <1>3, NewFacts, WorkspaceAssumption
<1>5. \A h \in Ids : ~(Live(h) /\ ws[h].project) BY DEF Projected
<1>6. ~ws'[o].closing BY <1>3, NewFacts
<1> QED BY <1>1, <1>2, <1>3, <1>4, <1>5, <1>6 DEF WsEffect

\* A new name, or the beginning of a close.
LEMMA MarkedWs ==
  ASSUME TypeOK, NEW g \in Ids, Marked(g) PROVE WsEffect(g)
<1>1. PICK W \in Workspace :
        /\ ws' = Put(g, W) /\ W.at = ws[g].at
        /\ W.project => ws[g].project
        /\ W.closing => ws[g].closing \/ NoPending(g)
  BY DEF Marked
<1>2. ws'[g] = W /\ \A h \in Ids \ {g} : ws'[h] = ws[h] BY <1>1, PutFacts
<1>3. Live(g) /\ Live(g)' BY <1>2, WorkspaceIsLive DEF Marked, Live
<1> QED BY <1>1, <1>2, <1>3 DEF WsEffect

\* A new or a renewed placement.
LEMMA PlacedWs ==
  ASSUME TypeOK, NEW g \in Ids, NEW n \in Nodes, Placed(g, n) PROVE WsEffect(g)
<1>0. Live(g) BY DEF Placed
<1>1. PICK x \in Placement, r \in Nat :
        /\ ws' = Put(g, Placing(g, r, n, x)) /\ Fair(x)'
        /\ ~LinkedBeyond(g, x.owner)
  BY DEF Placed
<1> DEFINE W == Placing(g, r, n, x)
<1>2. /\ W \in Workspace /\ W.at[n] = x /\ W.closing = ws[g].closing
      /\ W.project = ws[g].project
      /\ \A i \in Nodes \ {n} : W.at[i] = ws[g].at[i]
  BY <1>0, PlacingFacts
<1> HIDE DEF W
<1>3. ws' = Put(g, W) BY <1>1 DEF W
<1>4. ws'[g] = W /\ \A h \in Ids \ {g} : ws'[h] = ws[h] BY <1>2, <1>3, PutFacts
<1>5. Live(g)' BY <1>2, <1>4, WorkspaceIsLive DEF Live
<1>6. x # None BY WorkspaceAssumption
<1>7. ASSUME NEW i \in Nodes, NEW m \in Placement, W.at[i] = m
      PROVE  ws[g].at[i] = m \/ (Fair(m)' /\ ~LinkedBeyond(g, m.owner))
  <2>1. CASE i = n
    <3>1. m = x BY <1>2, <1>7, <2>1
    <3> QED BY <1>1, <3>1
  <2>2. CASE i # n BY <1>2, <1>7, <2>2
  <2> QED BY <2>1, <2>2
<1>8. \A i \in Nodes : ws[g].at[i] # None => W.at[i] # None BY <1>2, <1>6
<1> QED BY <1>0, <1>2, <1>4, <1>5, <1>7, <1>8 DEF WsEffect

\* Placements that are lost.
LEMMA DroppedWs ==
  ASSUME TypeOK, NEW g \in Ids, Dropped(g) PROVE WsEffect(g)
<1>0. Live(g) /\ ws[g].closing BY DEF Dropped
<1>1. CASE /\ ws' = Put(g, Gone)
           /\ \A n \in Nodes : ws[g].at[n] # None => Lost(ws[g].at[n].owner, n)
  <2>1. ws'[g] = Gone /\ \A h \in Ids \ {g} : ws'[h] = ws[h] BY <1>1, PutFacts
  <2>2. ~Live(g)' BY <2>1 DEF Live
  <2> QED BY <1>1, <2>1, <2>2 DEF WsEffect
<1>2. ASSUME NEW W \in Workspace, ws' = Put(g, W), W.closing,
             W.project = ws[g].project,
             \A n \in Nodes : \/ W.at[n] = ws[g].at[n]
                              \/ W.at[n] = None /\ Lost(ws[g].at[n].owner, n)
      PROVE  WsEffect(g)
  <2>1. ws'[g] = W /\ \A h \in Ids \ {g} : ws'[h] = ws[h] BY <1>2, PutFacts
  <2>2. Live(g)' BY <2>1, WorkspaceIsLive DEF Live
  <2>3. \A n \in Nodes, m \in Placement : W.at[n] = m => ws[g].at[n] = m
    BY <1>2, WorkspaceAssumption
  <2> QED BY <1>0, <1>2, <2>1, <2>2, <2>3 DEF WsEffect
<1> QED BY <1>1, <1>2 DEF Dropped

\* A Workspace that goes with its last pending operation.
LEMMA CancelledWs ==
  ASSUME Shapes, NEW o \in Ops, Cancelled(o), ~UNCHANGED ws
  PROVE  \E g \in Ids : WsEffect(g)
<1>1. pend[o].g \in Ids BY PendFields DEF Cancelled
<1>2. PICK g \in Ids : g = pend[o].g BY <1>1
<1>3. ws' = Put(g, None) /\ \A n \in Nodes : ws[g].at[n] = None
  BY <1>2 DEF Cancelled
<1>4. ws'[g] = None /\ \A h \in Ids \ {g} : ws'[h] = ws[h]
  BY <1>3, PutFacts, ShapesTyped
<1>5. ~Live(g)' BY <1>4 DEF Live
<1> QED BY <1>3, <1>4, <1>5 DEF WsEffect

\* The fields of a global Workspace after the step.
LEMMA LaterFields ==
  ASSUME Shapes', NEW g \in Ids, Live(g)'
  PROVE  /\ ws'[g] \in Workspace
         /\ \A n \in Nodes : ws'[g].at[n] # None => ws'[g].at[n] \in Placement
<1>1. ws'[g] \in Workspace BY DEF Live, Shapes, WsPart
<1> QED BY <1>1 DEF Workspace

\* A step changes one global Workspace at most.
LEMMA OneWs ==
  ASSUME Shapes, Effect, ~UNCHANGED ws PROVE \E g \in Ids : WsEffect(g)
<1>1. \/ \E g \in Ids : \/ Made(g) \/ Marked(g) \/ Dropped(g)
                        \/ \E n \in Nodes : Placed(g, n)
      \/ \E o \in Ops : Projected(o) \/ Cancelled(o)
  BY DEF Effect, Reserved, Attempted
<1> QED BY <1>1, ShapesTyped, MadeWs, MarkedWs, DroppedWs, PlacedWs, ProjectedWs,
           CancelledWs

\* No owner Workspace is linked twice after the step.
LEMMA LinkStep ==
  ASSUME GInv, Shapes', Effect PROVE OneLink'
<1> USE Typed
<1>0. CASE UNCHANGED ws
  BY <1>0 DEF GInv, OneLink, Live, LinkedBeyond
<1>1. ASSUME NEW g \in Ids, WsEffect(g) PROVE OneLink'
  <2>1. \A h \in Ids \ {g} : ws'[h] = ws[h] BY <1>1 DEF WsEffect
  <2>2. \A h \in Ids \ {g} : Live(h)' = Live(h) BY <2>1 DEF Live
  <2>3. ASSUME NEW n \in Nodes, Live(g)', ws'[g].at[n] # None,
               NEW h \in Ids \ {g}, NEW i \in Nodes, Live(h)', ws'[h].at[i] # None,
               ws'[g].at[n].owner = ws'[h].at[i].owner
        PROVE  FALSE
    <3>1. ws'[g].at[n] \in Placement BY <2>3, LaterFields
    <3>2. PICK m \in Placement : m = ws'[g].at[n] BY <3>1
    <3>3. Live(h) /\ ws[h].at[i] # None /\ ws[h].at[i].owner = m.owner
      BY <2>1, <2>2, <2>3, <3>2
    <3>4. LinkedBeyond(g, m.owner) BY <3>3 DEF LinkedBeyond
    <3>5. Live(g) /\ ws[g].at[n] = m
      BY <1>1, <2>3, <3>2, <3>4 DEF WsEffect
    <3>6. ws[g].at[n] # None BY <3>5, WorkspaceAssumption
    <3> QED BY <3>4, <3>5, <3>6 DEF GInv, OneLink
  <2>4. ASSUME NEW h \in Ids, NEW n \in Nodes, Live(h)', ws'[h].at[n] # None,
               NEW j \in Ids \ {h}, NEW i \in Nodes, Live(j)', ws'[j].at[i] # None,
               ws'[j].at[i].owner = ws'[h].at[n].owner
        PROVE  FALSE
    <3>1. CASE h = g BY <2>3, <2>4, <3>1
    <3>2. CASE j = g BY <2>3, <2>4, <3>2
    <3>3. CASE h # g /\ j # g
      BY <2>1, <2>2, <2>4, <3>3 DEF GInv, OneLink, LinkedBeyond
    <3> QED BY <3>1, <3>2, <3>3
  <2>5. ASSUME NEW h \in Ids, NEW j \in Ids, Live(h)', ws'[h].project, Live(j)',
               ws'[j].project
        PROVE  h = j
    <3>1. CASE h # g /\ j # g
      BY <2>1, <2>2, <2>5, <3>1 DEF GInv, OneLink
    <3>2. CASE h = g /\ j # g
      <4>1. Live(j) /\ ws[j].project BY <2>1, <2>2, <2>5, <3>2
      <4>2. Live(g) /\ ws[g].project BY <1>1, <2>5, <3>2, <4>1 DEF WsEffect
      <4> QED BY <4>1, <4>2, <3>2 DEF GInv, OneLink
    <3>3. CASE j = g /\ h # g
      <4>1. Live(h) /\ ws[h].project BY <2>1, <2>2, <2>5, <3>3
      <4>2. Live(g) /\ ws[g].project BY <1>1, <2>5, <3>3, <4>1 DEF WsEffect
      <4> QED BY <4>1, <4>2, <3>3 DEF GInv, OneLink
    <3> QED BY <3>1, <3>2, <3>3
  <2> QED BY <2>4, <2>5 DEF OneLink, LinkedBeyond
<1> QED BY <1>0, <1>1, OneWs

\* Every placement has been seen at its owner.
LEMMA PlacementStep ==
  ASSUME GInv, Shapes', Effect, Ahead PROVE PlacementsSeen'
<1> USE Typed
<1> SUFFICES ASSUME NEW g \in Ids, NEW n \in Nodes, Live(g)', ws'[g].at[n] # None
             PROVE  (LET p == ws[g].at[n] IN
                     Seen(p.owner) /\ Honest(p.owner, p.revision, p.cwd))'
  BY DEF PlacementsSeen
<1>2. PICK m \in Placement : m = ws'[g].at[n] BY LaterFields
<1>3. m.owner \in Owners /\ m.revision \in Nat /\ m.cwd \in Cwds BY DEF Placement
<1>4. ASSUME Live(g), ws[g].at[n] = m PROVE Fair(m)'
  <2>1. m # None BY WorkspaceAssumption
  <2>2. Seen(m.owner) /\ Honest(m.owner, m.revision, m.cwd)
    BY <1>4, <2>1 DEF GInv, PlacementsSeen
  <2> QED BY <1>3, <2>2, AheadKeeps DEF Fair
<1>5. Fair(m)'
  <2>1. CASE UNCHANGED ws BY <1>2, <1>4, <2>1 DEF Live
  <2>2. ASSUME NEW h \in Ids, WsEffect(h) PROVE Fair(m)'
    <3>1. CASE h = g BY <1>2, <1>4, <2>2, <3>1 DEF WsEffect
    <3>2. CASE h # g BY <1>2, <1>4, <2>2, <3>2 DEF WsEffect, Live
    <3> QED BY <3>1, <3>2
  <2> QED BY <2>1, <2>2, OneWs
<1> QED BY <1>2, <1>5 DEF Fair

\* Only what is lost is dropped.
LEMMA GoneStep ==
  ASSUME GInv, Shapes', Effect, NEW g \in Ids, NEW n \in Nodes,
         Live(g), ws[g].at[n] # None, ~Live(g)' \/ ws'[g].at[n] = None
  PROVE  ws[g].at[n].owner \in shut \/ n \notin known
<1> USE Typed
<1>1. CASE UNCHANGED ws BY <1>1 DEF Live
<1>2. ASSUME NEW h \in Ids, WsEffect(h) PROVE Lost(ws[g].at[n].owner, n)
  <2>1. CASE h = g BY <1>2, <2>1 DEF WsEffect
  <2>2. CASE h # g BY <1>2, <2>2 DEF WsEffect, Live
  <2> QED BY <2>1, <2>2
<1> QED BY <1>1, <1>2, OneWs DEF Lost

-----------------------------------------------------------------------------
(* What is pending for a global Workspace.                                  *)

\* A change of a default directory starts for an open Workspace.
MoveEffect ==
  \A o \in Moves :
    \/ move'[o] = None
    \/ move[o] # None /\ move'[o].g = move[o].g
    \/ UNCHANGED <<ws, pend>> /\ ~ws[move'[o].g].closing

\* Every operation that is pending after the step was before, for the same
\* Workspace, Node and owner, or has just been reserved in agreement.
PendEffect(o) ==
  \/ pend'[o] = None
  \/ /\ pend[o] # None /\ pend'[o].g = pend[o].g /\ pend'[o].node = pend[o].node
     /\ pend'[o].owner = pend[o].owner

\* A step that reserves nothing.
LEMMA PendKept ==
  ASSUME Shapes, UNCHANGED pend \/ \E x \in Ops : pend' = [pend EXCEPT ![x] = None]
  PROVE  \A o \in Ops : PendEffect(o)
BY DEF PendEffect, Shapes, CallPart

\* A step reserves for one operation at most.
LEMMA PendOf ==
  ASSUME Shapes, Effect
  PROVE  \/ \A o \in Ops : PendEffect(o)
         \/ \E x \in Ops : /\ Projected(x) \/ Reserved(x)
                           /\ \A o \in Ops \ {x} : pend'[o] = pend[o]
<1>1. ASSUME NEW o \in Ops, Attempted(o) PROVE \A x \in Ops : PendEffect(x)
  BY <1>1 DEF Attempted, PendEffect, Shapes, CallPart
<1>2. ASSUME NEW o \in Ops, Projected(o) \/ Reserved(o)
      PROVE  \A x \in Ops \ {o} : pend'[x] = pend[x]
  BY <1>2 DEF Projected, Reserved, Shapes, CallPart
<1>3. CASE UNCHANGED <<ws, pend>> BY <1>3, PendKept
<1>4. ASSUME NEW g \in Ids, Made(g) \/ Marked(g) \/ Dropped(g)
      PROVE  \A x \in Ops : PendEffect(x)
  BY <1>4, PendKept DEF Made, Marked, Dropped
<1>5. ASSUME NEW g \in Ids, NEW n \in Nodes, Placed(g, n)
      PROVE  \A x \in Ops : PendEffect(x)
  BY <1>5, PendKept DEF Placed
<1>6. ASSUME NEW o \in Ops, Cancelled(o) PROVE \A x \in Ops : PendEffect(x)
  BY <1>6, PendKept DEF Cancelled
<1> QED BY <1>1, <1>2, <1>3, <1>4, <1>5, <1>6 DEF Effect

\* A Workspace that closes after the step has nothing pending before it.
LEMMA ClosingBefore ==
  ASSUME GInv, Effect, NEW g \in Ids, Live(g)', ws'[g].closing
  PROVE  NoPending(g)
<1> USE Typed
<1>1. Live(g) /\ ws[g].closing => NoPending(g) BY DEF GInv, ClosingIsQuiet
<1>2. CASE UNCHANGED ws BY <1>1, <1>2 DEF Live
<1>3. ASSUME NEW h \in Ids, WsEffect(h) PROVE NoPending(g)
  <2>1. CASE h = g BY <1>1, <1>3, <2>1 DEF WsEffect
  <2>2. CASE h # g BY <1>1, <1>3, <2>2 DEF WsEffect, Live
  <2> QED BY <2>1, <2>2
<1> QED BY <1>2, <1>3, OneWs

\* Nothing is pending for a Workspace that closes after the step.
LEMMA QuietStep ==
  ASSUME GInv, Shapes', Effect, MoveEffect PROVE ClosingIsQuiet'
<1> USE Typed
<1> SUFFICES ASSUME NEW g \in Ids, Live(g)', ws'[g].closing PROVE NoPending(g)'
  BY DEF ClosingIsQuiet
<1>1. NoPending(g) BY ClosingBefore
<1>2. ASSUME NEW o \in Ops, pend'[o] # None, pend'[o].g = g PROVE FALSE
  <2>1. ~PendEffect(o) BY <1>1, <1>2 DEF PendEffect, NoPending
  <2>2. PICK x \in Ops : /\ Projected(x) \/ Reserved(x)
                         /\ \A y \in Ops \ {x} : pend'[y] = pend[y]
    BY <2>1, PendOf
  <2>3. x = o BY <1>1, <1>2, <2>2 DEF NoPending
  <2>4. CASE Projected(o)
    <3>1. pend'[o].g = o BY <2>4 DEF Projected, Shapes, CallPart
    <3>2. o \in Ids /\ ws' = Put(o, NewWorkspace(TRUE))
      BY <2>4, IdFacts DEF Projected
    <3>3. ws'[o] = NewWorkspace(TRUE) BY <3>2, NewFacts, PutFacts
    <3> QED BY <1>2, <3>1, <3>3, NewFacts
  <2>5. CASE Reserved(o)
    <3>1. UNCHANGED ws /\ ~ws[pend'[o].g].closing
      BY <2>5 DEF Reserved, Shapes, CallPart
    <3> QED BY <1>2, <3>1
  <2> QED BY <2>2, <2>3, <2>4, <2>5
<1>3. ASSUME NEW o \in Moves, move'[o] # None, move'[o].g = g PROVE FALSE
  <2>1. CASE move[o] # None /\ move'[o].g = move[o].g
    BY <1>1, <1>3, <2>1 DEF NoPending
  <2>2. CASE UNCHANGED <<ws, pend>> /\ ~ws[move'[o].g].closing
    BY <1>3, <2>2
  <2> QED BY <1>3, <2>1, <2>2 DEF MoveEffect
<1> QED BY <1>2, <1>3 DEF NoPending

\* Operations that were pending for one Workspace and Node share their owner
\* as long as none is reserved.
LEMMA KeptShares ==
  ASSUME GInv, NEW o \in Ops, NEW p \in Ops, PendEffect(o), PendEffect(p),
         pend'[o] # None, pend'[p] # None, pend'[p].g = pend'[o].g,
         pend'[p].node = pend'[o].node
  PROVE  pend'[p].owner = pend'[o].owner
<1>1. /\ pend[o] # None /\ pend[p] # None /\ pend[p].g = pend[o].g
      /\ pend[p].node = pend[o].node
      /\ pend'[o].owner = pend[o].owner /\ pend'[p].owner = pend[p].owner
  BY DEF PendEffect
<1>2. p \in Sharing(pend[o].g, pend[o].node) BY <1>1 DEF Sharing
<1> QED BY <1>1, <1>2, Agreement

\* Pending operations share their owner after the step.
LEMMA SharesStep ==
  ASSUME GInv, Effect, NEW o \in Ops, NEW p \in Ops, pend'[o] # None,
         pend'[p] # None, pend'[p].g = pend'[o].g, pend'[p].node = pend'[o].node
  PROVE  pend'[p].owner = pend'[o].owner
<1> USE Typed
<1>1. CASE \A x \in Ops : PendEffect(x) BY <1>1, KeptShares
<1>2. ASSUME NEW x \in Ops, Projected(x),
             \A y \in Ops \ {x} : pend'[y] = pend[y]
      PROVE  pend'[p].owner = pend'[o].owner
  <2>1. pend'[x].g = x /\ ~Live(x)
    BY <1>2 DEF Projected, Shapes, CallPart, Live
  <2>2. ASSUME NEW y \in Ops \ {x}, pend'[y] # None PROVE pend'[y].g # x
    BY <1>2, <2>1, <2>2, Agreement
  <2>3. CASE o = x \/ p = x BY <2>1, <2>2, <2>3
  <2>4. CASE o # x /\ p # x BY <1>2, <2>4, KeptShares DEF PendEffect
  <2> QED BY <2>3, <2>4
<1>3. ASSUME NEW x \in Ops, Reserved(x),
             \A y \in Ops \ {x} : pend'[y] = pend[y]
      PROVE  pend'[p].owner = pend'[o].owner
  <2>1. PICK q \in Pending :
          /\ pend' = [pend EXCEPT ![x] = q]
          /\ \A y \in Sharing(q.g, q.node) : pend[y].owner = q.owner
    BY <1>3 DEF Reserved
  <2>2. pend'[x] = q BY <2>1 DEF Shapes, CallPart
  <2>3. ASSUME NEW y \in Ops \ {x}, pend'[y] # None, pend'[y].g = q.g,
               pend'[y].node = q.node
        PROVE  pend'[y].owner = q.owner
    BY <1>3, <2>1, <2>3 DEF Sharing
  <2>4. CASE o = x /\ p # x BY <2>2, <2>3, <2>4
  <2>5. CASE p = x /\ o # x BY <2>2, <2>3, <2>5
  <2>6. CASE o # x /\ p # x BY <1>3, <2>6, KeptShares DEF PendEffect
  <2> QED BY <2>4, <2>5, <2>6
<1> QED BY <1>1, <1>2, <1>3, PendOf

\* The Workspace of a pending operation stays, and a placement it gets there is
\* of the owner Workspace that the operation reserved.
Hosts(o) ==
  /\ Live(pend[o].g)
  /\ ws[pend[o].g].at[pend[o].node] # None =>
       ws[pend[o].g].at[pend[o].node].owner = pend[o].owner

\* A Workspace that a step leaves or agrees with goes on hosting.
LEMMA HostsOne ==
  ASSUME GInv, NEW g \in Ids, NEW o \in Ops, pend[o] # None, PendEffect(o),
         pend'[o] # None,
         \A h \in Ids \ {g} : ws'[h] = ws[h],
         pend[o].g = g =>
           /\ Live(g)'
           /\ \/ ws'[g].at[pend[o].node] = ws[g].at[pend[o].node]
              \/ ws'[g].at[pend[o].node].owner = pend[o].owner
  PROVE  Hosts(o)'
<1>1. pend[o].g \in Ids /\ Live(pend[o].g) BY Typed, PendFields, Agreement
<1>2. ws[pend[o].g].at[pend[o].node] # None =>
        ws[pend[o].g].at[pend[o].node].owner = pend[o].owner
  BY Agreement
<1>3. /\ pend'[o].g = pend[o].g /\ pend'[o].node = pend[o].node
      /\ pend'[o].owner = pend[o].owner
  BY DEF PendEffect
<1>4. CASE pend[o].g = g
  <2>1. Live(g)' /\ pend'[o].g = g BY <1>3, <1>4
  <2>2. Live(pend[o].g)' BY <2>1 DEF Live
  <2> QED BY <1>2, <1>3, <1>4, <2>2 DEF Hosts
<1>5. CASE pend[o].g # g
  <2>1. ws'[pend[o].g] = ws[pend[o].g] BY <1>1, <1>5
  <2> QED BY <1>1, <1>2, <1>3, <2>1 DEF Hosts, Live
<1> QED BY <1>4, <1>5

\* Every step goes on hosting what is pending.
LEMMA HostsStep ==
  ASSUME GInv, Effect, NEW o \in Ops, pend'[o] # None
  PROVE  Hosts(o)'
<1> USE Typed
<1>0. CASE UNCHANGED <<ws, pend>>
  BY <1>0, Agreement DEF Hosts, Live
<1>1. ASSUME NEW g \in Ids, Made(g) PROVE Hosts(o)'
  <2>1. UNCHANGED pend /\ ~Live(g) BY <1>1 DEF Made, Live
  <2>2. pend[o] # None /\ PendEffect(o) BY <2>1 DEF PendEffect
  <2>3. pend[o].g # g BY <2>1, <2>2, Agreement
  <2>4. \A h \in Ids \ {g} : ws'[h] = ws[h] BY <1>1, MadeWs DEF WsEffect
  <2> QED BY <2>2, <2>3, <2>4, HostsOne
<1>2. ASSUME NEW g \in Ids, Marked(g) PROVE Hosts(o)'
  <2>1. UNCHANGED pend BY <1>2 DEF Marked
  <2>2. pend[o] # None /\ PendEffect(o) BY <2>1 DEF PendEffect
  <2>3. PICK W \in Workspace : ws' = Put(g, W) /\ W.at = ws[g].at
    BY <1>2 DEF Marked
  <2>4. ws'[g] = W /\ \A h \in Ids \ {g} : ws'[h] = ws[h] BY <2>3, PutFacts
  <2>5. Live(g)' BY <2>4, WorkspaceIsLive DEF Live
  <2> QED BY <2>2, <2>3, <2>4, <2>5, HostsOne
<1>3. ASSUME NEW g \in Ids, Dropped(g) PROVE Hosts(o)'
  <2>1. UNCHANGED pend /\ Live(g) /\ ws[g].closing BY <1>3 DEF Dropped
  <2>2. pend[o] # None /\ PendEffect(o) BY <2>1 DEF PendEffect
  <2>3. pend[o].g # g BY <2>1, <2>2, Agreement
  <2>4. \A h \in Ids \ {g} : ws'[h] = ws[h] BY <1>3, DroppedWs DEF WsEffect
  <2> QED BY <2>2, <2>3, <2>4, HostsOne
<1>4. ASSUME NEW g \in Ids, NEW n \in Nodes, Placed(g, n) PROVE Hosts(o)'
  <2>0. Live(g) BY <1>4 DEF Placed
  <2>1. PendEffect(o) BY <1>4, PendKept DEF Placed
  <2>2. pend[o] # None BY <2>1 DEF PendEffect
  <2>3. PICK m \in Placement, r \in Nat :
          /\ ws' = Put(g, Placing(g, r, n, m))
          /\ \A x \in Sharing(g, n) : pend[x].owner = m.owner
    BY <1>4 DEF Placed
  <2> DEFINE W == Placing(g, r, n, m)
  <2>4. /\ W \in Workspace /\ W.at[n] = m
        /\ \A i \in Nodes \ {n} : W.at[i] = ws[g].at[i]
    BY <2>0, PlacingFacts
  <2>5. ws' = Put(g, W) BY <2>3
  <2> HIDE DEF W
  <2>6. ws'[g] = W /\ \A h \in Ids \ {g} : ws'[h] = ws[h]
    BY <2>4, <2>5, PutFacts
  <2>7. Live(g)' BY <2>4, <2>6, WorkspaceIsLive DEF Live
  <2>8. pend[o].node \in Nodes BY <2>2, PendFields
  <2>9. ASSUME pend[o].g = g
        PROVE  \/ ws'[g].at[pend[o].node] = ws[g].at[pend[o].node]
               \/ ws'[g].at[pend[o].node].owner = pend[o].owner
    <3>1. CASE pend[o].node = n
      <4>1. o \in Sharing(g, n) BY <2>2, <2>9, <3>1 DEF Sharing
      <4> QED BY <2>3, <2>4, <2>6, <3>1, <4>1
    <3>2. CASE pend[o].node # n BY <2>4, <2>6, <2>8, <3>2
    <3> QED BY <3>1, <3>2
  <2> QED BY <2>1, <2>2, <2>6, <2>7, <2>9, HostsOne
<1>5. ASSUME NEW x \in Ops, Cancelled(x), ~UNCHANGED ws PROVE Hosts(o)'
  <2>1. /\ pend[x] # None /\ pend' = [pend EXCEPT ![x] = None]
        /\ ws' = Put(pend[x].g, None)
        /\ \A p \in Ops \ {x} : pend[p] = None \/ pend[p].g # pend[x].g
    BY <1>5 DEF Cancelled
  <2>2. o # x /\ pend'[o] = pend[o] BY <2>1 DEF Shapes, CallPart
  <2>3. PICK g \in Ids : g = pend[x].g BY <2>1, PendFields
  <2>4. pend[o] # None /\ PendEffect(o) /\ pend[o].g # g
    BY <2>1, <2>2, <2>3 DEF PendEffect
  <2>5. \A h \in Ids \ {g} : ws'[h] = ws[h] BY <2>1, <2>3, PutFacts
  <2> QED BY <2>4, <2>5, HostsOne
<1>6. ASSUME NEW x \in Ops, Attempted(x) \/ Cancelled(x), UNCHANGED ws
      PROVE  Hosts(o)'
  <2>1. PendEffect(o)
    BY <1>6 DEF Attempted, Cancelled, PendEffect, Shapes, CallPart
  <2> QED BY <1>6, <2>1, Agreement DEF PendEffect, Hosts, Live
<1>7. ASSUME NEW x \in Ops, Reserved(x) PROVE Hosts(o)'
  <2>1. PICK q \in Pending :
          /\ UNCHANGED ws /\ pend' = [pend EXCEPT ![x] = q] /\ Live(q.g)
          /\ ws[q.g].at[q.node] # None => ws[q.g].at[q.node].owner = q.owner
    BY <1>7 DEF Reserved
  <2>2. CASE o = x
    <3>1. pend'[o] = q BY <2>1, <2>2 DEF Shapes, CallPart
    <3> QED BY <2>1, <3>1 DEF Hosts, Live
  <2>3. CASE o # x
    <3>1. pend'[o] = pend[o] BY <2>1, <2>3 DEF Shapes, CallPart
    <3> QED BY <2>1, <3>1, Agreement DEF Hosts, Live
  <2> QED BY <2>2, <2>3
<1>8. ASSUME NEW x \in Ops, Projected(x) PROVE Hosts(o)'
  <2>1. x \in Ids /\ ws' = Put(x, NewWorkspace(TRUE)) /\ ~Live(x)
    BY <1>8, IdFacts DEF Projected, Live
  <2>2. ws'[x] = NewWorkspace(TRUE) /\ \A h \in Ids \ {x} : ws'[h] = ws[h]
    BY <2>1, NewFacts, PutFacts
  <2>3. CASE o = x
    <3>1. PICK q \in Pending : q.g = x /\ pend' = [pend EXCEPT ![x] = q]
      BY <1>8 DEF Projected
    <3>2. pend'[o] = q BY <2>3, <3>1 DEF Shapes, CallPart
    <3>3. q.node \in Nodes BY DEF Pending
    <3> QED BY <2>2, <3>1, <3>2, <3>3, NewFacts, WorkspaceIsLive, ZenonT(90) DEF Hosts, Live
  <2>4. CASE o # x
    <3>1. pend'[o] = pend[o]
      BY <1>8, <2>4 DEF Projected, Shapes, CallPart
    <3>2. pend[o] # None /\ PendEffect(o) BY <3>1 DEF PendEffect
    <3>3. pend[o].g # x BY <2>1, <3>2, Agreement
    <3> QED BY <2>1, <2>2, <3>2, <3>3, HostsOne
  <2> QED BY <2>3, <2>4
<1>9. ASSUME NEW x \in Ops, Attempted(x) PROVE Hosts(o)'
  BY <1>6, <1>9 DEF Attempted
<1>10. ASSUME NEW x \in Ops, Cancelled(x) PROVE Hosts(o)'
  BY <1>5, <1>6, <1>10
<1> QED BY <1>0, <1>1, <1>2, <1>3, <1>4, <1>7, <1>8, <1>9, <1>10 DEF Effect

\* Pending operations agree on one owner Workspace after the step.
LEMMA SharedStep ==
  ASSUME GInv, Effect PROVE OwnerShared'
BY SharesStep, HostsStep DEF OwnerShared, Sharing, Hosts

-----------------------------------------------------------------------------
(* What the handlers have seen of the owners.                               *)

\* A handler leaves the other operations alone.
Others(o) ==
  \A x \in Ops \ {o} :
    call'[x] = call[x] /\ pend'[x] = pend[x] /\ done'[x] = done[x]

\* A change of one entry leaves the others alone.
LEMMA OthersFrom ==
  ASSUME Shapes, NEW o \in Ops, NEW c, NEW p, NEW d,
         UNCHANGED call \/ call' = [call EXCEPT ![o] = c],
         UNCHANGED pend \/ pend' = [pend EXCEPT ![o] = p],
         UNCHANGED done \/ done' = [done EXCEPT ![o] = d]
  PROVE  Others(o)
BY DEF Others, Shapes, CallPart

\* What an operation's handler does to its own entries.
LEMMA OneEntry ==
  ASSUME Shapes, NEW o \in Ops
  PROVE  /\ \A c : call' = [call EXCEPT ![o] = c] => call'[o] = c
         /\ \A p : pend' = [pend EXCEPT ![o] = p] => pend'[o] = p
         /\ \A d : done' = [done EXCEPT ![o] = d] => done'[o] = d
BY DEF Shapes, CallPart

\* The steps of a handler that observe the owner Workspace, and the others.
Observing(o) ==
  /\ pend[o] # None /\ Exists(pend[o].owner) /\ Observe(o)
  /\ UNCHANGED <<pend, done, own, shut, blind, flight>>

\* A step of an operation is a step of its handler alone.
LEMMA OpCall ==
  ASSUME Shapes, NEW o \in Ops, OpSteps(o)
  PROVE  /\ Others(o)
         /\ Observing(o) \/ call'[o].pc # "complete"
<1>a. ASSUME StartLocally(o)
      PROVE  Others(o) /\ call'[o].pc # "complete"
  <2>1. /\ call' = [call EXCEPT ![o].pc = "local", ![o].seen = ws[req[o].g]]
        /\ UNCHANGED <<pend, done>>
    BY <1>a DEF StartLocally, storeVars
  <2> QED BY <2>1 DEF Others, Shapes, CallPart, Call
<1>b. ASSUME Look(o)
      PROVE  Others(o) /\ call'[o].pc # "complete"
  <2>1. /\ \E d : call' = [call EXCEPT ![o].pc = "prepare", ![o].cwd = d]
        /\ UNCHANGED <<pend, done>>
    BY <1>b DEF Look, storeVars
  <2> QED BY <2>1 DEF Others, Shapes, CallPart, Call
<1>c. ASSUME SendAgain(o)
      PROVE  Others(o) /\ call'[o].pc # "complete"
  <2>1. /\ call' = [call EXCEPT ![o].again = TRUE] /\ call[o].pc = "sent"
        /\ UNCHANGED <<pend, done>>
    BY <1>c DEF SendAgain, storeVars
  <2> QED BY <2>1 DEF Others, Shapes, CallPart, Call
<1>2. ASSUME PrepareProject(o)
      PROVE  Others(o) /\ call'[o].pc # "complete"
  <2>1. call[o].pc = "idle" BY <1>2 DEF PrepareProject
  <2> QED BY <1>2, <2>1 DEF PrepareProject, Goto, Idle, Others, Shapes, CallPart
<1>3. ASSUME DropProject(o)
      PROVE  Others(o) /\ call'[o].pc # "complete"
  BY <1>3, CancelFacts, OthersFrom DEF DropProject, Others, Shapes, CallPart
<1>4. ASSUME Prepare(o)
      PROVE  Others(o) /\ call'[o].pc # "complete"
  BY <1>4 DEF Prepare, Goto, Idle, Others, Shapes, CallPart
<1>5. ASSUME Check(o)
      PROVE  Others(o) /\ (Observing(o) \/ call'[o].pc # "complete")
  <2>1. CASE Present(o)
    <3>1. Observing(o)
      BY <1>5, <2>1 DEF Check, Present, Observing, storeVars, rest, most
    <3> QED BY <3>1, ObserveFacts, OthersFrom DEF Observing
  <2>2. CASE ~Present(o)
    BY <1>5, <2>2 DEF Check, Goto, Idle, Others, storeVars, Shapes, CallPart
  <2> QED BY <2>1, <2>2
<1>6. ASSUME Send(o)
      PROVE  Others(o) /\ call'[o].pc # "complete"
  BY <1>6 DEF Send, Others, Shapes, CallPart
<1>7. ASSUME Answered(o) \/ Unknown(o)
      PROVE  Others(o) /\ call'[o].pc # "complete"
  BY <1>7 DEF Answered, Unknown, Goto, Stop, Idle, Others, storeVars, Shapes,
              CallPart
<1>8. ASSUME Refused(o) \/ Unroutable(o)
      PROVE  Others(o) /\ call'[o].pc # "complete"
  <2>1. Stop(o) /\ UNCHANGED done BY <1>8 DEF Refused, Unroutable
  <2>2. pend' = [pend EXCEPT ![o] = None] \/ pend' = [pend EXCEPT ![o].attempted = TRUE]
    BY <1>8 DEF Refused, Unroutable, Refusal, Cancel
  <2> QED BY <2>1, <2>2 DEF Stop, Idle, Others, Shapes, CallPart
<1>9. ASSUME Verify(o) \/ Reconcile(o)
      PROVE  Others(o) /\ Observing(o)
  <2>1. pend[o] # None
    BY <1>9 DEF Verify, Reconcile, Shapes, CallPart, CallShape
  <2>2. Observing(o)
    BY <1>9, <2>1 DEF Verify, Reconcile, Present, Observing, storeVars, rest, most
  <2> QED BY <2>2, ObserveFacts, OthersFrom DEF Observing
<1>10. ASSUME Complete(o) \/ CreateLocally(o)
       PROVE  Others(o) /\ call'[o].pc # "complete"
  <2>1. Stop(o) BY <1>10 DEF Complete, CreateLocally
  <2>2. UNCHANGED pend \/ pend' = [pend EXCEPT ![o] = None]
    BY <1>10 DEF Complete, CreateLocally
  <2>3. \E g : done' = [done EXCEPT ![o] = g]
    BY <1>10 DEF Complete, CreateLocally
  <2> QED BY <2>1, <2>2, <2>3 DEF Stop, Idle, Others, Shapes, CallPart
<1>11. ASSUME Fails(o)
       PROVE  Others(o) /\ call'[o].pc # "complete"
  <2>1. Stop(o) /\ UNCHANGED done BY <1>11 DEF Fails
  <2>2. UNCHANGED pend \/ pend' = [pend EXCEPT ![o] = None]
    BY <1>11 DEF Fails, Cancel
  <2> QED BY <2>1, <2>2 DEF Stop, Idle, Others, Shapes, CallPart
<1> QED BY <1>a, <1>b, <1>c, <1>2, <1>3, <1>4, <1>5, <1>6, <1>7, <1>8, <1>9, <1>10,
           <1>11 DEF OpSteps

\* A handler that waits to complete has still seen the owner.
LEMMA CallsKept ==
  ASSUME GInv, Shapes', Ahead, NEW o \in Ops, call'[o] = call[o],
         pend'[o] = pend[o], call'[o].pc = "complete"
  PROVE  /\ Seen(pend[o].owner)'
         /\ Honest(pend[o].owner, call[o].revision, call[o].cwd)'
<1> USE Typed
<1>1. /\ Seen(pend[o].owner)
      /\ Honest(pend[o].owner, call[o].revision, call[o].cwd)
  BY DEF GInv, CallsSeen
<1>2. pend[o] # None BY DEF Shapes, CallPart, CallShape
<1>3. /\ pend[o].owner \in Owners /\ call[o].revision \in Nat
      /\ call[o].cwd \in Cwds
  BY <1>2, PendFields, CallFields
<1>4. PICK w \in Owners, r \in Nat, d \in Cwds :
        w = pend[o].owner /\ r = call[o].revision /\ d = call[o].cwd
  BY <1>3
<1>5. Seen(w)' /\ Honest(w, r, d)' BY <1>1, <1>4, AheadKeeps
<1> QED BY <1>4, <1>5

\* A handler that observes the owner shows it as it is.
LEMMA ObservedSeen ==
  ASSUME GInv, NEW o \in Ops, Observing(o)
  PROVE  /\ Seen(pend[o].owner)'
         /\ Honest(pend[o].owner, call[o].revision, call[o].cwd)'
<1> USE Typed
<1>1. PICK c \in Call :
        /\ call' = [call EXCEPT ![o] = c]
        /\ c.revision = own[pend[o].owner].revision
        /\ c.cwd = own[pend[o].owner].cwd
  BY ObserveFacts DEF Observing
<1>2. call'[o] = c BY <1>1, OneEntry
<1>3. own[pend[o].owner].revision \in Nat
  BY PendFields, OwnFields DEF Observing
<1> QED BY <1>1, <1>2, <1>3 DEF Observing, Seen, Honest, Exists

\* Every handler that is about to complete has seen the owner.
LEMMA CallsStep ==
  ASSUME GInv, Shapes', Ahead, Steps PROVE CallsSeen'
<1> USE Typed
<1> SUFFICES ASSUME NEW o \in Ops, call'[o].pc = "complete"
             PROVE  /\ Seen(pend[o].owner)'
                    /\ Honest(pend[o].owner, call[o].revision, call[o].cwd)'
  BY DEF CallsSeen
<1>1. ASSUME NEW x \in Ops, OpSteps(x)
      PROVE  \/ Observing(o)
             \/ call'[o] = call[o] /\ pend'[o] = pend[o]
  <2>1. CASE x = o BY <1>1, <2>1, OpCall
  <2>2. CASE x # o BY <1>1, <2>2, OpCall DEF Others
  <2> QED BY <2>1, <2>2
<1>2. Observing(o) \/ (call'[o] = call[o] /\ pend'[o] = pend[o])
  <2>1. CASE StoreSteps
    BY <2>1, ZenonT(90) DEF StoreSteps, Create, Rename, Adopt, Link, FirstCall, storeVars
  <2>2. CASE CloserSteps
    BY <2>2, ZenonT(90) DEF CloserSteps, BeginClose, RetryClose, EndClose, CloseOwner, Confirm,
                ReadToClose, SkipToClose, storeVars
  <2>3. CASE OwnerSteps
    BY <2>3 DEF OwnerSteps, AppliedLate, OwnerSetsCwd, OwnerDeletes, OwnerCloses,
                Forget, storeVars
  <2> QED BY <1>1, <2>1, <2>2, <2>3, Sorted
<1> QED BY <1>2, CallsKept, ObservedSeen

-----------------------------------------------------------------------------
(* What the handlers of close requests have seen of the owners.             *)

ToClose(x) ==
  /\ \A n \in Nodes : x.todo[n] # None => Seen(x.todo[n])
  /\ x.pc = "close" => x.owner \in Owners /\ Seen(x.owner)
  /\ x.pc = "confirm" => x.owner \in shut \/ x.node \notin known

\* A handler that has not moved has seen what it had seen.
LEMMA CloserAhead ==
  ASSUME Ahead, Shapes, Shapes', NEW x \in Close, ToClose(x)
  PROVE  ToClose(x)'
<1>1. ASSUME NEW n \in Nodes, x.todo[n] # None PROVE Seen(x.todo[n])'
  <2>1. x.todo[n] \in Owners BY <1>1 DEF Close
  <2> QED BY <1>1, <2>1, AheadKeeps DEF ToClose
<1>2. x.pc = "close" => x.owner \in Owners /\ Seen(x.owner)'
  BY AheadKeeps DEF ToClose
<1>3. x.pc = "confirm" => x.owner \in shut' \/ x.node \notin known'
  BY DEF ToClose, Ahead
<1> QED BY <1>1, <1>2, <1>3 DEF ToClose

\* What a handler is closing it has seen.
LEMMA ToCloseNow ==
  ASSUME GInv, NEW k \in Closers PROVE ToClose(closer[k])
<1> USE Typed
<1>1. closer[k].pc = "close" => closer[k].owner \in Owners
  BY CloseFields
<1> QED BY <1>1 DEF ToClose, GInv, ClosersSeen

\* Placements that are read to be closed have been seen at their owners.
LEMMA ReadsToClose ==
  ASSUME GInv, Shapes', Ahead, NEW k \in Closers, NEW g \in Ids, Live(g),
         Closes(k, g)
  PROVE  \E x \in Close : closer' = [closer EXCEPT ![k] = x] /\ ToClose(x)'
<1> USE Typed
<1>1. PICK x \in Close :
        /\ closer' = [closer EXCEPT ![k] = x] /\ x.pc = "next"
        /\ \A n \in Nodes : \/ x.todo[n] = None
                            \/ /\ ws[g].at[n] # None
                               /\ x.todo[n] = ws[g].at[n].owner
  BY ClosesFacts
<1>2. ToClose(x)
  <2> SUFFICES ASSUME NEW n \in Nodes, x.todo[n] # None PROVE Seen(x.todo[n])
    BY <1>1 DEF ToClose
  <2> QED BY <1>1 DEF GInv, PlacementsSeen
<1> QED BY <1>1, <1>2, CloserAhead

\* One step of a handler.
LEMMA OneToClose ==
  ASSUME GInv, Shapes', Ahead, NEW k \in Closers,
         \/ \E g \in Ids : BeginClose(k, g) \/ RetryClose(k, g)
         \/ EndClose(k) \/ CloseOwner(k) \/ Confirm(k)
         \/ \E n \in Nodes : ReadToClose(k, n) \/ SkipToClose(k, n)
  PROVE  \E x \in Close : closer' = [closer EXCEPT ![k] = x] /\ ToClose(x)'
<1> USE Typed, ToCloseNow, CloserAhead
<1>1. ASSUME NEW g \in Ids, BeginClose(k, g) \/ RetryClose(k, g)
      PROVE  \E x \in Close : closer' = [closer EXCEPT ![k] = x] /\ ToClose(x)'
  BY <1>1, ReadsToClose DEF BeginClose, RetryClose
<1>2. ToClose(NotClosing)' BY NotClosingFacts DEF ToClose
<1>3. ASSUME closer[k].pc # "idle", Resume(k)
      PROVE  \E x \in Close : closer' = [closer EXCEPT ![k] = x] /\ ToClose(x)'
  <2>1. PICK x \in Close :
          /\ closer' = [closer EXCEPT ![k] = x] /\ x.pc = "next"
          /\ x.todo = closer[k].todo
    BY <1>3, ResumeFacts
  <2>2. ToClose(x) BY <2>1 DEF ToClose
  <2> QED BY <2>1, <2>2
<1>4. CASE EndClose(k)
  BY <1>4, <1>2, NotClosingFacts DEF EndClose
<1>5. CASE CloseOwner(k)
  <2>1. PICK x \in Close :
          LET w == closer[k].owner IN
          /\ w \in Owners /\ closer[k].pc = "close"
          /\ closer' = [closer EXCEPT ![k] = x] /\ x.todo = closer[k].todo
          /\ \/ x.pc = "next"
             \/ /\ x.pc = "confirm" /\ x.owner = w /\ x.node = closer[k].node
                /\ own'[w].revision = 0 \/ closer[k].node \notin known
    BY <1>5, CloseOwnerFacts
  <2>2. CASE x.pc = "next"
    <3>1. ToClose(x) BY <2>1, <2>2 DEF ToClose
    <3> QED BY <2>1, <3>1
  <2>3. CASE x.pc = "confirm"
    <3>1. PICK w \in Owners : w = closer[k].owner BY <2>1
    <3>2. Seen(w) BY <2>1, <3>1 DEF ToClose
    <3>3. Seen(w)' BY <3>2, AheadKeeps
    <3>4. x.owner \in shut' \/ x.node \notin known'
      BY <2>1, <2>3, <3>1, <3>3 DEF Seen, Exists, Ahead
    <3>5. \A n \in Nodes : x.todo[n] # None => Seen(x.todo[n])'
      <4> SUFFICES ASSUME NEW n \in Nodes, x.todo[n] # None
                   PROVE  Seen(x.todo[n])'
        OBVIOUS
      <4>1. x.todo[n] \in Owners BY DEF Close
      <4>2. Seen(x.todo[n]) BY <2>1 DEF ToClose
      <4> QED BY <4>1, <4>2, AheadKeeps
    <3>6. ToClose(x)' BY <2>3, <3>4, <3>5 DEF ToClose
    <3> QED BY <2>1, <3>6
  <2> QED BY <2>1, <2>2, <2>3
<1>6. CASE Confirm(k)
  <2>1. closer[k].pc # "idle" BY <1>6 DEF Confirm
  <2>2. Resume(k) \/ closer' = [closer EXCEPT ![k] = NotClosing]
    BY <1>6 DEF Confirm
  <2> QED BY <2>1, <2>2, <1>2, <1>3, NotClosingFacts
<1>7. ASSUME NEW n \in Nodes, ReadToClose(k, n)
      PROVE  \E x \in Close : closer' = [closer EXCEPT ![k] = x] /\ ToClose(x)'
  <2>1. PICK x \in Close :
          LET w == closer[k].todo[n] IN
          /\ closer' = [closer EXCEPT ![k] = x] /\ x.node = n
          /\ w \in Owners /\ x.owner = w
          /\ \A i \in Nodes : x.todo[i] \in {None, closer[k].todo[i]}
          /\ \/ x.pc = "close" /\ n \in known /\ Exists(w)
             \/ x.pc = "confirm" /\ (n \notin known \/ ~Exists(w))
    BY <1>7, ReadFacts
  <2>2. Seen(x.owner)
    BY <2>1, IdsAreNot DEF ToClose
  <2>3. ToClose(x) BY <2>1, <2>2 DEF ToClose, Seen
  <2> QED BY <2>1, <2>3
<1>8. ASSUME NEW n \in Nodes, SkipToClose(k, n)
      PROVE  \E x \in Close : closer' = [closer EXCEPT ![k] = x] /\ ToClose(x)'
  <2>1. PICK x \in Close :
          /\ closer' = [closer EXCEPT ![k] = x] /\ x.pc = "next"
          /\ \A i \in Nodes : x.todo[i] \in {None, closer[k].todo[i]}
    BY <1>8, SkipFacts
  <2>2. ToClose(x) BY <2>1 DEF ToClose
  <2> QED BY <2>1, <2>2
<1> QED BY <1>1, <1>4, <1>5, <1>6, <1>7, <1>8

\* Every step keeps what the handlers of closes have seen.
LEMMA ClosersStep ==
  ASSUME GInv, Shapes', Ahead, Steps PROVE ClosersSeen'
<1> USE Typed
<1> SUFFICES ASSUME NEW k \in Closers PROVE ToClose(closer[k])'
  BY DEF ClosersSeen, ToClose
<1>1. CASE UNCHANGED closer
  <2>1. PICK x \in Close : x = closer[k] BY CloseFields
  <2>2. ToClose(x)' BY <2>1, ToCloseNow, CloserAhead
  <2> QED BY <1>1, <2>1, <2>2 DEF ToClose, Seen, Exists
<1>2. CASE CloserSteps
  <2>1. PICK j \in Closers, x \in Close :
          closer' = [closer EXCEPT ![j] = x] /\ ToClose(x)'
    BY <1>2, OneToClose DEF CloserSteps
  <2>2. CASE k = j
    <3>1. closer'[k] = x BY <2>1, <2>2 DEF Shapes, CloserPart
    <3> QED BY <2>1, <3>1 DEF ToClose
  <2>3. CASE k # j
    <3>1. closer'[k] = closer[k] BY <2>1, <2>3 DEF Shapes, CloserPart
    <3>2. PICK y \in Close : y = closer[k] BY CloseFields
    <3>3. ToClose(y)' BY <3>2, ToCloseNow, CloserAhead
    <3> QED BY <3>1, <3>2, <3>3 DEF ToClose
  <2> QED BY <2>2, <2>3
<1>3. StoreSteps \/ (\E o \in Ops : OpSteps(o)) \/ OwnerSteps =>
        UNCHANGED closer \/ CloserSteps
  <2>1. CASE StoreSteps
    BY <2>1 DEF StoreSteps, Create, Rename, Adopt, Link, FirstCall
  <2>2. ASSUME NEW o \in Ops, OpSteps(o) PROVE UNCHANGED closer
    BY <2>2 DEF OpSteps, StartLocally, PrepareProject, DropProject, Look, Prepare,
         Check, Send, Answered, SendAgain, Unknown, Refused, Unroutable, Verify,
         Complete, Fails, Reconcile, CreateLocally
  <2>3. CASE OwnerSteps
    BY <2>3 DEF OwnerSteps, AppliedLate, OwnerSetsCwd, OwnerDeletes, OwnerCloses,
                Forget
  <2> QED BY <2>1, <2>2, <2>3
<1> QED BY <1>1, <1>2, <1>3, Sorted

-----------------------------------------------------------------------------
(* What the owners hold and what is in flight is accounted for.             *)

\* An operation goes on answering for what it has asked for, or has nothing
\* left to answer for.
Standing(o) == /\ done[o] # None => done'[o] # None
               /\ o \in blind => o \in blind'
Steady(o) ==
  pend[o] # None /\ pend[o].attempted =>
    \/ done'[o] # None \/ o \in blind'
    \/ /\ pend'[o] # None /\ pend'[o].attempted
       /\ pend'[o].resource = pend[o].resource
Freed(o) == o \in Creates /\ Alone(o, {})'
\* What an owner Workspace holds was held before, has just been applied, or has
\* an operation that completed with it; what is in flight is answered for.
HoldsFrom ==
  \A w \in Owners : \A r \in own'[w].holds :
    \/ r \in own[w].holds
    \/ \E m \in flight \ flight' : r = m.resource
    \/ done'[r] # None
FlightFrom == \A m \in flight' \ flight : Answers(m.op, m.resource)'
\* A handler that waits for the answer to its first request.
Waits(o) ==
  o \in Creates \ blind' /\ call'[o].pc = "sent" /\ ~call'[o].again =>
    \/ Alone(o, {RequestOf(o, FALSE)})'
    \/ /\ call'[o] = call[o] /\ pend'[o] = pend[o]
       /\ \A m \in flight' \ flight : m.op # o
Answering ==
  /\ \A o \in Ops : Standing(o) /\ (Steady(o) \/ Freed(o)) /\ Waits(o)
  /\ HoldsFrom /\ FlightFrom

\* An operation answers for what it answered for, unless it has been freed.
LEMMA AnswersKept ==
  ASSUME Shapes, NEW o \in Ops, NEW r, Answers(o, r), Standing(o), Steady(o)
  PROVE  Answers(o, r)'
BY DEF Answers, Standing, Steady

\* Who asks for the resource of a creation.
LEMMA CreatesAsk ==
  ASSUME NEW o \in Creates, NEW r PROVE /\ Asks(o, r) => o = r
                                        /\ Asks(r, o) => o = r
<1>1. o \notin Projects BY WorkspaceAssumption
<1> QED BY <1>1 DEF Asks

\* The fields of what is in flight.
LEMMA FlightFields ==
  ASSUME Shapes, NEW m \in flight
  PROVE  /\ m.op \in Ops /\ m.owner \in Owners /\ m.cwd \in Cwds
         /\ m.resource \in Ops /\ req[m.op] # None
         /\ req[m.op].node \in Nodes /\ Asks(m.op, m.resource)
<1>1. m \in Request BY DEF Shapes, FlightPart
<1>2. m.op \in Ops BY <1>1 DEF Request
<1> QED BY <1>1, <1>2, ReqFields DEF Request, Shapes, FlightPart, FlightShape

\* Whatever an owner holds after the step is answered for.
LEMMA HeldAnswered ==
  ASSUME Shapes, Shapes', Accounted, Answering, NEW w \in Owners,
         NEW r \in own'[w].holds
  PROVE  \E o \in Ops : Asks(o, r) /\ Answers(o, r)'
<1>1. r \in Ops BY OwnFields, Shapes' DEF Shapes, OwnPart, OwnerWorkspace
<1>2. ASSUME NEW o \in Ops, Asks(o, r), Answers(o, r)
      PROVE  Answers(o, r)'
  <2>1. CASE Steady(o) BY <1>2, <2>1, AnswersKept DEF Answering
  <2>2. CASE Freed(o)
    BY <1>2, <2>2, CreatesAsk DEF Freed, Alone
  <2> QED BY <2>1, <2>2 DEF Answering
<1>3. CASE r \in own[w].holds BY <1>2, <1>3 DEF Accounted
<1>4. ASSUME NEW m \in flight, r = m.resource
      PROVE  \E o \in Ops : Asks(o, r) /\ Answers(o, r)'
  <2>1. Answers(m.op, r) BY <1>4 DEF Accounted
  <2> QED BY <1>2, <1>4, <2>1, FlightFields
<1>5. CASE done'[r] # None BY <1>1, <1>5 DEF Asks, Answers
<1> QED BY <1>3, <1>4, <1>5 DEF Answering, HoldsFrom

\* Whatever is in flight after the step is answered for.
LEMMA FlightAnswered ==
  ASSUME Shapes, Shapes', Accounted, Answering, NEW m \in flight'
  PROVE  Answers(m.op, m.resource)'
<1>1. CASE m \notin flight BY <1>1 DEF Answering, FlightFrom
<1>2. CASE m \in flight
  <2>1. m.op \in Ops /\ Answers(m.op, m.resource)
    BY <1>2, FlightFields DEF Accounted
  <2>2. CASE Steady(m.op) BY <2>1, <2>2, AnswersKept DEF Answering
  <2>3. CASE Freed(m.op) BY <2>3 DEF Freed, Alone
  <2> QED BY <2>1, <2>2, <2>3 DEF Answering
<1> QED BY <1>1, <1>2

\* No request and no resource of an operation is new when nothing answers.
LEMMA StillAlone ==
  ASSUME Shapes, Accounted, Answering, NEW o \in Creates, Unsent(o)'
  PROVE  Alone(o, {})'
<1>0. o \in Ops BY DEF Ops
<1>1. \A r : ~Answers(o, r)' BY DEF Unsent, Answers
<1>2. CASE Freed(o) BY <1>2 DEF Freed
<1>3. CASE Steady(o)
  <2>1. Unsent(o) BY <1>0, <1>3 DEF Answering, Standing, Steady, Unsent
  <2>2. Alone(o, {}) BY <2>1 DEF Accounted
  <2>3. ASSUME NEW m \in flight' PROVE m.op # o
    BY <1>1, <2>2 DEF Alone, Answering, FlightFrom
  <2>4. ASSUME NEW w \in Owners PROVE o \notin own'[w].holds
    <3>1. ASSUME NEW m \in flight PROVE m.resource # o
      <4>1. m.op # o BY <2>2 DEF Alone
      <4>2. Asks(m.op, m.resource) BY FlightFields
      <4> QED BY <4>1, <4>2, CreatesAsk
    <3> QED BY <1>1, <2>2, <3>1 DEF Alone, Answering, HoldsFrom, Answers
  <2> QED BY <2>3, <2>4 DEF Alone
<1> QED BY <1>0, <1>2, <1>3 DEF Answering

\* Every resource is accounted for after the step.
LEMMA AccountedStep ==
  ASSUME Shapes, Shapes', Accounted, Answering PROVE Accounted'
<1>1. \A w \in Owners : \A r \in own'[w].holds :
        \E o \in Ops : Asks(o, r) /\ Answers(o, r)'
  BY HeldAnswered
<1>2. \A m \in flight' : Answers(m.op, m.resource)' BY FlightAnswered
<1>3. \A o \in Creates : Unsent(o)' => Alone(o, {})' BY StillAlone
<1>4. ASSUME NEW o \in Creates, call'[o].pc = "sent", ~call'[o].again,
             o \notin blind', RequestOf(o, FALSE)' \in flight'
      PROVE  Alone(o, {RequestOf(o, FALSE)})'
  <2>0. o \in Ops BY DEF Ops
  <2>1. CASE /\ call'[o] = call[o] /\ pend'[o] = pend[o]
             /\ \A m \in flight' \ flight : m.op # o
    <3>1. PICK R : R = RequestOf(o, FALSE) OBVIOUS
    <3>2. RequestOf(o, FALSE)' = R BY <2>1, <3>1 DEF RequestOf
    <3>3. R.op = o BY <3>1 DEF RequestOf
    <3>4. R \in flight BY <1>4, <2>1, <3>2, <3>3
    <3>5. Alone(o, {R})
      BY <1>4, <2>0, <2>1, <3>1, <3>4 DEF Accounted, Answering, Standing
    <3>6. \A m \in flight' : m.op = o => m = R
      BY <2>1, <3>5 DEF Alone
    <3>7. ASSUME NEW w \in Owners PROVE o \notin own'[w].holds
      <4>1. ASSUME NEW m \in flight \ flight' PROVE m.resource # o
        <5>1. m.op # o BY <1>4, <3>2, <3>5 DEF Alone
        <5> QED BY <5>1, FlightFields, CreatesAsk
      <4>2. done'[o] = None BY <1>4, <2>0, Shapes' DEF Shapes, CallPart, CallShape
      <4> QED BY <3>5, <4>1, <4>2 DEF Alone, Answering, HoldsFrom
    <3> QED BY <3>2, <3>6, <3>7 DEF Alone
  <2> QED BY <1>4, <2>0, <2>1 DEF Answering, Waits
<1> QED BY <1>1, <1>2, <1>3, <1>4 DEF Accounted, Asks

\* Steps that send nothing, apply nothing and end nothing.
LEMMA FrameAnswers ==
  ASSUME UNCHANGED <<pend, done, blind, call>>, flight' \subseteq flight,
         \A w \in Owners : own'[w].holds \subseteq own[w].holds
  PROVE  Answering
BY DEF Answering, Standing, Steady, Waits, HoldsFrom, FlightFrom

\* A step of one operation, by what it does to that operation.
LEMMA OneAnswers ==
  ASSUME NEW o \in Ops, Others(o), blind \subseteq blind',
         \A m \in flight' \ flight : m.op = o,
         Standing(o), Steady(o) \/ Freed(o), Waits(o), HoldsFrom, FlightFrom
  PROVE  Answering
<1>1. ASSUME NEW x \in Ops \ {o}
      PROVE  Standing(x) /\ Steady(x) /\ Waits(x)
  BY DEF Others, Standing, Steady, Waits
<1> QED BY <1>1 DEF Answering

\* A step of an operation that sends and applies nothing.
LEMMA IdleAnswers ==
  ASSUME NEW o \in Ops, Others(o), UNCHANGED <<own, flight>>,
         blind \subseteq blind', call'[o].pc # "sent",
         done[o] # None => done'[o] # None, Steady(o) \/ Freed(o)
  PROVE  Answering
BY OneAnswers DEF Standing, Waits, HoldsFrom, FlightFrom

\* The handler's own entries after a step.
LEMMA CallAfter ==
  ASSUME Shapes, NEW o \in Ops
  PROVE  /\ \A pc : Goto(o, pc) => call'[o].pc = pc
         /\ Stop(o) => call'[o].pc = "idle"
         /\ Observe(o) => call'[o].pc = "complete"
BY DEF Goto, Stop, Observe, Idle, Shapes, CallPart, Call

\* The steps that only read, and those that end an operation never attempted.
LEMMA ReadAnswers ==
  ASSUME GInv, NEW o \in Ops,
         \/ StartLocally(o) \/ Look(o) \/ Check(o) \/ Verify(o)
         \/ Reconcile(o) \/ Unknown(o)
  PROVE  Answering
<1> USE Typed
<1>1. Others(o) BY OpCall DEF OpSteps
<1>2. UNCHANGED <<pend, done, own, flight, blind>>
  BY DEF StartLocally, Look, Check, Verify, Reconcile, Unknown, storeVars, rest, most
<1>3. call'[o].pc # "sent"
  <2>1. CASE StartLocally(o)
    <3>1. call' = [call EXCEPT ![o].pc = "local", ![o].seen = ws[req[o].g]]
      BY <2>1 DEF StartLocally
    <3> QED BY <3>1 DEF Shapes, CallPart, Call
  <2>2. CASE Look(o)
    <3>1. \E d : call' = [call EXCEPT ![o].pc = "prepare", ![o].cwd = d]
      BY <2>2 DEF Look
    <3> QED BY <3>1 DEF Shapes, CallPart, Call
  <2>3. CASE Check(o) BY <2>3, CallAfter DEF Check
  <2>4. CASE Verify(o) \/ Reconcile(o) BY <2>4, CallAfter DEF Verify, Reconcile
  <2>5. CASE Unknown(o) BY <2>5, CallAfter DEF Unknown
  <2> QED BY <2>1, <2>2, <2>3, <2>4, <2>5
<1> QED BY <1>1, <1>2, <1>3, IdleAnswers DEF Steady

\* The steps that reserve, or end what was never attempted.
LEMMA PreparesAnswer ==
  ASSUME GInv, NEW o \in Ops,
         PrepareProject(o) \/ Prepare(o) \/ DropProject(o) \/ Fails(o)
  PROVE  Answering
<1> USE Typed
<1>1. Others(o) BY OpCall DEF OpSteps
<1>2. UNCHANGED <<own, flight, blind>>
  BY DEF PrepareProject, Prepare, DropProject, Fails, rest, most
<1>3. call'[o].pc # "sent"
  <2>1. CASE PrepareProject(o)
    <3>1. call[o].pc = "idle" BY <2>1 DEF PrepareProject
    <3> QED BY <2>1, <3>1, CallAfter DEF PrepareProject
  <2>2. CASE Prepare(o) BY <2>2, CallAfter DEF Prepare
  <2>3. CASE DropProject(o) BY <2>3 DEF DropProject
  <2>4. CASE Fails(o) BY <2>4, CallAfter DEF Fails
  <2> QED BY <2>1, <2>2, <2>3, <2>4
<1>4. done[o] # None => done'[o] # None
  BY DEF PrepareProject, Prepare, DropProject, Fails
<1>5. Steady(o)
  <2>1. CASE PrepareProject(o) BY <2>1 DEF PrepareProject, Steady
  <2>2. CASE Prepare(o) BY <2>2 DEF Prepare, Steady
  <2>3. CASE DropProject(o) BY <2>3 DEF DropProject, Steady
  <2>4. CASE Fails(o) BY <2>4 DEF Fails, Steady
  <2> QED BY <2>1, <2>2, <2>3, <2>4
<1> QED BY <1>1, <1>2, <1>3, <1>4, <1>5, IdleAnswers

\* A completed operation answers for its resource for good.
LEMMA CompleteAnswers ==
  ASSUME GInv, NEW o \in Ops, Complete(o)
  PROVE  Answering
<1> USE Typed
<1>1. Others(o) BY OpCall DEF OpSteps
<1>2. UNCHANGED <<own, flight, blind>> BY DEF Complete, rest
<1>3. call'[o].pc # "sent" BY CallAfter DEF Complete
<1>4. done'[o] # None
  <2>1. done' = [done EXCEPT ![o] = pend[o].g] /\ pend[o] # None
    BY DEF Complete
  <2>2. pend[o].g # None BY <2>1, PendFields, IdsAreNot
  <2> QED BY <2>1, <2>2 DEF Shapes, CallPart
<1> QED BY <1>1, <1>2, <1>3, <1>4, IdleAnswers DEF Steady

\* A request is sent for an operation that answers for it, the first one for an
\* operation that has nothing else.
LEMMA SendAnswers ==
  ASSUME GInv, NEW o \in Ops, Send(o)
  PROVE  Answering
<1> USE Typed
<1> DEFINE b == pend[o].attempted
           R == RequestOf(o, b)
<1>1. Others(o) BY OpCall DEF OpSteps
<1>2. /\ UNCHANGED <<own, blind, done>> /\ pend[o] # None /\ call[o].pc = "send"
      /\ flight' = flight \cup {R}
      /\ call' = [call EXCEPT ![o].pc = "sent", ![o].again = b]
  BY DEF Send, rest
<1>3. /\ pend'[o] # None /\ pend'[o].attempted
      /\ pend'[o].resource = pend[o].resource /\ pend'[o].owner = pend[o].owner
      /\ pend'[o].cwd = pend[o].cwd
  <2>1. PICK p \in Pending :
           /\ pend' = [pend EXCEPT ![o] = p] /\ p.attempted
           /\ p.owner = pend[o].owner /\ p.cwd = pend[o].cwd
           /\ p.resource = pend[o].resource
    BY <1>2, AttemptFacts DEF Send
  <2> QED BY <2>1, OneEntry, WorkspaceAssumption
<1>4. R.op = o /\ R.resource = pend[o].resource
  BY DEF RequestOf
<1>5. FlightFrom
  <2>1. \A m \in flight' \ flight : m = R BY <1>2
  <2>2. Answers(o, pend[o].resource)' BY <1>3 DEF Answers
  <2>3. PICK r : r = pend[o].resource OBVIOUS
  <2>4. Answers(o, r)' BY <1>3, <2>3 DEF Answers
  <2> QED BY <1>4, <2>1, <2>3, <2>4 DEF FlightFrom
<1>6. Waits(o)
  <2> SUFFICES ASSUME ~call'[o].again, o \in Creates \ blind
               PROVE  Alone(o, {RequestOf(o, FALSE)})'
    BY <1>2 DEF Waits
  <2>1. call'[o].again = b BY <1>2 DEF Shapes, CallPart, Call
  <2>2. b = FALSE BY <2>1, <1>2, PendFields
  <2>3. RequestOf(o, FALSE)' = R
    BY <1>3, <2>2 DEF RequestOf
  <2>4. done[o] = None BY <1>2 DEF Shapes, CallPart, CallShape
  <2>5. Alone(o, {}) BY <2>2, <2>4 DEF Unsent, GInv, Accounted
  <2>6. \A m \in flight' : m.op = o => m = R BY <1>2, <2>5 DEF Alone
  <2>7. \A w \in Owners : o \notin own'[w].holds BY <1>2, <2>5 DEF Alone
  <2> QED BY <2>3, <2>6, <2>7 DEF Alone
<1> QED BY <1>1, <1>2, <1>3, <1>4, <1>5, <1>6, OneAnswers
        DEF Standing, Steady, HoldsFrom

\* A request is sent again for an operation that answers for it.
LEMMA SendAgainAnswers ==
  ASSUME GInv, NEW o \in Ops, SendAgain(o)
  PROVE  Answering
<1> USE Typed
<1>1. Others(o) BY OpCall DEF OpSteps
<1>2. /\ UNCHANGED <<own, blind, done, pend>> /\ call[o].pc = "sent"
      /\ flight' = flight \cup {RequestOf(o, TRUE)}
      /\ call' = [call EXCEPT ![o].again = TRUE]
  BY DEF SendAgain, storeVars, most
<1>3. pend[o] # None /\ pend[o].attempted
  BY <1>2 DEF Shapes, CallPart, CallShape
<1>4. RequestOf(o, TRUE).op = o /\ RequestOf(o, TRUE).resource = pend[o].resource
  BY DEF RequestOf
<1>5. FlightFrom
  <2>1. \A m \in flight' \ flight : m = RequestOf(o, TRUE) BY <1>2
  <2>2. PICK r : r = pend[o].resource OBVIOUS
  <2>3. Answers(o, r)' BY <1>2, <1>3, <2>2 DEF Answers
  <2> QED BY <1>4, <2>1, <2>2, <2>3 DEF FlightFrom
<1>6. call'[o].again BY <1>2 DEF Shapes, CallPart, Call
<1> QED BY <1>1, <1>2, <1>4, <1>5, <1>6, OneAnswers
        DEF Standing, Steady, Waits, HoldsFrom

\* A request that is applied leaves the flight and adds its resource.
LEMMA AppliedHolds ==
  ASSUME Shapes, NEW m \in flight, Apply(m), flight' = flight \ {m}
  PROVE  HoldsFrom /\ FlightFrom
<1>1. /\ \A w \in Owners \ {m.owner} : own'[w] = own[w]
      /\ own'[m.owner].holds = own[m.owner].holds \cup {m.resource}
  BY FlightFields, ApplyFacts
<1> QED BY <1>1 DEF HoldsFrom, FlightFrom

\* The answered request of an operation that answers for it.
LEMMA AnsweredAnswers ==
  ASSUME GInv, NEW o \in Ops, Answered(o)
  PROVE  Answering
<1> USE Typed
<1>1. Others(o) BY OpCall DEF OpSteps
<1>2. PICK m \in flight : Apply(m) /\ flight' = flight \ {m} BY DEF Answered
<1>3. UNCHANGED <<pend, done, blind>> BY DEF Answered, storeVars, rest
<1>4. call'[o].pc = "verify" BY CallAfter DEF Answered
<1>5. HoldsFrom /\ FlightFrom BY <1>2, AppliedHolds
<1>6. \A x \in flight' \ flight : x.op = o BY <1>2
<1>7. Standing(o) /\ Steady(o) /\ Waits(o)
  BY <1>3, <1>4 DEF Standing, Steady, Waits
<1> QED BY <1>1, <1>3, <1>5, <1>6, <1>7, OneAnswers

\* A refusal ends an operation whose only request it refused, or one that stays
\* answered for by the note that it was refused after an unanswered request.
LEMMA RefusedAnswers ==
  ASSUME GInv, NEW o \in Ops, Refused(o)
  PROVE  Answering
<1> USE Typed
<1> DEFINE b == call[o].again
           m == RequestOf(o, b)
<1>1. Others(o) BY OpCall DEF OpSteps
<1>2. /\ UNCHANGED <<own, done>> /\ call[o].pc = "sent" /\ (b \/ m \in flight)
      /\ flight' = flight \ {m} /\ Refusal(o, b)
  BY DEF Refused
<1>3. pend[o] # None BY <1>2 DEF Shapes, CallPart, CallShape
<1>4. blind \subseteq blind' BY <1>2 DEF Refusal
<1>5. call'[o].pc = "idle" BY CallAfter DEF Refused
<1>6. Steady(o) \/ Freed(o)
  <2>1. CASE pend' = [pend EXCEPT ![o].attempted = TRUE]
    <3>1. PICK p \in Pending :
            /\ pend' = [pend EXCEPT ![o] = p] /\ p.attempted
            /\ p.resource = pend[o].resource
      BY <1>3, <2>1, AttemptFacts
    <3> QED BY <3>1, OneEntry, WorkspaceAssumption DEF Steady
  <2>2. CASE o \in Creates /\ blind' = IF b THEN blind \cup {o} ELSE blind
    <3>1. CASE b \/ o \in blind BY <2>2, <3>1 DEF Steady
    <3>2. CASE ~b /\ o \notin blind
      <4>1. b = FALSE BY <3>2, CallFields
      <4>2. m \in flight BY <1>2, <3>2
      <4>3. Alone(o, {RequestOf(o, FALSE)})
        BY <1>2, <2>2, <3>2, <4>1, <4>2 DEF GInv, Accounted
      <4>4. \A x \in flight' : x.op # o BY <1>2, <4>1, <4>3 DEF Alone
      <4>5. \A w \in Owners : o \notin own'[w].holds BY <1>2, <4>3 DEF Alone
      <4> QED BY <2>2, <4>4, <4>5 DEF Freed, Alone
    <3> QED BY <3>1, <3>2
  <2> QED BY <1>2, <2>1, <2>2 DEF Refusal
<1>7. Standing(o) /\ Waits(o) /\ HoldsFrom /\ FlightFrom
  BY <1>2, <1>4, <1>5 DEF Standing, Waits, HoldsFrom, FlightFrom
<1>8. \A x \in flight' \ flight : x.op = o BY <1>2
<1> QED BY <1>1, <1>4, <1>6, <1>7, <1>8, OneAnswers

\* An operation that has no route has sent nothing this time.
LEMMA UnroutableAnswers ==
  ASSUME GInv, NEW o \in Ops, Unroutable(o)
  PROVE  Answering
<1> USE Typed
<1>1. Others(o) BY OpCall DEF OpSteps
<1>2. /\ UNCHANGED <<own, done, flight>> /\ pend[o] # None
      /\ Refusal(o, pend[o].attempted)
  BY DEF Unroutable
<1>3. blind \subseteq blind' BY <1>2 DEF Refusal
<1>4. call'[o].pc = "idle" BY CallAfter DEF Unroutable
<1>5. Steady(o)
  <2>1. CASE pend' = [pend EXCEPT ![o].attempted = TRUE]
    <3>1. PICK p \in Pending :
            /\ pend' = [pend EXCEPT ![o] = p] /\ p.attempted
            /\ p.resource = pend[o].resource
      BY <1>2, <2>1, AttemptFacts
    <3> QED BY <3>1, OneEntry, WorkspaceAssumption DEF Steady
  <2>2. CASE blind' = IF pend[o].attempted THEN blind \cup {o} ELSE blind
    BY <2>2 DEF Steady
  <2> QED BY <1>2, <2>1, <2>2 DEF Refusal
<1> QED BY <1>1, <1>2, <1>3, <1>4, <1>5, IdleAnswers

\* The local creation completes in the step that creates.
LEMMA LocallyAnswers ==
  ASSUME GInv, NEW o \in Ops, CreateLocally(o)
  PROVE  Answering
<1> USE Typed
<1>1. Others(o) BY OpCall DEF OpSteps
<1>2. PICK m : m = LocalRequest(o) OBVIOUS
<1>a. PICK g \in Ids :
        /\ g = req[o].g /\ m.resource = o /\ m.owner \in Owners /\ m.cwd \in Cwds
        /\ m.op = o /\ req[o] # None /\ Apply(m)
  BY <1>2, LocallyFacts
<1>3. UNCHANGED <<pend, flight, blind>> /\ done' = [done EXCEPT ![o] = g]
  BY <1>a DEF CreateLocally, rest
<1>4. call'[o].pc = "idle" BY CallAfter DEF CreateLocally
<1>5. done'[o] # None BY <1>3, IdsAreNot DEF Shapes, CallPart
<1>6. HoldsFrom
  <2>1. /\ \A w \in Owners \ {m.owner} : own'[w] = own[w]
        /\ own'[m.owner].holds = own[m.owner].holds \cup {o}
    BY <1>a, ReqFields, ApplyFacts
  <2> QED BY <1>5, <2>1 DEF HoldsFrom
<1>7. Standing(o) /\ Steady(o) /\ Waits(o) /\ FlightFrom
  BY <1>3, <1>4, <1>5 DEF Standing, Steady, Waits, FlightFrom
<1> QED BY <1>1, <1>3, <1>6, <1>7, OneAnswers

\* Every step but a restart goes on answering.
LEMMA StepAnswers ==
  ASSUME GInv, Steps PROVE Answering
<1> USE Typed
<1>1. ASSUME NEW o \in Ops, OpSteps(o) PROVE Answering
  BY <1>1, ReadAnswers, PreparesAnswer, CompleteAnswers, SendAnswers,
     SendAgainAnswers, AnsweredAnswers, RefusedAnswers, UnroutableAnswers,
     LocallyAnswers DEF OpSteps
<1>2. CASE StoreSteps
  <2>1. UNCHANGED <<pend, done, blind, call, flight, own>>
    BY <1>2, ZenonT(90) DEF StoreSteps, Create, Rename, Adopt, Link, FirstCall, storeVars,
                rest, most
  <2> QED BY <2>1, FrameAnswers
<1>3. CASE CloserSteps
  <2>1. UNCHANGED <<pend, done, blind, call, flight>>
    BY <1>3, ZenonT(90) DEF CloserSteps, BeginClose, RetryClose, EndClose, CloseOwner, Confirm,
                ReadToClose, SkipToClose, storeVars, rest, most
  <2>2. UNCHANGED own \/ \E w \in Owners : own' = [own EXCEPT ![w] = NoOwner]
    <3>1. ASSUME NEW k \in Closers, CloseOwner(k)
          PROVE  UNCHANGED own \/ \E w \in Owners : own' = [own EXCEPT ![w] = NoOwner]
      BY <3>1, CloseOwnerFacts
    <3> QED BY <1>3, <3>1 DEF CloserSteps, BeginClose, RetryClose, EndClose, Confirm,
                              ReadToClose, SkipToClose
  <2>3. \A w \in Owners : own'[w].holds \subseteq own[w].holds
    BY <2>2 DEF NoOwner, Shapes, OwnPart
  <2> QED BY <2>1, <2>3, FrameAnswers
<1>4. CASE OwnerSteps
  <2>1. ASSUME NEW m \in flight, AppliedLate(m) PROVE Answering
    <3>1. HoldsFrom /\ FlightFrom BY <2>1, AppliedHolds DEF AppliedLate
    <3>2. UNCHANGED <<pend, done, blind, call>> /\ flight' \subseteq flight
      BY <2>1 DEF AppliedLate, rest
    <3> QED BY <3>1, <3>2 DEF Answering, Standing, Steady, Waits
  <2>2. ASSUME NEW w \in Owners, NEW d \in Cwds, OwnerSetsCwd(w, d)
        PROVE  Answering
    <3>1. \A x \in Owners : own'[x].holds \subseteq own[x].holds
      BY <2>2, OwnFields DEF OwnerSetsCwd, Shapes, OwnPart, OwnerWorkspace
    <3> QED BY <2>2, <3>1, FrameAnswers DEF OwnerSetsCwd, storeVars
  <2>3. ASSUME NEW w \in Owners, NEW r \in Ops, OwnerDeletes(w, r)
        PROVE  Answering
    <3>1. \A x \in Owners : own'[x].holds \subseteq own[x].holds
      BY <2>3, OwnFields DEF OwnerDeletes, Shapes, OwnPart, OwnerWorkspace
    <3> QED BY <2>3, <3>1, FrameAnswers DEF OwnerDeletes, storeVars
  <2>4. ASSUME NEW w \in Owners, OwnerCloses(w) PROVE Answering
    <3>1. \A x \in Owners : own'[x].holds \subseteq own[x].holds
      BY <2>4 DEF OwnerCloses, NoOwner, Shapes, OwnPart
    <3> QED BY <2>4, <3>1, FrameAnswers DEF OwnerCloses, storeVars
  <2>5. ASSUME NEW n \in Nodes, Forget(n) PROVE Answering
    BY <2>5, FrameAnswers DEF Forget, storeVars
  <2> QED BY <1>4, <2>1, <2>2, <2>3, <2>4, <2>5 DEF OwnerSteps
<1> QED BY <1>1, <1>2, <1>3, <1>4, Sorted

-----------------------------------------------------------------------------
(* The invariant of coordinated Workspaces.                                 *)

\* The steps of creations and closes leave the changes of directories alone.
LEMMA MovesAlone ==
  ASSUME Steps \/ Crash PROVE UNCHANGED move
<1>1. CASE Crash BY <1>1 DEF Crash, most
<1>2. CASE StoreSteps
  BY <1>2, ZenonT(90) DEF StoreSteps, Create, Rename, Adopt, Link, FirstCall, rest, most
<1>3. CASE CloserSteps
  BY <1>3, ZenonT(90) DEF CloserSteps, BeginClose, RetryClose, EndClose, CloseOwner, Confirm,
              ReadToClose, SkipToClose, rest, most
<1>4. CASE OwnerSteps
  BY <1>4 DEF OwnerSteps, AppliedLate, OwnerSetsCwd, OwnerDeletes, OwnerCloses,
              Forget, rest, most
<1>5. ASSUME NEW o \in Ops, OpSteps(o) PROVE UNCHANGED move
  BY <1>5 DEF OpSteps, StartLocally, PrepareProject, DropProject, Look, Prepare,
       Check, Send, Answered, SendAgain, Unknown, Refused, Unroutable, Verify,
       Complete, Fails, Reconcile, CreateLocally, rest, most
<1> QED BY <1>1, <1>2, <1>3, <1>4, <1>5, Sorted

\* What follows from the effect of a step on the store and on the owners.
LEMMA Preserved ==
  ASSUME GInv, Shapes', Effect, Ahead, MoveEffect, Answering, CallsSeen',
         ClosersSeen'
  PROVE  GInv'
BY LinkStep, PlacementStep, QuietStep, SharedStep, AccountedStep, Typed
   DEF GInv

\* A restart forgets the handlers and nothing that is stored.
LEMMA CrashAnswers ==
  ASSUME Crash PROVE Answering
<1>1. UNCHANGED <<pend, done, blind, own, flight>> /\ call' = [o \in Ops |-> Idle]
  BY DEF Crash, storeVars, most
<1> QED BY <1>1 DEF Answering, Standing, Steady, Waits, HoldsFrom, FlightFrom, Idle

\* Every step keeps the invariant.
LEMMA GInvStep ==
  ASSUME GInv, Next \/ UNCHANGED vars PROVE GInv'
<1> USE Typed
<1>1. CASE Steps
  <2>1. MoveEffect BY <1>1, MovesAlone DEF MoveEffect
  <2>2. Shapes' /\ Ahead BY <1>1, StepShapes, StepAhead
  <2>3. CallsSeen' /\ ClosersSeen' BY <1>1, <2>2, CallsStep, ClosersStep
  <2> QED BY <1>1, <2>1, <2>2, <2>3, StepEffect, StepAnswers, Preserved
<1>2. CASE Crash
  <2>1. MoveEffect BY <1>2, MovesAlone DEF MoveEffect
  <2>2. CallsSeen' BY <1>2 DEF CallsSeen, Crash, Idle
  <2>3. ClosersSeen' BY <1>2 DEF ClosersSeen, Crash, NotClosing
  <2> QED BY <1>2, <2>1, <2>2, <2>3, CrashShapes, CrashAhead, CrashEffect,
             CrashAnswers, Preserved
<1>3. CASE UNCHANGED vars
  <2>1. UNCHANGED <<ws, pend, done, req, call, closer, own, flight, known, blind,
                    shut, move>>
    BY <1>3 DEF vars
  <2>2. Shapes' BY <2>1, Frames DEF Shapes, most
  <2>3. Effect /\ Ahead /\ MoveEffect
    BY <2>1, StandsStill DEF Effect, MoveEffect
  <2>4. Answering BY <2>1, FrameAnswers
  <2>5. CallsSeen' BY <2>1 DEF GInv, CallsSeen, Seen, Honest, Exists
  <2>6. ClosersSeen' BY <2>1 DEF GInv, ClosersSeen, Seen, Exists
  <2> QED BY <2>2, <2>3, <2>4, <2>5, <2>6, Preserved
<1> QED BY <1>1, <1>2, <1>3 DEF Next

\* The invariant holds in the beginning.
LEMMA GInvInit ==
  ASSUME Init PROVE GInv
<1>1. Shapes BY InitShapes
<1>2. /\ \A g \in Ids : ~Live(g)
      /\ \A o \in Ops : pend[o] = None /\ call[o].pc = "idle"
      /\ \A w \in Owners : own[w].holds = {}
      /\ flight = {}
  <2>1. \A g \in Ids : ~Live(g) BY DEF Init, Live
  <2>2. \A o \in Ops : pend[o] = None /\ call[o].pc = "idle" BY DEF Init, Idle
  <2>3. ASSUME NEW w \in Owners PROVE own[w].holds = {}
    <3>1. own[w] \in {NoOwner} \cup
                {[NoOwner EXCEPT !.node = n, !.revision = 1] : n \in Nodes}
      BY DEF Init
    <3>2. NoOwner.holds = {}
            /\ \A n : [NoOwner EXCEPT !.node = n, !.revision = 1].holds = {}
      BY DEF NoOwner
    <3> QED BY <3>1, <3>2
  <2> QED BY <2>1, <2>2, <2>3 DEF Init
<1>3. ClosingIsQuiet /\ OwnerShared /\ OneLink /\ PlacementsSeen /\ CallsSeen
  <2>1. ClosingIsQuiet BY <1>2 DEF ClosingIsQuiet
  <2>2. OwnerShared BY <1>2 DEF OwnerShared
  <2>3. OneLink BY <1>2 DEF OneLink
  <2>4. PlacementsSeen BY <1>2 DEF PlacementsSeen
  <2>5. CallsSeen BY <1>2 DEF CallsSeen
  <2> QED BY <2>1, <2>2, <2>3, <2>4, <2>5
<1>4. ClosersSeen BY DEF Init, ClosersSeen, NotClosing
<1>5. Accounted BY <1>2 DEF Accounted, Alone, Ops
<1> QED BY <1>1, <1>3, <1>4, <1>5 DEF GInv

\* Coordinated Workspaces keep the invariant whatever requests, crashes and
\* changes made by others do.
THEOREM Coordinated == Spec => []GInv
BY GInvInit, GInvStep, PTL DEF Spec

-----------------------------------------------------------------------------
(* What the invariant says of the store and of the owners.                  *)

\* The properties of the runs.
LEMMA GInvSays ==
  ASSUME GInv
  PROVE  /\ TypeOK /\ NothingOrphaned /\ OwnerShared /\ LinkedOnce
         /\ NamedOnce /\ ClosingIsQuiet /\ MirrorHonest
<1>1. NothingOrphaned
  <2> SUFFICES ASSUME NEW w \in Owners, NEW r \in own[w].holds
               PROVE  \E o \in Ops : /\ o = r \/ {o, r} \subseteq Projects
                                     /\ \/ done[o] # None \/ o \in blind
                                        \/ pend[o] # None /\ pend[o].resource = r
    BY DEF NothingOrphaned
  <2> QED BY DEF GInv, Accounted, Asks, Answers
<1>4. LinkedOnce BY DEF LinkedOnce, GInv, OneLink
<1>2. NamedOnce
  <2> DEFINE S == {g \in Ids : Live(g) /\ ws[g].project}
  <2>1. Cardinality(S) <= 1
    <3>1. CASE S = {} BY <3>1, FS_EmptySet
    <3>2. ASSUME NEW g \in S PROVE Cardinality(S) <= 1
      <4>1. S = {g} BY DEF GInv, OneLink
      <4> QED BY <4>1, FS_Singleton
    <3> QED BY <3>1, <3>2
  <2> QED BY <2>1 DEF NamedOnce
<1>3. MirrorHonest BY DEF MirrorHonest, GInv, PlacementsSeen, Honest
<1> QED BY <1>1, <1>2, <1>3, <1>4, Typed DEF GInv

\* Every record of the store, of a handler and of an owner is well formed, and
\* an operation is pending or completed, never both.
THEOREM StoreTyped == Spec => []TypeOK
BY Coordinated, GInvSays, PTL

\* A resource that exists at its owner belongs to an operation that is pending
\* or completed, whatever was lost, delayed, sent again or interrupted; unless
\* a refusal cancelled the operation after an unanswered request.
THEOREM EveryResourceAccounted == Spec => []NothingOrphaned
BY Coordinated, GInvSays, PTL

\* Operations pending for one global Workspace and Node agree on one owner
\* Workspace, which is the placement's once there is one.
THEOREM OneOwnerEach == Spec => []OwnerShared
BY Coordinated, GInvSays, PTL

\* No owner Workspace belongs to two global Workspaces, even if it was linked to
\* one while an operation for the other was creating it.
THEOREM NeverLinkedTwice == Spec => []LinkedOnce
BY Coordinated, GInvSays, PTL

\* No two global Workspaces have the name that the projects reserve.
THEOREM NeverNamedTwice == Spec => []NamedOnce
BY Coordinated, GInvSays, PTL

\* Nothing is pending for a global Workspace that is closing.
THEOREM ClosesAlone == Spec => []ClosingIsQuiet
BY Coordinated, GInvSays, PTL

\* A placement never shows a revision that its owner has not reached, nor
\* another directory than the owner's at the owner's revision.
THEOREM MirrorsTheOwner == Spec => []MirrorHonest
BY Coordinated, GInvSays, PTL

\* A close drops a placement only after its owner Workspace has been closed,
\* or when its Node has been forgotten.
THEOREM DropsWhatIsGone == Spec => ClosedIsGone
<1>1. ASSUME GInv, [Next]_vars
      PROVE  [\A g \in Ids, n \in Nodes :
                Live(g) /\ ws[g].at[n] # None
                  /\ (~Live(g)' \/ ws'[g].at[n] = None) =>
                  ws[g].at[n].owner \in shut \/ n \notin known]_vars
  <2>1. CASE UNCHANGED vars BY <2>1
  <2>2. CASE Next
    <3>1. Shapes' BY <1>1, <2>2, GInvStep DEF GInv
    <3>2. Effect BY <1>1, <2>2, StepEffect, CrashEffect DEF Next
    <3> QED BY <1>1, <3>1, <3>2, GoneStep
  <2> QED BY <1>1, <2>1, <2>2
<1> QED BY <1>1, Coordinated, PTL DEF Spec, ClosedIsGone

-----------------------------------------------------------------------------
(* Changes of default directories, beside the rest.                         *)

\* What a change has been asked for.
LEMMA MoveFields ==
  ASSUME TypeOK, MoveTypeOK, NEW o \in Moves
  PROVE  /\ move[o] # None => move[o] \in Move
         /\ asked[o] # None => asked[o] \in Move
         /\ mover[o] \in Mover /\ mover[o].revision \in Nat
         /\ mover[o].cwd \in Cwds /\ mover[o].again \in BOOLEAN
         /\ mover[o].pc \in {"idle", "look", "send", "sent", "complete"}
BY DEF TypeOK, MoveTypeOK, Mover

\* An operation that is pending is the one that was asked for.
LEMMA MoveIsAsked ==
  ASSUME TypeOK, MoveTypeOK, NEW o \in Moves, MoveShape(o), move[o] # None
  PROVE  /\ asked[o] # None /\ asked[o] \in Move /\ move[o] \in Move
         /\ move[o].g = asked[o].g /\ move[o].node = asked[o].node
         /\ move[o].owner = asked[o].owner /\ move[o].cwd = asked[o].cwd
         /\ move[o].revision = asked[o].revision
         /\ move[o].attempted \in BOOLEAN
BY MoveFields DEF MoveShape, Move

\* The fields of a change.
LEMMA MoveRecord ==
  ASSUME NEW m \in Move
  PROVE  /\ m.g \in Ids /\ m.node \in Nodes /\ m.owner \in Owners /\ m.cwd \in Cwds
         /\ m.expected \in Nat /\ m.revision \in Nat /\ m.attempted \in BOOLEAN
         /\ m # None
BY WorkspaceAssumption DEF Move

\* An operation that is over stays so.
LEMMA OverKept ==
  ASSUME Shapes, Shapes', MoveTypeOK, Ahead, NEW o \in Moves, asked[o] # None,
         asked'[o] = asked[o], moved \cup unseen \subseteq (moved \cup unseen)',
         Over(o)
  PROVE  Over(o)'
<1> USE ShapesTyped
<1>1. PICK m \in Move : m = asked[o] BY MoveFields
<1>2. m.owner \in Owners /\ m.revision \in Nat BY MoveRecord
<1>3. own[m.owner].revision \in Nat BY <1>2, OwnFields
<1>4. own'[m.owner].revision \in Nat
  BY <1>2 DEF Shapes, OwnPart, OwnerWorkspace
<1>5. CASE o \in moved \cup unseen BY <1>5 DEF Over
<1>6. CASE m.owner \in shut BY <1>1, <1>6 DEF Over, Ahead
<1>7. CASE Superseded(m)
  <2>1. CASE m.owner \in shut' BY <1>1, <2>1 DEF Over
  <2>2. CASE own'[m.owner].revision > own[m.owner].revision
    <3>1. /\ own'[m.owner].revision > m.revision
          /\ own'[m.owner].revision # m.revision + 1
      BY <1>2, <1>3, <1>4, <1>7, <2>2 DEF Superseded
    <3>2. Superseded(m)' BY <1>2, <1>4, <3>1 DEF Superseded, Reached
    <3> QED BY <1>1, <3>2 DEF Over, Superseded, Reached
  <2>3. CASE /\ own'[m.owner].revision = own[m.owner].revision
             /\ own'[m.owner].cwd = own[m.owner].cwd
    <3>1. Superseded(m)' BY <1>7, <2>3 DEF Superseded, Reached
    <3> QED BY <1>1, <3>1 DEF Over, Superseded, Reached
  <2> QED BY <1>2, <2>1, <2>2, <2>3 DEF Ahead, Further
<1> QED BY <1>1, <1>5, <1>6, <1>7 DEF Over

\* What an operation has seen stays true.
LEMMA SeenKept ==
  ASSUME Shapes, Shapes', MoveTypeOK, Ahead, NEW o \in Moves, MoveSeen(o),
         asked'[o] = asked[o]
  PROVE  /\ asked[o] # None =>
              \/ asked[o].owner \in shut'
              \/ /\ Exists(asked[o].owner)'
                 /\ asked[o].revision <= own'[asked[o].owner].revision
         /\ asked[o] # None /\ mover[o].pc = "complete" /\ mover'[o] = mover[o] =>
              Honest(asked[o].owner, mover[o].revision, mover[o].cwd)'
<1> USE ShapesTyped
<1> SUFFICES ASSUME asked[o] # None
             PROVE  /\ \/ asked[o].owner \in shut'
                       \/ /\ Exists(asked[o].owner)'
                          /\ asked[o].revision <= own'[asked[o].owner].revision
                    /\ mover[o].pc = "complete" /\ mover'[o] = mover[o] =>
                         Honest(asked[o].owner, mover[o].revision, mover[o].cwd)'
  OBVIOUS
<1>1. PICK w \in Owners, v \in Nat : w = asked[o].owner /\ v = asked[o].revision
  BY MoveFields, MoveRecord
<1>2. PICK r \in Nat, d \in Cwds : r = mover[o].revision /\ d = mover[o].cwd
  BY MoveFields
<1>3. mover[o].pc = "complete" => Honest(w, r, d)'
  BY <1>1, <1>2, AheadKeeps DEF MoveSeen
<1>4. own[w].revision \in Nat BY OwnFields
<1>5. own'[w].revision \in Nat BY DEF Shapes, OwnPart, OwnerWorkspace
<1>6. w \in shut' \/ (Exists(w)' /\ v <= own'[w].revision)
  <2>1. CASE w \in shut BY <2>1 DEF Ahead
  <2>2. CASE Exists(w) /\ v <= own[w].revision
    BY <1>4, <1>5, <2>2 DEF Ahead, Further
  <2> QED BY <1>1, <2>1, <2>2 DEF MoveSeen
<1>7. /\ \/ w \in shut'
         \/ Exists(w)' /\ v <= own'[w].revision
      /\ mover[o].pc = "complete" => Honest(w, r, d)'
  BY <1>3, <1>6
<1> QED BY <1>1, <1>2, <1>7 DEF Exists, Honest

\* A step leaves an operation's entries as they are, apart from a handler that
\* stops and from requests that are not in flight any more.
Stays(o) ==
  /\ move'[o] = move[o] /\ asked'[o] = asked[o]
  /\ mover'[o] = mover[o] \/ mover'[o].pc \in {"idle", "look"}
  /\ o \in applied' => o \in applied
  /\ \A x \in guarded' : x.op = o => x \in guarded
  /\ moved \cup unseen \subseteq (moved \cup unseen)'

\* An operation that a step leaves alone keeps what is known of it.
LEMMA StaysOf ==
  ASSUME Shapes, Shapes', MoveTypeOK, Ahead, NEW o \in Moves, MoveOf(o), Stays(o)
  PROVE  MoveOf(o)'
<1>1. MoveShape(o)' BY DEF MoveOf, MoveShape, Stays
<1>2. MoveSeen(o)'
  <2>1. mover'[o].pc = "complete" =>
          mover'[o] = mover[o] /\ mover[o].pc = "complete"
    BY DEF Stays
  <2>2. mover'[o].pc = "complete" => asked[o] # None
    BY <2>1 DEF MoveOf, MoveShape
  <2>3. asked'[o] = asked[o] BY DEF Stays
  <2> QED BY <2>1, <2>2, <2>3, SeenKept DEF MoveOf, MoveSeen, Exists, Honest
<1>3. MoveKept(o)'
  <2>1. (o \in applied \/ (\E x \in guarded : x.op = o)) /\ Over(o) => Over(o)'
    BY OverKept DEF MoveOf, MoveShape, Stays
  <2>2. o \in applied' \/ (\E x \in guarded' : x.op = o) =>
          Over(o)' \/ (move'[o] # None /\ move'[o].attempted)
    BY <2>1 DEF MoveOf, MoveKept, Stays
  <2>3. MoveRequest(o, FALSE)' = MoveRequest(o, FALSE)
          /\ MoveRequest(o, FALSE).op = o
    BY DEF MoveRequest
  <2>4. ASSUME mover'[o].pc = "sent", ~mover'[o].again,
               MoveRequest(o, FALSE) \in guarded'
        PROVE  \/ Over(o)'
               \/ /\ o \notin applied'
                  /\ \A x \in guarded' : x.op = o => x = MoveRequest(o, FALSE)
    <3>1. MoveRequest(o, FALSE) \in guarded /\ mover'[o] = mover[o]
      BY <2>3, <2>4 DEF Stays
    <3> QED BY <2>1, <2>3, <2>4, <3>1 DEF MoveOf, MoveKept, Stays
  <2> QED BY <2>2, <2>3, <2>4 DEF MoveKept
<1> QED BY <1>1, <1>2, <1>3 DEF MoveOf

\* A creation, a close, and a restart.
LEMMA BesideMoves ==
  ASSUME GInv, MoveInv, \/ Steps /\ UNCHANGED moveVars
                        \/ MoveCrash
  PROVE  GInv' /\ MoveInv'
<1> USE Typed
<1>1. GInv' /\ Shapes' BY GInvStep DEF MoveCrash, Next, GInv
<1>2. Ahead BY StepAhead, CrashAhead DEF MoveCrash
<1>3. UNCHANGED <<move, asked, applied, guarded, moved, unseen>>
  BY MovesAlone DEF MoveCrash, moveVars
<1>4. \/ mover' = mover
      \/ mover' = [o \in Moves |-> AtRest]
  BY DEF MoveCrash, moveVars
<1>5. AtRest \in Mover /\ AtRest.pc = "idle"
  BY WorkspaceAssumption DEF AtRest, Mover
<1>6. MoveTypeOK'
  <2> HIDE DEF AtRest
  <2> QED BY <1>3, <1>4, <1>5 DEF MoveInv, MoveTypeOK
<1>7. ASSUME NEW o \in Moves PROVE MoveOf(o)'
  <2>1. Stays(o) BY <1>3, <1>4, <1>5 DEF Stays
  <2> QED BY <1>1, <1>2, <2>1, StaysOf DEF MoveInv
<1> QED BY <1>1, <1>6, <1>7 DEF MoveInv

\* What the steps of changes leave alone.
MoverSteps(o) ==
  \/ \E g \in Ids, n \in Nodes, d \in Cwds : AskMove(o, g, n, d)
  \/ PrepareMove(o) \/ LookMove(o) \/ SendMove(o) \/ MoveAnswered(o)
  \/ MoveProven(o) \/ MoveUnknown(o) \/ MoveRefused(o) \/ CompleteMove(o)
  \/ MoveUnsent(o) \/ MoveFails(o) \/ ReconcileMove(o)
  \/ \E x \in guarded : x.op = o /\ MoveAppliedLate(x)

\* What the steps of a change do not touch.
LEMMA MoverLeaves ==
  ASSUME NEW o \in Moves, MoverSteps(o)
  PROVE  /\ UNCHANGED <<pend, done, req, call, closer, flight, known, blind, shut>>
         /\ UNCHANGED ws \/ CompleteMove(o)
         /\ UNCHANGED own \/ GuardedSet(o)
<1>1. ASSUME NEW g, NEW n, NEW d, AskMove(o, g, n, d)
      PROVE  UNCHANGED <<ws, own, pend, done, req, call, closer, flight, known,
                         blind, shut>>
  BY <1>1 DEF AskMove, vars
<1>2. ASSUME NEW x \in guarded, x.op = o, MoveAppliedLate(x)
      PROVE  /\ UNCHANGED <<ws, pend, done, req, call, closer, flight, known,
                            blind, shut>>
             /\ GuardedSet(o)
  BY <1>2 DEF MoveAppliedLate, storeVars
<1> QED BY <1>1, <1>2 DEF MoverSteps, PrepareMove, LookMove, SendMove, MoveAnswered,
      MoveProven, MoveUnknown, MoveRefused, CompleteMove, MoveUnsent, MoveFails,
      ReconcileMove, others, storeVars

\* The guarded request at the owner.
LEMMA GuardedFacts ==
  ASSUME Shapes, MoveTypeOK, NEW o \in Moves, asked[o] # None, GuardedSet(o),
         UNCHANGED <<shut, known>>
  PROVE  /\ OwnPart' /\ Ahead
         /\ \A w \in Owners : own'[w].holds = own[w].holds
<1> USE ShapesTyped
<1>1. PICK m \in Move : m = asked[o] BY MoveFields
<1>2. PICK w \in Owners, d \in Cwds : w = m.owner /\ d = m.cwd BY MoveRecord
<1>3. Exists(w) BY <1>1, <1>2 DEF GuardedSet
<1>4. own[w] \in OwnerWorkspace /\ own[w].revision + 1 \in Nat
  BY OwnFields
<1>5. \/ own' = own
      \/ own' = [own EXCEPT ![w].cwd = d, ![w].revision = @ + 1]
  BY <1>1, <1>2 DEF GuardedSet
<1>6. CASE own' = own
  BY <1>6, Frames, StandsStill
<1>7. CASE own' = [own EXCEPT ![w].cwd = d, ![w].revision = @ + 1]
  <2> DEFINE W == [own[w] EXCEPT !.cwd = d, !.revision = own[w].revision + 1]
  <2>1. own' = [own EXCEPT ![w] = W] BY <1>7 DEF Shapes, OwnPart
  <2>2. /\ W \in OwnerWorkspace /\ W.holds = own[w].holds
        /\ W.revision = own[w].revision + 1
    BY <1>4 DEF OwnerWorkspace
  <2> HIDE DEF W
  <2>3. own'[w] = W /\ \A x \in Owners \ {w} : own'[x] = own[x]
    BY <2>1 DEF Shapes, OwnPart
  <2>4. own' \in [Owners -> OwnerWorkspace]
    BY <2>1, <2>2 DEF Shapes, OwnPart
  <2>5. OwnerShape'
    <3> SUFFICES ASSUME NEW x \in Owners, ~Exists(x)' PROVE own'[x].holds = {}
      BY DEF OwnerShape
    <3>1. x # w
      <4>1. own[w].revision \in Nat BY OwnFields
      <4> QED BY <4>1, <2>2, <2>3 DEF Exists
    <3> QED BY <2>3, <3>1 DEF Exists, Shapes, OwnPart, OwnerShape
  <2>6. Further(w)
    BY <1>4, <2>2, <2>3, OwnFields DEF Further, Exists
  <2>7. Ahead BY <2>3, <2>6, OneOwner
  <2>8. \A x \in Owners : own'[x].holds = own[x].holds BY <2>2, <2>3
  <2> QED BY <2>4, <2>5, <2>7, <2>8 DEF OwnPart
<1> QED BY <1>5, <1>6, <1>7

\* What a change that is pending becomes, by step.
MoveBecomes(o) ==
  \/ UNCHANGED move
  \/ move' = [move EXCEPT ![o] = None]
  \/ move[o] # None /\ move' = [move EXCEPT ![o].attempted = TRUE]
  \/ /\ UNCHANGED <<ws, pend>> /\ asked[o] # None /\ ~ws[asked[o].g].closing
     /\ move' = [move EXCEPT ![o] = asked[o]]

\* Every step of a change does one of these to what is pending.
LEMMA MoverBecomes ==
  ASSUME NEW o \in Moves, MoverSteps(o)
  PROVE  MoveBecomes(o)
<1>1. ASSUME NEW g, NEW n, NEW d, AskMove(o, g, n, d) PROVE UNCHANGED move
  BY <1>1 DEF AskMove, vars
<1>2. ASSUME NEW x \in guarded, x.op = o, MoveAppliedLate(x) PROVE UNCHANGED move
  BY <1>2 DEF MoveAppliedLate
<1>3. CASE PrepareMove(o)
  BY <1>3 DEF PrepareMove, others, storeVars, MoveBecomes
<1>4. CASE LookMove(o) BY <1>4 DEF LookMove, MoveBecomes
<1>5. CASE SendMove(o) BY <1>5 DEF SendMove, MoveBecomes
<1>6. CASE MoveRefused(o) \/ CompleteMove(o) \/ MoveUnsent(o) \/ ReconcileMove(o)
  BY <1>6 DEF MoveRefused, CompleteMove, MoveUnsent, ReconcileMove, MoveBecomes
<1>7. CASE MoveAnswered(o) \/ MoveProven(o) \/ MoveUnknown(o) \/ MoveFails(o)
  BY <1>7 DEF MoveAnswered, MoveProven, MoveUnknown, MoveFails, MoveBecomes
<1> QED BY <1>1, <1>2, <1>3, <1>4, <1>5, <1>6, <1>7 DEF MoverSteps, MoveBecomes

\* A change becomes pending for an open Workspace only.
LEMMA BecomesTyped ==
  ASSUME Shapes, MoveTypeOK, NEW o \in Moves, MoveBecomes(o)
  PROVE  /\ move' \in [Moves -> Move \cup {None}] /\ MoveEffect
         /\ \A x \in Moves \ {o} : move'[x] = move[x]
<1> USE ShapesTyped
<1>0. move \in [Moves -> Move \cup {None}] BY DEF Shapes, RestPart
<1>1. CASE UNCHANGED move BY <1>0, <1>1 DEF MoveEffect
<1>2. CASE move' = [move EXCEPT ![o] = None] BY <1>0, <1>2 DEF MoveEffect
<1>3. CASE move[o] # None /\ move' = [move EXCEPT ![o].attempted = TRUE]
  <2> DEFINE m == [move[o] EXCEPT !.attempted = TRUE]
  <2>1. m \in Move /\ m.g = move[o].g BY <1>0, <1>3 DEF Move
  <2>2. move' = [move EXCEPT ![o] = m] BY <1>0, <1>3
  <2> HIDE DEF m
  <2> QED BY <1>0, <1>3, <2>1, <2>2 DEF MoveEffect
<1>4. CASE /\ UNCHANGED <<ws, pend>> /\ asked[o] # None
           /\ ~ws[asked[o].g].closing
           /\ move' = [move EXCEPT ![o] = asked[o]]
  BY <1>0, <1>4, MoveFields DEF MoveEffect
<1> QED BY <1>1, <1>2, <1>3, <1>4 DEF MoveBecomes

\* complete_default_cwd places what the owner showed.
LEMMA CompletePlaces ==
  ASSUME GInv, MoveInv, NEW o \in Moves, CompleteMove(o)
  PROVE  \E g \in Ids, n \in Nodes : WsPart' /\ Placed(g, n)
<1> USE Typed
<1> DEFINE m == move[o]
           M == Mirror(m.owner, mover[o].revision, m.cwd)
<1>0. MoveTypeOK /\ MoveOf(o) BY DEF MoveInv
<1>1. mover[o].revision \in Nat /\ mover[o].cwd \in Cwds BY <1>0, MoveFields
<1>2. /\ m \in Move /\ Live(m.g) /\ ws[m.g].at[m.node] # None
      /\ ws[m.g].at[m.node].owner = m.owner
  BY <1>1, CompleteMoveFacts
<1>3. PICK r \in Nat : ws' = Put(m.g, Placing(m.g, r, m.node, M))
  BY <1>1, CompleteMoveFacts
<1>4. m.g \in Ids /\ m.node \in Nodes /\ m.owner \in Owners /\ m.cwd \in Cwds
  BY <1>2, MoveRecord
<1>5. M \in Placement /\ M.owner = m.owner /\ M.revision = mover[o].revision
        /\ M.cwd = m.cwd
  BY <1>1, <1>4, MirrorFacts
<1>6. mover[o].pc = "complete" /\ mover[o].cwd = m.cwd /\ m # None
        /\ UNCHANGED <<pend, own, shut>>
  BY DEF CompleteMove
<1>7. Fair(M)
  <2>1. m.owner = asked[o].owner /\ asked[o] # None
    BY <1>0, <1>6, MoveIsAsked DEF MoveOf
  <2>2. Honest(m.owner, mover[o].revision, m.cwd)
    BY <1>0, <1>6, <2>1 DEF MoveOf, MoveSeen
  <2>3. Seen(m.owner) BY <1>0, <2>1 DEF MoveOf, MoveSeen, Seen
  <2> HIDE DEF M
  <2> QED BY <1>5, <2>2, <2>3 DEF Fair
<1>8. PICK K \in Placement : K = M BY <1>5
<1>9. Fair(K)'
  BY <1>6, <1>7, <1>8 DEF Fair, Seen, Honest, Exists
<1>10. ~LinkedBeyond(m.g, m.owner) BY <1>2, <1>4 DEF GInv, OneLink
<1>11. \A p \in Sharing(m.g, m.node) : pend[p].owner = m.owner
  BY <1>2, SharingFacts, Agreement, SMTT(60)
<1>12. WsPart'
  <2>1. Placing(m.g, r, m.node, K) \in Workspace BY <1>2, <1>4, PlacingFacts
  <2> QED BY <1>3, <1>4, <1>8, <2>1, PutFacts DEF WsPart
<1>13. Placed(m.g, m.node)
  BY <1>2, <1>3, <1>5, <1>6, <1>8, <1>9, <1>10, <1>11 DEF Placed
<1> QED BY <1>4, <1>12, <1>13

\* The handlers that a step leaves alone have seen what they had seen.
LEMMA CallsUnchanged ==
  ASSUME GInv, Shapes', Ahead, UNCHANGED <<pend, call>>
  PROVE  CallsSeen'
<1> SUFFICES ASSUME NEW o \in Ops, call'[o].pc = "complete"
             PROVE  /\ Seen(pend[o].owner)'
                    /\ Honest(pend[o].owner, call[o].revision, call[o].cwd)'
  BY DEF CallsSeen
<1> QED BY CallsKept

\* The handlers of closes that a step leaves alone.
LEMMA ClosersUnchanged ==
  ASSUME GInv, Shapes', Ahead, UNCHANGED closer
  PROVE  ClosersSeen'
<1> USE Typed
<1> SUFFICES ASSUME NEW k \in Closers PROVE ToClose(closer[k])'
  BY DEF ClosersSeen, ToClose
<1>1. PICK x \in Close : x = closer[k] BY CloseFields
<1>2. ToClose(x)' BY <1>1, ToCloseNow, CloserAhead
<1> QED BY <1>1, <1>2 DEF ToClose, Seen, Exists

\* A step of a change keeps the invariant of the rest.
LEMMA MoverGInv ==
  ASSUME GInv, MoveInv, NEW o \in Moves, MoverSteps(o),
         UNCHANGED own \/ asked[o] # None
  PROVE  GInv' /\ Ahead
<1> USE Typed
<1>0. MoveTypeOK BY DEF MoveInv
<1>1. /\ UNCHANGED <<pend, done, req, call, closer, flight, known, blind, shut>>
      /\ UNCHANGED ws \/ CompleteMove(o)
      /\ UNCHANGED own \/ GuardedSet(o)
  BY MoverLeaves
<1>2. OwnPart' /\ Ahead /\ \A w \in Owners : own'[w].holds = own[w].holds
  <2>1. CASE UNCHANGED own BY <1>1, <2>1, Frames, StandsStill
  <2>2. CASE ~UNCHANGED own BY <1>0, <1>1, <2>2, GuardedFacts
  <2> QED BY <2>1, <2>2
<1>3. WsPart' /\ Effect
  <2>1. CASE UNCHANGED ws BY <1>1, <2>1, Frames DEF Effect
  <2>2. CASE CompleteMove(o) BY <2>2, CompletePlaces DEF Effect
  <2> QED BY <1>1, <2>1, <2>2
<1>4. move' \in [Moves -> Move \cup {None}] /\ MoveEffect
  BY <1>0, MoverBecomes, BecomesTyped
<1>5. Shapes'
  <2>1. CallPart' /\ CloserPart' /\ FlightPart' BY <1>1, Frames
  <2>2. RestPart' BY <1>1, <1>4 DEF Shapes, RestPart
  <2> QED BY <1>2, <1>3, <2>1, <2>2 DEF Shapes
<1>6. Answering BY <1>1, <1>2, FrameAnswers
<1> QED BY <1>1, <1>2, <1>3, <1>4, <1>5, <1>6, CallsUnchanged, ClosersUnchanged,
           Preserved

-----------------------------------------------------------------------------
(* What a step of a change does to its operation.                           *)

\* The records of the handlers of changes.
LEMMA MoverRecords ==
  ASSUME MoveTypeOK, NEW o \in Moves
  PROVE  /\ \A pc \in {"idle", "look", "send", "sent", "complete"} :
              MoveTo(o, pc) =>
                \E y \in Mover : mover' = [mover EXCEPT ![o] = y] /\ y.pc = pc
         /\ MoveStop(o) =>
              \E y \in Mover : mover' = [mover EXCEPT ![o] = y] /\ y.pc = "idle"
<1>0. mover[o] \in Mover BY DEF MoveTypeOK
<1>1. ASSUME NEW pc \in {"idle", "look", "send", "sent", "complete"},
             MoveTo(o, pc)
      PROVE  \E y \in Mover : mover' = [mover EXCEPT ![o] = y] /\ y.pc = pc
  <2> DEFINE y == [mover[o] EXCEPT !.pc = pc]
  <2>1. y \in Mover /\ y.pc = pc BY <1>0 DEF Mover
  <2>2. mover' = [mover EXCEPT ![o] = y] BY <1>1 DEF MoveTo, MoveTypeOK
  <2> HIDE DEF y
  <2> QED BY <2>1, <2>2
<1>2. AtRest \in Mover /\ AtRest.pc = "idle"
  BY WorkspaceAssumption DEF AtRest, Mover
<1> QED BY <1>1, <1>2 DEF MoveStop

\* A handler that sees the owner Workspace keeps what it shows.
LEMMA MoverSees ==
  ASSUME MoveTypeOK, Shapes', NEW o \in Moves, NEW w \in Owners, MoveSees(o, w)
  PROVE  \E y \in Mover :
           /\ mover' = [mover EXCEPT ![o] = y] /\ y.pc = "complete"
           /\ y.revision = own'[w].revision /\ y.cwd = own'[w].cwd
<1>0. mover[o] \in Mover BY DEF MoveTypeOK
<1>1. own'[w].revision \in Nat /\ own'[w].cwd \in Cwds
  BY DEF Shapes, OwnPart, OwnerWorkspace
<1> DEFINE y == [mover[o] EXCEPT !.pc = "complete", !.revision = own'[w].revision,
                                 !.cwd = own'[w].cwd]
<1>2. /\ y \in Mover /\ y.pc = "complete"
      /\ y.revision = own'[w].revision /\ y.cwd = own'[w].cwd
  BY <1>0, <1>1 DEF Mover
<1>3. mover' = [mover EXCEPT ![o] = y] BY DEF MoveSees, MoveTypeOK
<1> HIDE DEF y
<1> QED BY <1>2, <1>3

\* A handler that sends knows whether it is the first time.
LEMMA MoverSends ==
  ASSUME MoveTypeOK, NEW o \in Moves, NEW b \in BOOLEAN,
         mover' = [mover EXCEPT ![o].pc = "sent", ![o].again = b]
  PROVE  \E y \in Mover :
           mover' = [mover EXCEPT ![o] = y] /\ y.pc = "sent" /\ y.again = b
<1>0. mover[o] \in Mover BY DEF MoveTypeOK
<1> DEFINE y == [mover[o] EXCEPT !.pc = "sent", !.again = b]
<1>1. y \in Mover /\ y.pc = "sent" /\ y.again = b BY <1>0 DEF Mover
<1>2. mover' = [mover EXCEPT ![o] = y] BY DEF MoveTypeOK
<1> HIDE DEF y
<1> QED BY <1>1, <1>2

\* A handler keeps what it holds of its operation, from a record y.
MoverOne(o, y) ==
  /\ mover' = [mover EXCEPT ![o] = y]
  /\ moved \cup unseen \subseteq (moved \cup unseen)'
  /\ moved' \subseteq moved \cup {o} /\ unseen' \subseteq unseen \cup {o}
  /\ applied' \subseteq applied \cup {o}
  /\ \A x \in guarded' \ guarded :
       x \in {MoveRequest(o, TRUE), MoveRequest(o, FALSE)}

\* Such a step leaves the other operations alone.
LEMMA MoverOneType ==
  ASSUME MoveTypeOK, NEW o \in Moves, NEW y \in Mover, MoverOne(o, y),
         UNCHANGED asked
  PROVE  /\ MoveTypeOK' /\ mover'[o] = y
         /\ \A x \in Moves \ {o} :
              mover'[x] = mover[x] /\ (move'[x] = move[x] => Stays(x))
<1>1. \A x \in guarded' : x \in guarded \/ x \in [op : Moves, again : BOOLEAN]
  <2>1. \A b \in BOOLEAN : MoveRequest(o, b) \in [op : Moves, again : BOOLEAN]
    BY DEF MoveRequest
  <2> QED BY <2>1 DEF MoverOne
<1>2. MoveTypeOK' BY <1>1 DEF MoveTypeOK, MoverOne
<1>3. mover'[o] = y /\ \A x \in Moves \ {o} : mover'[x] = mover[x]
  BY DEF MoveTypeOK, MoverOne
<1>4. ASSUME NEW x \in Moves \ {o}, move'[x] = move[x] PROVE Stays(x)
  <2>1. \A z \in guarded' : z.op = x => z \in guarded
    BY DEF MoverOne, MoveRequest
  <2> QED BY <1>3, <1>4, <2>1 DEF MoverOne, Stays
<1> QED BY <1>2, <1>3, <1>4

\* The client asks for what the placement showed.
LEMMA AskStep ==
  ASSUME GInv, Shapes', MoveInv, NEW o \in Moves, NEW g \in Ids, NEW n \in Nodes,
         NEW d \in Cwds, AskMove(o, g, n, d)
  PROVE  MoveInv'
<1> USE Typed
<1>1. /\ asked[o] = None /\ Live(g) /\ ws[g].at[n] # None
      /\ UNCHANGED <<ws, own, shut, known, move, moved, mover, guarded, applied,
                     unseen>>
  BY DEF AskMove, vars
<1>2. ws[g].at[n] \in Placement /\ ws[g].revision \in Nat BY <1>1, LiveFields
<1> DEFINE r == [g |-> g, node |-> n, owner |-> ws[g].at[n].owner, cwd |-> d,
                 expected |-> ws[g].revision, revision |-> ws[g].at[n].revision,
                 attempted |-> FALSE]
<1>3. r \in Move BY <1>2 DEF Placement, Move
<1>4. asked' = [asked EXCEPT ![o] = r] BY DEF AskMove
<1>5. r.owner \in shut \/ (Exists(r.owner) /\ r.revision <= own[r.owner].revision)
  BY <1>1 DEF GInv, PlacementsSeen, Seen, Honest
<1> HIDE DEF r
<1>6. MoveTypeOK' BY <1>1, <1>3, <1>4 DEF MoveInv, MoveTypeOK
<1>7. asked'[o] = r /\ \A x \in Moves \ {o} : asked'[x] = asked[x]
  BY <1>4 DEF MoveInv, MoveTypeOK
<1>8. MoveOf(o)'
  <2>1. /\ move[o] = None /\ o \notin applied
        /\ mover[o].pc \notin {"send", "sent", "complete"}
        /\ \A x \in guarded : x.op # o
    BY <1>1 DEF MoveInv, MoveOf, MoveShape
  <2>2. MoveShape(o)' BY <1>1, <2>1 DEF MoveShape
  <2>3. MoveSeen(o)' BY <1>1, <1>5, <1>7, <2>1 DEF MoveSeen, Exists
  <2>4. MoveKept(o)' BY <1>1, <2>1 DEF MoveKept
  <2> QED BY <2>2, <2>3, <2>4 DEF MoveOf
<1>9. ASSUME NEW x \in Moves \ {o} PROVE MoveOf(x)'
  <2>1. Stays(x) BY <1>1, <1>7 DEF Stays
  <2>2. Ahead BY <1>1, StandsStill
  <2> QED BY <2>1, <2>2, StaysOf DEF MoveInv
<1> QED BY <1>6, <1>8, <1>9 DEF MoveInv

\* A step of one operation, by what it does to that operation.
LEMMA MoverStep ==
  ASSUME Shapes, Shapes', Ahead, MoveInv, NEW o \in Moves, NEW y \in Mover,
         MoverOne(o, y), UNCHANGED asked,
         \A x \in Moves \ {o} : move'[x] = move[x], MoveOf(o)'
  PROVE  MoveInv'
<1>1. MoveTypeOK' /\ \A x \in Moves \ {o} : Stays(x)
  BY MoverOneType DEF MoveInv
<1>2. \A x \in Moves \ {o} : MoveOf(x)' BY <1>1, StaysOf DEF MoveInv
<1> QED BY <1>1, <1>2 DEF MoveInv

\* What is known of an operation that is pending.
LEMMA MoveNow ==
  ASSUME Shapes, MoveInv, NEW o \in Moves, move[o] # None
  PROVE  /\ MoveTypeOK /\ MoveOf(o) /\ asked[o] # None
         /\ asked[o] \in Move /\ asked[o].owner \in Owners
         /\ move[o].owner = asked[o].owner /\ move[o].cwd = asked[o].cwd
         /\ move[o].revision = asked[o].revision /\ asked[o].revision \in Nat
         /\ move[o].attempted \in BOOLEAN /\ own[asked[o].owner].revision \in Nat
<1> USE ShapesTyped
<1>1. MoveTypeOK /\ MoveOf(o) BY DEF MoveInv
<1>2. asked[o] \in Move BY <1>1, MoveIsAsked DEF MoveOf
<1>3. asked[o].owner \in Owners /\ asked[o].revision \in Nat
  BY <1>2, MoveRecord
<1>4. own[asked[o].owner].revision \in Nat BY <1>3, OwnFields
<1> QED BY <1>1, <1>2, <1>3, <1>4, MoveIsAsked DEF MoveOf

\* An operation that ends, because nothing of it is in flight or applied any
\* more or because it is over.
LEMMA MoveEnds ==
  ASSUME Shapes, Shapes', Ahead, MoveInv, NEW o \in Moves, NEW y \in Mover,
         asked[o] # None, MoverOne(o, y), UNCHANGED asked,
         move' = [move EXCEPT ![o] = None], y.pc \in {"idle", "look"},
         o \in applied' \/ (\E x \in guarded' : x.op = o) => Over(o)',
         o \in applied' => o \in applied
  PROVE  MoveInv'
<1>0. MoveTypeOK /\ MoveOf(o) BY DEF MoveInv
<1>1. mover'[o] = y BY <1>0, MoverOneType
<1>2. move'[o] = None /\ \A x \in Moves \ {o} : move'[x] = move[x]
  BY DEF Shapes, RestPart
<1>3. MoveShape(o)' BY <1>1, <1>2 DEF MoveShape
<1>4. MoveSeen(o)' BY <1>0, <1>1, SeenKept DEF MoveOf, MoveSeen, Exists
<1>5. MoveKept(o)' BY <1>1, <1>2 DEF MoveKept
<1>6. MoveOf(o)' BY <1>3, <1>4, <1>5 DEF MoveOf
<1> QED BY <1>2, <1>6, MoverStep

\* An operation whose handler has seen the owner as it is now.
LEMMA MoveSaw ==
  ASSUME Shapes, Shapes', Ahead, MoveInv, NEW o \in Moves, move[o] # None,
         UNCHANGED <<move, asked>>, MoveSees(o, asked[o].owner),
         moved' = moved, unseen' = unseen, guarded' \subseteq guarded,
         \/ applied' = applied
         \/ applied' = applied \cup {o} /\ move[o].attempted
  PROVE  MoveInv'
<1>0. MoveTypeOK /\ MoveOf(o) /\ asked[o].owner \in Owners /\ asked[o] # None
  BY MoveNow
<1>1. PICK y \in Mover :
        /\ mover' = [mover EXCEPT ![o] = y] /\ y.pc = "complete"
        /\ y.revision = own'[asked[o].owner].revision
        /\ y.cwd = own'[asked[o].owner].cwd
  BY <1>0, MoverSees
<1>2. MoverOne(o, y) BY <1>1 DEF MoverOne
<1>3. mover'[o] = y BY <1>0, <1>2, MoverOneType
<1>4. MoveShape(o)' BY <1>0, <1>1, <1>3 DEF MoveOf, MoveShape
<1>5. MoveSeen(o)'
  <2>1. own'[asked[o].owner].revision \in Nat
    BY <1>0 DEF Shapes, OwnPart, OwnerWorkspace
  <2> QED BY <1>0, <1>1, <1>3, <2>1, SeenKept DEF MoveOf, MoveSeen, Exists, Honest
<1>6. MoveKept(o)'
  <2>1. (o \in applied \/ (\E x \in guarded : x.op = o)) =>
          Over(o)' \/ move[o].attempted
    BY <1>0, OverKept DEF MoveOf, MoveKept
  <2> QED BY <1>1, <1>3, <2>1 DEF MoveKept
<1>7. MoveOf(o)' BY <1>4, <1>5, <1>6 DEF MoveOf
<1> QED BY <1>2, <1>7, MoverStep

\* A handler that moves on and keeps its operation.
LEMMA MoveOn ==
  ASSUME Shapes, Shapes', Ahead, MoveInv, NEW o \in Moves, NEW y \in Mover,
         mover' = [mover EXCEPT ![o] = y], y.pc \in {"idle", "look", "send"},
         y.pc = "send" => move[o] # None,
         UNCHANGED <<move, asked, moved, unseen, guarded, applied>>
  PROVE  MoveInv'
<1>0. MoveTypeOK /\ MoveOf(o) BY DEF MoveInv
<1>1. MoverOne(o, y) BY DEF MoverOne
<1>2. mover'[o] = y BY <1>0, <1>1, MoverOneType
<1>3. MoveShape(o)' BY <1>0, <1>2 DEF MoveOf, MoveShape
<1>4. MoveSeen(o)' BY <1>0, <1>2, SeenKept DEF MoveOf, MoveSeen, Exists
<1>5. MoveKept(o)'
  <2>1. Over(o) /\ asked[o] # None => Over(o)' BY <1>0, OverKept
  <2> QED BY <1>0, <1>2, <2>1 DEF MoveOf, MoveShape, MoveKept
<1>6. MoveOf(o)' BY <1>3, <1>4, <1>5 DEF MoveOf
<1> QED BY <1>1, <1>6, MoverStep

\* prepare_default_cwd.
LEMMA PrepareMoveStep ==
  ASSUME Shapes, Shapes', Ahead, MoveInv, NEW o \in Moves, PrepareMove(o)
  PROVE  MoveInv'
<1>0. MoveTypeOK /\ MoveOf(o) BY DEF MoveInv
<1>1. /\ asked[o] # None
      /\ UNCHANGED <<moved, asked, guarded, applied, unseen>>
  BY DEF PrepareMove
<1>2. PICK y \in Mover : mover' = [mover EXCEPT ![o] = y] /\ y.pc = "look"
  BY <1>0, MoverRecords DEF PrepareMove
<1>3. CASE UNCHANGED move BY <1>1, <1>2, <1>3, MoveOn
<1>4. CASE move[o] = None /\ move' = [move EXCEPT ![o] = asked[o]]
  <2>1. MoverOne(o, y) BY <1>1, <1>2 DEF MoverOne
  <2>2. mover'[o] = y BY <1>0, <1>1, <2>1, MoverOneType
  <2>3. move'[o] = asked[o] /\ \A x \in Moves \ {o} : move'[x] = move[x]
    BY <1>4 DEF Shapes, RestPart
  <2>4. asked[o] = [asked[o] EXCEPT !.attempted = asked[o].attempted]
    <3>1. asked[o] \in Move BY <1>0, <1>1 DEF MoveTypeOK
    <3> QED BY <3>1 DEF Move
  <2>5. MoveShape(o)' BY <1>0, <1>1, <1>2, <2>2, <2>3, <2>4 DEF MoveOf, MoveShape
  <2>6. MoveSeen(o)' BY <1>0, <1>1, <1>2, <2>2, SeenKept DEF MoveOf, MoveSeen, Exists
  <2>7. MoveKept(o)'
    <3>1. Over(o) => Over(o)' BY <1>0, <1>1, OverKept
    <3> QED BY <1>0, <1>1, <1>2, <1>4, <2>2, <3>1 DEF MoveOf, MoveKept
  <2>8. MoveOf(o)' BY <2>5, <2>6, <2>7 DEF MoveOf
  <2> QED BY <1>1, <2>1, <2>3, <2>8, MoverStep
<1> QED BY <1>3, <1>4 DEF PrepareMove

\* The owner is read before anything is sent.
LEMMA LookMoveStep ==
  ASSUME Shapes, Shapes', Ahead, MoveInv, NEW o \in Moves, LookMove(o)
  PROVE  MoveInv'
<1>1. /\ move[o] # None /\ CanRead(move[o]) /\ UNCHANGED <<own, shut>>
      /\ UNCHANGED <<moved, asked, guarded, applied, unseen>>
  BY DEF LookMove, others
<1>2. /\ MoveTypeOK /\ MoveOf(o) /\ asked[o] # None
      /\ asked[o] \in Move /\ asked[o].owner \in Owners
      /\ move[o].owner = asked[o].owner /\ move[o].cwd = asked[o].cwd
      /\ move[o].revision = asked[o].revision /\ asked[o].revision \in Nat
      /\ move[o].attempted \in BOOLEAN /\ own[asked[o].owner].revision \in Nat
  BY <1>1, MoveNow
<1>3. CASE MoveSees(o, move[o].owner) /\ UNCHANGED move
  BY <1>1, <1>2, <1>3, MoveSaw
<1>4. CASE MoveTo(o, "send") /\ UNCHANGED move
  <2>1. PICK y \in Mover : mover' = [mover EXCEPT ![o] = y] /\ y.pc = "send"
    BY <1>2, <1>4, MoverRecords
  <2> QED BY <1>1, <1>4, <2>1, MoveOn
<1>5. CASE /\ MoveStop(o) /\ move' = [move EXCEPT ![o] = None]
           /\ ~(move[o].attempted /\ Reached(move[o]))
           /\ own[move[o].owner].revision # move[o].revision
  <2>1. PICK y \in Mover : mover' = [mover EXCEPT ![o] = y] /\ y.pc = "idle"
    BY <1>2, <1>5, MoverRecords
  <2>2. MoverOne(o, y) BY <1>1, <2>1 DEF MoverOne
  <2>3. o \in applied \/ (\E x \in guarded : x.op = o) => Over(o)
    <3>1. CASE ~move[o].attempted BY <1>2, <3>1 DEF MoveOf, MoveKept
    <3>2. CASE move[o].attempted /\ asked[o].owner \notin shut
      <4>1. asked[o].revision <= own[asked[o].owner].revision
        BY <1>2, <3>2 DEF MoveOf, MoveSeen
      <4>2. ~Reached(asked[o]) BY <1>2, <1>5, <3>2 DEF Reached
      <4> QED BY <1>2, <1>5, <4>1, <4>2 DEF Over, Superseded
    <3>3. CASE asked[o].owner \in shut BY <3>3 DEF Over
    <3> QED BY <3>1, <3>2, <3>3
  <2>4. Over(o) => Over(o)' BY <1>1, <1>2, OverKept
  <2> QED BY <1>1, <1>2, <1>5, <2>1, <2>2, <2>3, <2>4, MoveEnds
<1> QED BY <1>3, <1>4, <1>5 DEF LookMove

\* The request is sent for an operation that is marked attempted.
LEMMA SendMoveStep ==
  ASSUME Shapes, Shapes', Ahead, MoveInv, NEW o \in Moves, SendMove(o)
  PROVE  MoveInv'
<1> DEFINE b == move[o].attempted
           R == MoveRequest(o, b)
<1>1. /\ move[o] # None /\ move' = [move EXCEPT ![o].attempted = TRUE]
      /\ mover' = [mover EXCEPT ![o].pc = "sent", ![o].again = b]
      /\ guarded' = guarded \cup {R}
      /\ UNCHANGED <<moved, asked, applied, unseen>>
  BY DEF SendMove
<1>2. MoveTypeOK /\ MoveOf(o) /\ asked[o] # None /\ b \in BOOLEAN BY <1>1, MoveNow
<1>3. PICK y \in Mover :
        mover' = [mover EXCEPT ![o] = y] /\ y.pc = "sent" /\ y.again = b
  BY <1>1, <1>2, MoverSends
<1>4. MoverOne(o, y) BY <1>1, <1>2, <1>3 DEF MoverOne
<1>5. mover'[o] = y BY <1>1, <1>2, <1>4, MoverOneType
<1>6. /\ move'[o] = [move[o] EXCEPT !.attempted = TRUE]
      /\ \A x \in Moves \ {o} : move'[x] = move[x]
  BY <1>1 DEF Shapes, RestPart
<1>7. /\ move'[o] # None /\ move'[o].attempted
      /\ move'[o] = [asked[o] EXCEPT !.attempted = move'[o].attempted]
  <2>1. move[o] \in Move /\ asked[o] \in Move
    BY <1>1, <1>2 DEF MoveTypeOK, Shapes, RestPart
  <2>2. move'[o] \in Move /\ move'[o].attempted
    BY <1>6, <2>1 DEF Move
  <2>3. move[o] = [asked[o] EXCEPT !.attempted = b]
    BY <1>1, <1>2 DEF MoveOf, MoveShape
  <2>4. move'[o] = [asked[o] EXCEPT !.attempted = TRUE]
    BY <1>6, <2>1, <2>3 DEF Move
  <2>5. move'[o].attempted = TRUE BY <2>1, <2>4 DEF Move
  <2> QED BY <2>2, <2>4, <2>5, WorkspaceAssumption
<1>8. MoveShape(o)' BY <1>1, <1>2, <1>7 DEF MoveOf, MoveShape
<1>9. MoveSeen(o)' BY <1>1, <1>2, <1>3, <1>5, SeenKept DEF MoveOf, MoveSeen, Exists
<1>10. MoveKept(o)'
  <2> SUFFICES ASSUME ~y.again
               PROVE  \/ Over(o)'
                      \/ /\ o \notin applied'
                         /\ \A x \in guarded' : x.op = o => x = MoveRequest(o, FALSE)
    BY <1>5, <1>7 DEF MoveKept
  <2>1. b = FALSE BY <1>2, <1>3
  <2>2. Over(o) => Over(o)' BY <1>1, <1>2, OverKept
  <2>3. CASE o \in applied \/ \E x \in guarded : x.op = o
    BY <1>2, <2>1, <2>2, <2>3 DEF MoveOf, MoveKept
  <2>4. CASE ~(o \in applied \/ \E x \in guarded : x.op = o)
    BY <1>1, <2>1, <2>4
  <2> QED BY <2>3, <2>4
<1>11. MoveOf(o)' BY <1>8, <1>9, <1>10 DEF MoveOf
<1> QED BY <1>1, <1>4, <1>6, <1>11, MoverStep

\* The request is applied, and answered or not.
LEMMA MoveAppliedStep ==
  ASSUME Shapes, Shapes', Ahead, MoveInv, NEW o \in Moves,
         MoveAnswered(o) \/ \E x \in guarded : x.op = o /\ MoveAppliedLate(x)
  PROVE  MoveInv'
<1>0. MoveTypeOK /\ MoveOf(o) BY DEF MoveInv
<1>1. CASE MoveAnswered(o)
  <2>1. /\ mover[o].pc = "sent" /\ MoveSees(o, asked[o].owner)
        /\ UNCHANGED <<move, moved, asked, unseen>>
        /\ applied' = applied \cup {o} /\ guarded' \subseteq guarded
    BY <1>1 DEF MoveAnswered, GuardedSet
  <2>2. move[o] # None /\ move[o].attempted BY <1>0, <2>1 DEF MoveOf, MoveShape
  <2> QED BY <2>1, <2>2, MoveSaw
<1>2. ASSUME NEW x \in guarded, x.op = o, MoveAppliedLate(x)
      PROVE  MoveInv'
  <2>1. /\ UNCHANGED <<move, moved, asked, mover, unseen>>
        /\ applied' = applied \cup {o} /\ guarded' = guarded \ {x}
    BY <1>2 DEF MoveAppliedLate, GuardedSet
  <2>2. mover[o] \in Mover /\ mover' = [mover EXCEPT ![o] = mover[o]]
    BY <1>0, <2>1 DEF MoveTypeOK
  <2>3. MoverOne(o, mover[o]) BY <2>1, <2>2 DEF MoverOne
  <2>4. asked[o] # None BY <1>0, <1>2 DEF MoveOf, MoveShape
  <2>5. Over(o) => Over(o)' BY <1>0, <2>1, <2>4, OverKept
  <2>6. MoveShape(o)' BY <1>0, <2>1, <2>4 DEF MoveOf, MoveShape
  <2>7. MoveSeen(o)'
    BY <1>0, <2>1, <2>4, SeenKept DEF MoveOf, MoveSeen, Exists, Honest
  <2>8. MoveKept(o)'
    <3>1. Over(o) \/ (move[o] # None /\ move[o].attempted)
      BY <1>0, <1>2 DEF MoveOf, MoveKept
    <3>2. ASSUME mover[o].pc = "sent", ~mover[o].again,
                 MoveRequest(o, FALSE) \in guarded'
          PROVE  Over(o)
      <4>1. x # MoveRequest(o, FALSE) BY <2>1, <3>2
      <4> QED BY <1>0, <1>2, <2>1, <3>2, <4>1 DEF MoveOf, MoveKept
    <3> QED BY <2>1, <2>5, <3>1, <3>2 DEF MoveKept, MoveRequest
  <2>9. MoveOf(o)' BY <2>6, <2>7, <2>8 DEF MoveOf
  <2> QED BY <2>1, <2>2, <2>3, <2>9, MoverStep
<1> QED BY <1>1, <1>2

\* What a handler does when an answer is lost or a step fails.
LEMMA MoveFailsStep ==
  ASSUME Shapes, Shapes', Ahead, MoveInv, NEW o \in Moves,
         MoveProven(o) \/ MoveUnknown(o) \/ MoveFails(o)
  PROVE  MoveInv'
<1>0. MoveTypeOK /\ MoveOf(o) BY DEF MoveInv
<1>1. UNCHANGED <<move, moved, asked, guarded, applied, unseen>>
  BY DEF MoveProven, MoveUnknown, MoveFails
<1>2. CASE MoveProven(o)
  <2>1. move[o] # None BY <1>0, <1>2 DEF MoveProven, MoveOf, MoveShape
  <2>2. move[o].owner = asked[o].owner BY <2>1, MoveNow
  <2> QED BY <1>1, <1>2, <2>1, <2>2, MoveSaw DEF MoveProven
<1>3. CASE MoveUnknown(o) \/ MoveFails(o)
  <2>1. PICK y \in Mover : mover' = [mover EXCEPT ![o] = y] /\ y.pc = "idle"
    BY <1>0, <1>3, MoverRecords DEF MoveUnknown, MoveFails
  <2> QED BY <1>1, <2>1, MoveOn
<1> QED BY <1>2, <1>3

\* What ends an operation without a completion.
LEMMA MoveEndsStep ==
  ASSUME Shapes, Shapes', Ahead, MoveInv, NEW o \in Moves,
         MoveRefused(o) \/ MoveUnsent(o) \/ ReconcileMove(o)
  PROVE  MoveInv'
<1>0. MoveTypeOK /\ MoveOf(o) BY DEF MoveInv
<1>1. move[o] # None /\ UNCHANGED <<moved, asked, applied>>
  BY <1>0 DEF MoveRefused, MoveUnsent, ReconcileMove, MoveOf, MoveShape
<1>2. /\ asked[o] # None /\ move[o].owner = asked[o].owner
      /\ move[o].attempted \in BOOLEAN
  BY <1>1, MoveNow
<1>3. moved \cup unseen \subseteq (moved \cup unseen)' => (Over(o) => Over(o)')
  BY <1>0, <1>1, <1>2, OverKept
<1>4. CASE MoveRefused(o)
  <2> DEFINE x == MoveRequest(o, mover[o].again)
  <2>1. /\ mover[o].pc = "sent" /\ x \in guarded /\ guarded' = guarded \ {x}
        /\ move' = [move EXCEPT ![o] = None]
        /\ unseen' = IF mover[o].again THEN unseen \cup {o} ELSE unseen
    BY <1>4 DEF MoveRefused, MoveRequest
  <2>2. PICK y \in Mover : mover' = [mover EXCEPT ![o] = y] /\ y.pc = "idle"
    BY <1>0, <1>4, MoverRecords DEF MoveRefused
  <2>3. MoverOne(o, y) BY <1>1, <2>1, <2>2 DEF MoverOne
  <2>4. o \in applied' \/ (\E z \in guarded' : z.op = o) => Over(o)'
    <3>1. CASE mover[o].again BY <2>1, <3>1 DEF Over
    <3>2. CASE ~mover[o].again
      <4>1. mover[o].again = FALSE
        <5>1. mover[o] \in Mover BY <1>0 DEF MoveTypeOK
        <5> QED BY <3>2, <5>1 DEF Mover
      <4>2. x = MoveRequest(o, FALSE) BY <4>1
      <4>3. \/ Over(o)
            \/ /\ o \notin applied
               /\ \A z \in guarded : z.op = o => z = x
        BY <1>0, <2>1, <3>2, <4>2 DEF MoveOf, MoveKept
      <4>4. moved \cup unseen \subseteq (moved \cup unseen)' BY <1>1, <2>1
      <4> QED BY <1>1, <1>3, <2>1, <4>3, <4>4
    <3> QED BY <3>1, <3>2
  <2> QED BY <1>1, <1>2, <2>1, <2>2, <2>3, <2>4, MoveEnds
<1>5. CASE MoveUnsent(o)
  <2>1. guarded' = guarded /\ MoveStop(o) BY <1>5 DEF MoveUnsent
  <2>2. PICK y \in Mover : mover' = [mover EXCEPT ![o] = y] /\ y.pc = "idle"
    BY <1>0, <2>1, MoverRecords
  <2>3. CASE UNCHANGED <<move, unseen>> BY <1>1, <2>1, <2>2, <2>3, MoveOn
  <2>4. CASE /\ move' = [move EXCEPT ![o] = None]
             /\ unseen' = IF move[o].attempted THEN unseen \cup {o} ELSE unseen
    <3>1. MoverOne(o, y) BY <1>1, <2>1, <2>2, <2>4 DEF MoverOne
    <3>2. o \in applied' \/ (\E z \in guarded' : z.op = o) => Over(o)'
      <4>1. CASE move[o].attempted BY <2>4, <4>1 DEF Over
      <4>2. CASE ~move[o].attempted
        BY <1>0, <1>1, <1>3, <2>1, <2>4, <4>2 DEF MoveOf, MoveKept
      <4> QED BY <4>1, <4>2
    <3> QED BY <1>1, <1>2, <2>1, <2>2, <2>4, <3>1, <3>2, MoveEnds
  <2> QED BY <1>5, <2>3, <2>4 DEF MoveUnsent
<1>6. CASE ReconcileMove(o)
  <2>1. UNCHANGED <<guarded, unseen>> BY <1>6 DEF ReconcileMove
  <2>2. CASE MoveSees(o, move[o].owner) /\ UNCHANGED move
    BY <1>1, <1>2, <2>1, <2>2, MoveSaw
  <2>3. CASE /\ ~move[o].attempted /\ move' = [move EXCEPT ![o] = None]
             /\ UNCHANGED mover
    <3>1. mover[o] \in Mover /\ mover' = [mover EXCEPT ![o] = mover[o]]
      BY <1>0, <2>3 DEF MoveTypeOK
    <3>2. mover[o].pc \in {"idle", "look"} BY <1>6 DEF ReconcileMove
    <3>3. MoverOne(o, mover[o]) BY <1>1, <2>1, <3>1 DEF MoverOne
    <3>4. o \in applied' \/ (\E z \in guarded' : z.op = o) => Over(o)'
      BY <1>0, <1>1, <1>3, <2>1, <2>3 DEF MoveOf, MoveKept
    <3> QED BY <1>1, <1>2, <2>1, <2>3, <3>1, <3>2, <3>3, <3>4, MoveEnds
  <2> QED BY <1>6, <2>2, <2>3 DEF ReconcileMove
<1> QED BY <1>4, <1>5, <1>6

\* complete_default_cwd.
LEMMA CompleteMoveStep ==
  ASSUME Shapes, Shapes', Ahead, MoveInv, NEW o \in Moves, CompleteMove(o)
  PROVE  MoveInv'
<1>0. MoveTypeOK /\ MoveOf(o) BY DEF MoveInv
<1>1. /\ move[o] # None /\ move' = [move EXCEPT ![o] = None]
      /\ moved' = moved \cup {o}
      /\ UNCHANGED <<asked, guarded, applied, unseen>>
  BY DEF CompleteMove
<1>2. asked[o] # None BY <1>1, MoveNow
<1>3. PICK y \in Mover : mover' = [mover EXCEPT ![o] = y] /\ y.pc = "idle"
  BY <1>0, MoverRecords DEF CompleteMove
<1>4. MoverOne(o, y) BY <1>1, <1>3 DEF MoverOne
<1>5. Over(o)' BY <1>1 DEF Over
<1> QED BY <1>1, <1>2, <1>3, <1>4, <1>5, MoveEnds

\* Every step of a change keeps both invariants.
LEMMA MoverKeeps ==
  ASSUME GInv, MoveInv, NEW o \in Moves, MoverSteps(o)
  PROVE  GInv' /\ MoveInv'
<1> USE Typed
<1>0. MoveTypeOK /\ MoveOf(o) BY DEF MoveInv
<1>1. UNCHANGED own \/ asked[o] # None
  <2>1. CASE MoveAnswered(o)
    BY <1>0, <2>1 DEF MoveAnswered, MoveOf, MoveShape, MoveRequest
  <2>2. CASE \E x \in guarded : x.op = o /\ MoveAppliedLate(x)
    BY <1>0, <2>2 DEF MoveOf, MoveShape
  <2>3. ASSUME NEW g, NEW n, NEW d, AskMove(o, g, n, d) PROVE UNCHANGED own
    BY <2>3 DEF AskMove, vars
  <2>4. CASE \/ PrepareMove(o) \/ LookMove(o) \/ SendMove(o) \/ MoveProven(o)
             \/ MoveUnknown(o) \/ MoveRefused(o) \/ CompleteMove(o)
             \/ MoveUnsent(o) \/ MoveFails(o) \/ ReconcileMove(o)
    BY <2>4 DEF PrepareMove, LookMove, SendMove, MoveProven, MoveUnknown,
         MoveRefused, CompleteMove, MoveUnsent, MoveFails, ReconcileMove, others
  <2> QED BY <2>1, <2>2, <2>3, <2>4 DEF MoverSteps
<1>2. GInv' /\ Ahead /\ Shapes' BY <1>1, MoverGInv DEF GInv
<1> QED BY <1>2, AskStep, PrepareMoveStep, LookMoveStep, SendMoveStep,
           MoveAppliedStep, MoveFailsStep, MoveEndsStep, CompleteMoveStep
        DEF MoverSteps

\* Every step of the composed system keeps both invariants.
LEMMA MovesStep ==
  ASSUME GInv, MoveInv, MoveNext \/ UNCHANGED allVars
  PROVE  GInv' /\ MoveInv'
<1>1. CASE Steps /\ UNCHANGED moveVars BY <1>1, BesideMoves
<1>2. CASE MoveCrash BY <1>2, BesideMoves
<1>3. ASSUME NEW o \in Moves, MoverSteps(o) PROVE GInv' /\ MoveInv'
  BY <1>3, MoverKeeps
<1>4. ASSUME NEW x \in guarded, MoveAppliedLate(x)
      PROVE  x.op \in Moves /\ MoverSteps(x.op)
  BY <1>4 DEF MoverSteps, MoveInv, MoveTypeOK
<1>5. CASE UNCHANGED allVars
  <2>1. GInv' BY <1>5, GInvStep DEF allVars
  <2>2. MoveTypeOK' BY <1>5 DEF allVars, moveVars, MoveInv, MoveTypeOK
  <2>3. UNCHANGED <<own, shut, known, move, moved, asked, mover, guarded, applied,
                    unseen>>
    BY <1>5 DEF allVars, vars, moveVars
  <2>4. ASSUME NEW o \in Moves PROVE MoveOf(o)'
    <3>1. Stays(o) BY <2>3 DEF Stays
    <3>2. Ahead BY <2>3, StandsStill
    <3>3. Shapes /\ Shapes' BY <2>1 DEF GInv
    <3> QED BY <3>1, <3>2, <3>3, StaysOf DEF MoveInv
  <2> QED BY <2>1, <2>2, <2>4 DEF MoveInv
<1>6. CASE \E o \in Moves : MoverSteps(o) BY <1>3, <1>6
<1>7. MoveNext =>
        \/ Steps /\ UNCHANGED moveVars
        \/ MoveCrash
        \/ \E o \in Moves : MoverSteps(o)
  BY <1>4 DEF MoveNext, MoverSteps
<1> QED BY <1>1, <1>2, <1>5, <1>6, <1>7

\* Both invariants hold in the beginning.
LEMMA MovesInit ==
  ASSUME MoveInit PROVE GInv /\ MoveInv
<1>1. GInv BY GInvInit DEF MoveInit
<1>2. AtRest \in Mover /\ AtRest.pc = "idle"
  BY WorkspaceAssumption DEF AtRest, Mover
<1>3. MoveTypeOK
  <2> HIDE DEF AtRest
  <2> QED BY <1>2 DEF MoveInit, MoveTypeOK
<1>4. ASSUME NEW o \in Moves PROVE MoveOf(o)
  BY <1>2 DEF MoveInit, Init, MoveOf, MoveShape, MoveSeen, MoveKept
<1> QED BY <1>1, <1>3, <1>4 DEF MoveInv

\* Coordinated Workspaces and the changes of their directories keep both
\* invariants.
THEOREM Changed == MoveSpec => [](GInv /\ MoveInv)
BY MovesInit, MovesStep, PTL DEF MoveSpec

\* A directory that a request of the coordinator set, and that its owner still
\* shows as its latest change, belongs to an operation that is pending or
\* completed; unless a refusal ended it after an unanswered request.
THEOREM EveryMoveAccounted == MoveSpec => []MoveAccounted
<1>1. ASSUME GInv, MoveInv PROVE MoveAccounted
  <2> SUFFICES ASSUME NEW o \in applied, Reached(asked[o]),
                      asked[o].owner \notin shut
               PROVE  o \in moved \cup unseen \/ move[o] # None
    BY DEF MoveAccounted
  <2>1. o \in Moves BY <1>1 DEF MoveInv, MoveTypeOK
  <2> QED BY <1>1, <2>1 DEF MoveInv, MoveOf, MoveKept, Over, Superseded
<1> QED BY <1>1, Changed, PTL

\* With changes of directories in between, creations and closes keep what they
\* promise without them.
THEOREM ChangedKeepsStore ==
  MoveSpec => [](/\ TypeOK /\ NothingOrphaned /\ OwnerShared /\ LinkedOnce
                 /\ NamedOnce /\ ClosingIsQuiet /\ MirrorHonest)
BY Changed, GInvSays, PTL

=============================================================================

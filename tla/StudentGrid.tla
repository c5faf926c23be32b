----------------------------- MODULE StudentGrid -----------------------------
(***************************************************************************)
(* The grid of students on the teacher's dashboard and the viewer on one   *)
(* of them (server/student_manager.go, student.go, image_cache.go,         *)
(* card.go, topbar.go, viewer.go, dashboard.go).  Three kinds of threads   *)
(* meet here: handlers add and rename tiles and put pictures into them     *)
(* under the manager's mutex; removals take a tile away and then its       *)
(* cached picture; the UI thread takes a sorted snapshot under the mutex   *)
(* and then reads the tiles, and the cache, without it.                    *)
(*                                                                         *)
(* A tile is a *Student, made by one NAME frame: a join.  Its pictures     *)
(* are numbered; time.Now() is taken to differ between two of them.        *)
(* A map used by two goroutines at once, and an interface value read while *)
(* it is first written, end the program (Race).                            *)
(***************************************************************************)
EXTENDS Integers, Sequences, FiniteSets, SequencesExt

CONSTANTS
  Students,        \* number of students; a student is the rank of the id
  Again,           \* bound: students who join twice, the others join once
  Pictures,        \* bound: pictures of all tiles together
  Names,           \* ranks of lower-cased names, equal names having one rank
  MaxColumns       \* bound of the column buttons: 8 in the code

ASSUME GridAssumption ==
  /\ Students \in Nat /\ Again \subseteq 1 .. Students
  /\ Pictures \in Nat /\ Names \in Nat \ {0}
  /\ MaxColumns \in Nat \ {0}

Student == 1 .. Students
Join == (Student \X {1}) \cup (Again \X {2})
NoStudent == 0
NoJoin == <<>>
Owner(j) == j[1]

VARIABLES
  up,          \* the program runs
  joined,      \* the joins that have happened
  tile,        \* StudentManager.students
  name,        \* Student.Name of each tile
  image,       \* Student.Image: the number of a picture, 0 for nil
  stamp,       \* Student.Timestamp: of that picture, 0 for the join itself
  busy,        \* the tile whose handler is between the two, holding the mutex
  removing,    \* the student whose removal has still to drop the cached picture
  field, asc,  \* sortField, sortAsc
  needsResort,
  sorted,      \* sortedStudents
  columns,     \* columnsCount
  viewer,      \* viewerStudentID while viewerOpen
  cache,       \* ImageCacheManager.cache: a picture, and the stamp it has
  frame,       \* the tiles of the frame being drawn
  at,          \* where in it the UI thread is: row and place in the row
  made         \* an image operation made and not yet in the cache

tileVars == <<joined, tile, name>>
picVars  == <<image, stamp, busy>>
sortVars == <<field, asc, needsResort, sorted>>
drawVars == <<frame, at, made>>
vars == <<up, tileVars, picVars, removing, sortVars, columns, viewer, cache, drawVars>>

Picture == Join \X Nat
NoPicture == <<>>
Idle == [row |-> 0, place |-> 0]     \* no frame is being drawn

TypeOK ==
  /\ up \in BOOLEAN
  /\ joined \subseteq Join
  /\ tile \in [Student -> Join \cup {NoJoin}]
  /\ name \in [Join -> 1 .. Names]
  /\ image \in [Join -> Nat] /\ stamp \in [Join -> Nat]
  /\ busy \in Join \cup {NoJoin}
  /\ removing \in Student \cup {NoStudent}
  /\ field \in {"name", "id"} /\ asc \in BOOLEAN /\ needsResort \in BOOLEAN
  /\ sorted \in Seq(Join) /\ frame \in Seq(Join)
  /\ columns \in 1 .. MaxColumns
  /\ viewer \in Student \cup {NoStudent}
  /\ cache \in [Student -> (Picture \X Picture) \cup {<<>>}]
  /\ at \in [row : Nat, place : Nat]
  /\ made \in Picture \cup {NoPicture}

\* NewStudentManager, NewImageCacheManager, NewDashboardState.
Init ==
  /\ up = TRUE
  /\ joined = {}
  /\ tile = [s \in Student |-> NoJoin]
  /\ name = [j \in Join |-> 1]
  /\ image = [j \in Join |-> 0] /\ stamp = [j \in Join |-> 0]
  /\ busy = NoJoin
  /\ removing = NoStudent
  /\ field = "name" /\ asc = TRUE /\ needsResort = TRUE
  /\ sorted = <<>> /\ frame = <<>>
  /\ columns = IF MaxColumns < 3 THEN MaxColumns ELSE 3
  /\ viewer = NoStudent
  /\ cache = [s \in Student |-> <<>>]
  /\ at = Idle /\ made = NoPicture

Tiles == {tile[s] : s \in Student} \ {NoJoin}
\* The manager's mutex.
Free == busy = NoJoin
-----------------------------------------------------------------------------
(* The handlers. *)

\* A handler that found no tile adds one; two handlers of a student may both
\* have looked before either adds, so there may be one by now.  A removal holds
\* the lock that a joining handler takes before it looks (Registry), so that a
\* student's join never falls into its removal.
Add(j, n) ==
  /\ Free /\ j \notin joined
  /\ removing # Owner(j)
  /\ joined' = joined \cup {j}
  /\ tile' = [tile EXCEPT ![Owner(j)] = j]
  /\ name' = [name EXCEPT ![j] = n]
  /\ needsResort' = TRUE
  /\ UNCHANGED <<up, picVars, removing, field, asc, sorted, columns, viewer, cache, drawVars>>

UpdateName(j, n) ==
  /\ Free /\ j \in Tiles
  /\ n # name[j]
  /\ name' = [name EXCEPT ![j] = n]
  /\ needsResort' = TRUE
  /\ UNCHANGED <<up, joined, tile, picVars, removing, field, asc, sorted, columns, viewer,
                 cache, drawVars>>

\* UpdateImage under the mutex, in two steps: the picture, then its time.
PutImage(j) ==
  /\ Free /\ j \in Tiles
  /\ FoldFunction(LAMBDA x, y : x + y, 0, image) < Pictures
  /\ image' = [image EXCEPT ![j] = @ + 1]
  /\ busy' = j
  /\ UNCHANGED <<up, tileVars, stamp, removing, sortVars, columns, viewer, cache, drawVars>>

PutStamp ==
  /\ ~Free
  /\ stamp' = [stamp EXCEPT ![busy] = image[busy]]
  /\ busy' = NoJoin
  /\ UNCHANGED <<up, tileVars, image, removing, sortVars, columns, viewer, cache, drawVars>>

\* RemoveStudent: the tile, if the room has not been closed since, then the
\* cached picture.
RemoveTile(s) ==
  /\ Free /\ removing = NoStudent
  /\ tile' = [tile EXCEPT ![s] = NoJoin]
  /\ removing' = s
  /\ needsResort' = TRUE
  /\ UNCHANGED <<up, joined, name, picVars, field, asc, sorted, columns, viewer, cache, drawVars>>

RemoveCached ==
  /\ removing # NoStudent
  /\ cache' = [cache EXCEPT ![removing] = <<>>]
  /\ removing' = NoStudent
  /\ UNCHANGED <<up, tileVars, picVars, sortVars, columns, viewer, drawVars>>

-----------------------------------------------------------------------------
(* The UI thread, between frames: the buttons. *)

Between == at = Idle

\* The controls are drawn, and their clicks taken, only without a viewer.
ControlsShown == Between /\ viewer = NoStudent

CloseRoom ==
  /\ Between /\ Free
  /\ tile' = [s \in Student |-> NoJoin]
  /\ sorted' = <<>>
  /\ needsResort' = TRUE
  /\ cache' = [s \in Student |-> <<>>]
  /\ viewer' = NoStudent
  /\ UNCHANGED <<up, joined, name, picVars, removing, field, asc, columns, drawVars>>

\* Seeded fault: the buttons have no bounds.
ChangeColumns_NoBound ==
  /\ ControlsShown
  /\ columns' \in {columns - 1, columns + 1}
  /\ UNCHANGED <<up, tileVars, picVars, removing, sortVars, viewer, cache, drawVars>>

ChangeColumns ==
  /\ ControlsShown
  /\ columns' \in {columns - 1, columns + 1} \cap (1 .. MaxColumns)
  /\ UNCHANGED <<up, tileVars, picVars, removing, sortVars, viewer, cache, drawVars>>

\* Seeded fault: the new direction waits for the next sort.
ToggleSort_KeepOrder ==
  /\ ControlsShown /\ Free
  /\ asc' = ~asc
  /\ UNCHANGED <<up, tileVars, picVars, removing, field, needsResort, sorted, columns, viewer,
                 cache, drawVars>>

ToggleSort ==
  /\ ControlsShown /\ Free
  /\ asc' = ~asc
  /\ needsResort' = TRUE
  /\ UNCHANGED <<up, tileVars, picVars, removing, field, sorted, columns, viewer,
                 cache, drawVars>>

SwitchField ==
  /\ ControlsShown /\ Free
  /\ field' = IF field = "name" THEN "id" ELSE "name"
  /\ needsResort' = TRUE
  /\ UNCHANGED <<up, tileVars, picVars, removing, asc, sorted, columns, viewer, cache, drawVars>>

View(j) ==
  /\ Between /\ viewer = NoStudent
  /\ j \in ToSet(sorted)
  /\ viewer' = Owner(j)
  /\ UNCHANGED <<up, tileVars, picVars, removing, sortVars, columns, cache, drawVars>>

CloseViewer ==
  /\ Between /\ viewer # NoStudent
  /\ viewer' = NoStudent
  /\ UNCHANGED <<up, tileVars, picVars, removing, sortVars, columns, cache, drawVars>>

-----------------------------------------------------------------------------
(* The UI thread, drawing a frame. *)

Key(j) == IF field = "name" THEN name[j] ELSE Owner(j)

\* An order the sort may end in.  It starts from the order of a map's
\* iteration, so that equal names come in any order, at every sort anew.
Ordered(js) ==
  \A i, k \in DOMAIN js : i < k =>
    IF asc THEN Key(js[i]) <= Key(js[k]) ELSE Key(js[i]) >= Key(js[k])

\* GetSorted: the order it has, or a new one, for its own reasons or because
\* half a second has passed.
GetSorted ==
  \/ ~needsResort /\ UNCHANGED <<needsResort, sorted>>
  \/ /\ needsResort' = FALSE
     /\ sorted' \in SetToSeqs(Tiles)
     /\ Ordered(sorted')

\* Seeded fault: no row for the tiles that do not fill one.
ItemCount_Floor(n, col) == n \div col

\* The rows of the list, and what CreateStudentGrid puts into one.
ItemCount(n, col) == (n + col - 1) \div col
RowStart(row, col) == row * col
RowEnd(row, col, n) == IF RowStart(row, col) + col > n THEN n ELSE RowStart(row, col) + col
Row(js, row, col) == SubSeq(js, RowStart(row, col) + 1, RowEnd(row, col, Len(js)))

\* LayoutViewer draws one student's picture, by the same cache.
ViewerFrame == <<tile[viewer]>>

\* Layout: the snapshot, and the rows the window has room for, from the first
\* visible one; or the viewer on a student who is still there.
BeginFrame ==
  /\ Between /\ Free
  /\ GetSorted
  /\ IF viewer = NoStudent \/ tile[viewer] = NoJoin
     THEN /\ viewer' = NoStudent
          /\ \/ /\ ItemCount(Len(sorted'), columns) = 0
                /\ at' = Idle /\ frame' = <<>>
             \/ /\ frame' = sorted'
                /\ \E first \in 0 .. ItemCount(Len(sorted'), columns) - 1 :
                     at' = [row |-> first, place |-> 1]
     ELSE /\ frame' = ViewerFrame
          /\ at' = [row |-> 0, place |-> 1]
          /\ UNCHANGED viewer
  /\ UNCHANGED <<up, tileVars, picVars, removing, field, asc, columns, cache, made>>

TileAt == Row(frame, at.row, columns)[at.place]

\* On to the next tile of the frame, or out of it.
GoOn ==
  IF at.place < Len(Row(frame, at.row, columns))
  THEN at' = [at EXCEPT !.place = @ + 1] /\ UNCHANGED frame
  ELSE IF at.row + 1 < ItemCount(Len(frame), columns)
       THEN at' = [row |-> at.row + 1, place |-> 1] /\ UNCHANGED frame
       ELSE at' = Idle /\ frame' = <<>>

Drawing == ~Between /\ made = NoPicture

\* Seeded fault: the cached picture is good if it has the right pointer, which
\* is zero for every picture that begins at the origin.
Hit_AnyStamp(j) == cache[Owner(j)] # <<>>

\* GetImageOp's condition.
Hit(j) == cache[Owner(j)] # <<>> /\ cache[Owner(j)][2] = <<j, stamp[j]>>

\* A tile without a picture, or whose picture is in the cache.
DrawOld ==
  /\ Drawing
  /\ image[TileAt] = 0 \/ Hit(TileAt)
  /\ GoOn
  /\ UNCHANGED <<up, tileVars, picVars, removing, sortVars, columns, viewer, cache, made>>

\* A new operation is made of the picture the tile has now ...
MakeOp ==
  /\ Drawing
  /\ image[TileAt] # 0 /\ ~Hit(TileAt)
  /\ made' = <<TileAt, image[TileAt]>>
  /\ UNCHANGED <<up, tileVars, picVars, removing, sortVars, columns, viewer, cache,
                 frame, at>>

\* ... and stored with the time the tile has by then.
StoreOp ==
  /\ made # NoPicture
  /\ cache' = [cache EXCEPT ![Owner(TileAt)] = <<made, <<TileAt, stamp[TileAt]>>>>]
  /\ made' = NoPicture
  /\ GoOn
  /\ UNCHANGED <<up, tileVars, picVars, removing, sortVars, columns, viewer>>

\* The window has no room for more rows.
EndFrame ==
  /\ Drawing /\ at.place = 1 /\ at.row > 0
  /\ at' = Idle /\ frame' = <<>>
  /\ UNCHANGED <<up, tileVars, picVars, removing, sortVars, columns, viewer, cache,
                 made>>

\* The removal and the UI thread are in the cache's map at the same time, or
\* the UI thread reads a tile's image while the first one is being written.
Race ==
  /\ ~Between
  /\ \/ removing # NoStudent
     \/ Drawing /\ Free /\ TileAt \in Tiles /\ image[TileAt] = 0
  /\ up' = FALSE
  /\ UNCHANGED <<tileVars, picVars, removing, sortVars, columns, viewer, cache, drawVars>>

-----------------------------------------------------------------------------
Handlers ==
  \/ \E j \in Join : PutImage(j)
                     \/ \E n \in 1 .. Names : Add(j, n) \/ UpdateName(j, n)
  \/ PutStamp
  \/ \E s \in Student : RemoveTile(s)
  \/ RemoveCached

Buttons ==
  \/ CloseRoom \/ ChangeColumns \/ ToggleSort \/ SwitchField
  \/ CloseViewer \/ \E j \in Join : View(j)

Frames == BeginFrame \/ DrawOld \/ MakeOp \/ StoreOp \/ EndFrame

Next == up /\ (Handlers \/ Buttons \/ Frames \/ Race)

Spec == Init /\ [][Next]_vars
-----------------------------------------------------------------------------
(* Properties. *)

\* The picture in a student's tile, or in the viewer, was sent in this join
\* (image_cache.go, GetImageOp): not by someone else, and not before the
\* student left and came back, whatever a frame that still held the old tile
\* has put into the cache since.
DrawnBelongs ==
  ~Between /\ Hit(TileAt) => cache[Owner(TileAt)][1][1] = TileAt

\* Whatever the number of columns, the rows show every tile of the snapshot, in
\* its order and once (dashboard.go, layoutDashboard; card.go, CreateStudentGrid).
RowsShowAll ==
  FlattenSeq([r \in 1 .. ItemCount(Len(sorted), columns) |-> Row(sorted, r - 1, columns)])
    = sorted

\* Whenever no new sort is due, the snapshot that the next frame takes holds
\* the tiles there are, in the order the top bar shows (student_manager.go).
SnapshotIsCurrent ==
  ~needsResort => ToSet(sorted) = Tiles /\ Len(sorted) = Cardinality(Tiles) /\ Ordered(sorted)
=============================================================================

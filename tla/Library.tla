------------------------------ MODULE Library ------------------------------
(***************************************************************************)
(* The library of server/app/library: folders and jobs in an ordered tree, *)
(* and the trash.  Every operation is one transaction without an await, so *)
(* it is one action; a request that a check rejects changes nothing and is *)
(* not an action.                                                          *)
(*                                                                         *)
(* A trash entry is named by the item it was made for: an item is the root *)
(* of at most one entry at a time.  Names, titles and times are left out;  *)
(* where the code breaks a tie between positions by name or by submission  *)
(* time, Age decides, whatever the order of creation was.                  *)
(***************************************************************************)
EXTENDS Integers, FiniteSets

CONSTANTS
  Folders,      \* folder ids
  Jobs,         \* job ids
  Root,         \* the parent of what is not in a folder (None in the code)
  NoEntry,      \* not in the trash
  Age,          \* how ties between equal positions are broken
  MaxSelect     \* bound: the longest list one request names

Items  == Folders \cup Jobs
Places == Folders \cup {Root}

ASSUME LibraryAssumption ==
  /\ Folders \cap Jobs = {} /\ Root \notin Items /\ NoEntry \notin Items \cup {Root}
  /\ IsFiniteSet(Items)
  /\ Age \in [Items -> Nat] /\ \A x, y \in Items : Age[x] = Age[y] => x = y
  /\ MaxSelect \in Nat \ {0}

VARIABLES
  rows,      \* the folder and job tables
  trash      \* trash entries: where each entry's root was, or NoEntry

vars == <<rows, trash>>

Row == [state    : {"new", "live", "trashed", "gone"},  \* deleted_at, or no row
        parent   : Places,                              \* parent_id, folder_id
        position : Nat,
        entry    : Items \cup {NoEntry}]                \* trash_entry_id

NoRow(s) == [state |-> s, parent |-> Root, position |-> 0, entry |-> NoEntry]

Init ==
  /\ rows = [x \in Items |-> NoRow("new")]
  /\ trash = [x \in Items |-> NoEntry]

-----------------------------------------------------------------------------
(* Tree and order *)

KindOf(x)   == IF x \in Folders THEN Folders ELSE Jobs
Live(r)     == {x \in Items : r[x].state = "live"}
Kids(r, K, p) == {x \in K : r[x].state = "live" /\ r[x].parent = p}
IsPlace(p)  == p \in {Root} \cup Live(rows)     \* _require_live_folder
Entries     == {x \in Items : trash[x] # NoEntry}

\* descendant_folder_ids: the least set with f in it that holds the live
\* subfolders of its members.
Below(r, f) ==
  {g \in Folders : \A S \in SUBSET Folders :
     f \in S /\ (\A h \in Folders : r[h].state = "live" /\ r[h].parent \in S => h \in S)
       => g \in S}

\* Wrong variant: siblings are sorted without looking at their positions.
BeforeByAge(r, x, y) == Age[x] < Age[y]

Before(r, x, y) ==
  \/ r[x].position < r[y].position
  \/ r[x].position = r[y].position /\ Age[x] < Age[y]

\* The index of x when its siblings are listed in order.
Rank(r, x) ==
  Cardinality({y \in Kids(r, KindOf(x), r[x].parent) : Before(r, y, x)})

\* Wrong variant: the number of siblings, although deletions leave gaps.
NextPositionByCount(r, K, p) == Cardinality(Kids(r, K, p))

\* next_position, for a kind in a place.
NextPosition(r, K, p) ==
  LET used == {r[x].position : x \in Kids(r, K, p)}
  IN  IF used = {} THEN 0
      ELSE 1 + CHOOSE n \in used : \A m \in used : m <= n

\* _reindex_folders and _reindex_jobs, for the children of some places.
Reindex(r, folderPlaces, jobPlaces) ==
  [x \in Items |->
     IF /\ r[x].state = "live"
        /\ r[x].parent \in (IF x \in Folders THEN folderPlaces ELSE jobPlaces)
     THEN [r[x] EXCEPT !.position = Rank(r, x)]
     ELSE r[x]]

\* Lists without repetition, as requests carry them.
Lists(S) ==
  UNION {{s \in [1 .. n -> S] : \A i, k \in 1 .. n : s[i] = s[k] => i = k}
           : n \in 1 .. MaxSelect}

Members(s) == {s[i] : i \in DOMAIN s}

\* How many of M come before x in list s.
Offset(s, M, x) ==
  Cardinality({i \in DOMAIN s : s[i] \in M /\ \E k \in DOMAIN s : s[k] = x /\ i < k})

\* The selected folders that no other selected folder contains.
TopFolders(S) ==
  {f \in S \cap Folders :
     \A g \in S \cap Folders : f # g => f \notin Below(rows, g)}

Covered(S) == UNION {Below(rows, f) : f \in TopFolders(S)}

\* Wrong variant: a job inside a selected folder is handled by itself, too.
TopItemsAndNestedJobs(S) == TopFolders(S) \cup (S \cap Jobs)

\* The selected items that do not travel with a selected folder.
TopItems(S) ==
  TopFolders(S) \cup {j \in S \cap Jobs : rows[j].parent \notin Covered(S)}

-----------------------------------------------------------------------------
(* Folders and jobs *)

\* create_folder and create_job: appended to the place's order.
Create(x, p) ==
  /\ rows[x].state = "new" /\ IsPlace(p)
  /\ rows' = [rows EXCEPT ![x] =
                [state |-> "live", parent |-> p, entry |-> NoEntry,
                 position |-> NextPosition(rows, KindOf(x), p)]]
  /\ UNCHANGED trash

\* normalize_order accepts any order of exactly the current children.
Orders(S) ==
  {o \in [S -> 0 .. (Cardinality(S) - 1)] : \A x, y \in S : o[x] = o[y] => x = y}

Reorder(p) ==
  /\ IsPlace(p)
  /\ \E fo \in Orders(Kids(rows, Folders, p)), jo \in Orders(Kids(rows, Jobs, p)) :
       rows' = [x \in Items |->
                  IF x \in DOMAIN fo THEN [rows[x] EXCEPT !.position = fo[x]]
                  ELSE IF x \in DOMAIN jo THEN [rows[x] EXCEPT !.position = jo[x]]
                  ELSE rows[x]]
  /\ UNCHANGED trash

Move(s, p) ==
  LET moved == TopItems(Members(s))
      placed == [x \in Items |-> IF x \in moved
        THEN [rows[x] EXCEPT !.parent = p,
                !.position = NextPosition(rows, KindOf(x), p)
                               + Offset(s, moved \cap KindOf(x), x)]
        ELSE rows[x]]
      sources(K) == {rows[x].parent : x \in moved \cap K}
  IN  /\ IsPlace(p)
      /\ Members(s) \subseteq Live(rows)
      /\ \A f \in Members(s) \cap Folders : p \notin Below(rows, f)
      /\ rows' = Reindex(placed, {p} \cup sources(Folders), {p} \cup sources(Jobs))
      /\ UNCHANGED trash

-----------------------------------------------------------------------------
(* The trash *)

\* What goes to the trash with root x.
Bundle(x) ==
  IF x \in Jobs THEN {x}
  ELSE {y \in Live(rows) : y \in Below(rows, x) \/ rows[y].parent \in Below(rows, x)}

\* delete: one entry per selected item that no selected folder contains.
Delete(S) ==
  LET roots == TopItems(S)
      rootOf(y) == CHOOSE x \in roots : y \in Bundle(x)
  IN  /\ S # {} /\ S \subseteq Live(rows) /\ Cardinality(S) <= MaxSelect
      /\ rows' = [y \in Items |-> IF \E x \in roots : y \in Bundle(x)
                    THEN [rows[y] EXCEPT !.state = "trashed", !.entry = rootOf(y)]
                    ELSE rows[y]]
      /\ trash' = [x \in Items |-> IF x \in roots THEN rows[x].parent ELSE trash[x]]

\* delete_folder_only: the children move up, the empty folder is trashed.
DeleteFolderOnly(f) ==
  LET p == rows[f].parent
      moved(x) == rows[x].state = "live" /\ rows[x].parent = f
      lifted == [x \in Items |->
        IF x = f THEN [rows[f] EXCEPT !.state = "trashed", !.entry = f]
        ELSE IF moved(x)
        THEN [rows[x] EXCEPT !.parent = p,
                !.position = NextPosition(rows, KindOf(x), p) + Rank(rows, x)]
        ELSE rows[x]]
  IN  /\ rows[f].state = "live"
      /\ rows' = Reindex(lifted, {p}, {p})
      /\ trash' = [trash EXCEPT ![f] = p]

\* Wrong variant: an entry goes back to its old parent whatever became of it.
TargetAsItWas(E, x) == trash[x]

\* Where the root of an entry goes when the entries in E are restored: every
\* one of them counts as live, and Root stands in for a parent that is gone.
Target(E, x) ==
  IF trash[x] \in Live(rows) \cup {y \in Items : rows[y].entry \in E}
  THEN trash[x] ELSE Root

\* Wrong variant: the row still names the entry it was restored from.
RevivedUnderEntry(row) == [row EXCEPT !.state = "live"]

Revived(row) == [row EXCEPT !.state = "live", !.entry = NoEntry]

\* restore: roots are appended to their destinations, the rest of a bundle
\* stays as it was.  An entry without its root is refused.
Restore(s) ==
  LET E == Members(s)
      fellows(x) == {y \in E \cap KindOf(x) : Target(E, y) = Target(E, x)}
      back == [x \in Items |->
        IF x \in E
        THEN [Revived(rows[x]) EXCEPT
                !.parent = Target(E, x),
                !.position = NextPosition(rows, KindOf(x), Target(E, x))
                               + Offset(s, fellows(x), x)]
        ELSE IF rows[x].entry \in E THEN Revived(rows[x]) ELSE rows[x]]
      targets(K) == {Target(E, x) : x \in E \cap K}
  IN  /\ E \subseteq Entries
      /\ \A x \in E : rows[x].entry = x
      /\ rows' = Reindex(back, targets(Folders), targets(Jobs))
      /\ trash' = [x \in Items |-> IF x \in E THEN NoEntry ELSE trash[x]]

\* Wrong variant: only the root of a bundle is removed.
PurgeRootOnly(E) ==
  /\ E # {} /\ E \subseteq Entries
  /\ rows' = [x \in Items |-> IF x \in E THEN NoRow("gone") ELSE rows[x]]
  /\ trash' = [x \in Items |-> IF x \in E THEN NoEntry ELSE trash[x]]

Purge(E) ==
  /\ E # {} /\ E \subseteq Entries
  /\ rows' = [x \in Items |-> IF rows[x].entry \in E THEN NoRow("gone") ELSE rows[x]]
  /\ trash' = [x \in Items |-> IF x \in E THEN NoEntry ELSE trash[x]]

\* DELETE /jobs removes the row, trashed or not, and leaves trash entries.
DeleteJob(j) ==
  /\ rows[j].state \in {"live", "trashed"}
  /\ rows' = [rows EXCEPT ![j] = NoRow("gone")]
  /\ UNCHANGED trash

-----------------------------------------------------------------------------
Next ==
  \/ \E x \in Items, p \in Places : Create(x, p)
  \/ \E p \in Places : Reorder(p)
  \/ \E s \in Lists(Live(rows)), p \in Places : Move(s, p)
  \/ \E S \in SUBSET Live(rows) : Delete(S)
  \/ \E f \in Folders : DeleteFolderOnly(f)
  \/ \E s \in Lists(Entries) : Restore(s)
  \/ \E E \in SUBSET Entries : Purge(E)
  \/ \E j \in Jobs : DeleteJob(j)

Spec == Init /\ [][Next]_vars

-----------------------------------------------------------------------------
(* Safety *)

\* What is live hangs on Root or a live folder, what is trashed and not the
\* root of its entry hangs on a folder of the same entry, and nothing hangs on
\* a folder that was never made.
Parented(r) ==
  \A x \in Items :
    /\ r[x].state = "live" /\ r[x].parent # Root =>
         r[x].parent \in Folders /\ r[r[x].parent].state = "live"
    /\ r[x].state = "trashed" /\ r[x].entry # x =>
         r[x].parent \in Folders /\ r[r[x].parent].entry = r[x].entry
    /\ r[x].parent # Root => r[r[x].parent].state # "new"

\* Every row can be reached from Root, through rows of any state.
Grounded(r) ==
  \A S \in SUBSET (Items \cup {Root}) :
    Root \in S /\ (\A x \in Items : r[x].parent \in S => x \in S)
    => Items \subseteq S

\* The row of an entry's root still says where the root was.
Recorded(r, t) == \A x \in Items : r[x].entry = x => t[x] = r[x].parent

\* An item whose place among its siblings matters, now or after a restore.
Placed(r, x) ==
  r[x].state = "live" \/ (r[x].state = "trashed" /\ r[x].entry # x)

Spread(r) ==
  \A x, y \in Items :
    /\ x # y /\ KindOf(x) = KindOf(y) /\ r[x].parent = r[y].parent
    /\ r[x].state = r[y].state /\ Placed(r, x) /\ Placed(r, y)
    => r[x].position # r[y].position

\* Only trashed rows belong to an entry.
Marked(r) == \A x \in Items : r[x].state = "trashed" <=> r[x].entry # NoEntry

\* Tables that the operations keep this way.
Sound(r, t) ==
  /\ r \in [Items -> Row] /\ t \in [Items -> Places \cup {NoEntry}]
  /\ Marked(r) /\ Parented(r) /\ Grounded(r) /\ Recorded(r, t) /\ Spread(r)

\* Every variable has its type; only trashed rows belong to an entry.
TypeOK ==
  /\ rows \in [Items -> Row]
  /\ trash \in [Items -> Places \cup {NoEntry}]
  /\ \A x \in Items : rows[x].state = "trashed" <=> rows[x].entry # NoEntry

\* Whatever is moved, trashed and restored in whatever order, every live item
\* can be reached from the root of the library: no folder ends up inside itself
\* or under a folder that is trashed or gone (`assert_move_is_acyclic', and
\* `restore': "if its parent is gone, the root library is the only safe
\* destination").
RootedTree ==
  \A S \in SUBSET (Items \cup {Root}) :
    /\ Root \in S
    /\ \A x \in Items : rows[x].state = "live" /\ rows[x].parent \in S => x \in S
    => Live(rows) \subseteq S

\* Siblings of one kind never share a position, so the order users see does
\* not hang on names or dates (`reorder': "the manual order of one folder's
\* direct children").
DistinctPositions ==
  \A x, y \in Live(rows) :
    /\ x # y /\ KindOf(x) = KindOf(y) /\ rows[x].parent = rows[y].parent
    => rows[x].position # rows[y].position

\* A trash entry can be restored: its root is there under it, what else is
\* under it hangs on its root, and nothing trashed is without an entry
\* (`TrashEntry': "one deleted folder with its whole subtree").  The one entry
\* without its root is that of a job which DELETE /jobs removed from the trash,
\* and nothing is under it.
EntriesIntact ==
  /\ \A x \in Entries :
       \/ rows[x].entry = x
       \/ /\ x \in Jobs /\ rows[x].state = "gone"
          /\ \A y \in Items : rows[y].entry # x
  /\ \A x \in Items : rows[x].state = "trashed" =>
       /\ rows[x].entry \in Entries
       /\ x = rows[x].entry \/ (/\ rows[x].parent \in Folders
                                /\ rows[rows[x].parent].entry = rows[x].entry)

\* A bundle stays whole: what was trashed together comes back or is purged
\* together, and inside a restored folder everything is where it was
\* (`Folder': "restoring a folder restores everything that was inside it").
\* Only DELETE /jobs takes something out of it, the one job it names.
BundleStaysWhole ==
  [][\A x, y \in Items :
       rows[x].entry # NoEntry /\ rows[x].entry = rows[y].entry =>
         \/ /\ rows'[x].entry = rows'[y].entry
            /\ rows'[x].state = rows'[y].state
            /\ rows[x].parent = y /\ rows'[x].state = "live" => rows'[x].parent = y
         \/ \E j \in Jobs \cap {x, y} : DeleteJob(j)]_vars

\* Two siblings change order only by a reorder of their folder or by a move
\* that names one of them: no trashing, restoring or moving of others disturbs
\* the manual order (`move': re-indexing leaves no gap behind).
OrderKept ==
  [][\A x, y \in Live(rows) :
       /\ KindOf(x) = KindOf(y) /\ rows[x].parent = rows[y].parent
       /\ rows'[x].state = "live" /\ rows'[y].state = "live"
       /\ rows'[x].parent = rows'[y].parent
       /\ rows[x].position < rows[y].position
       => \/ rows'[x].position < rows'[y].position
          \/ Reorder(rows[x].parent)
          \/ \E s \in Lists(Live(rows)), p \in Places :
               Members(s) \cap {x, y} # {} /\ Move(s, p)]_vars
=============================================================================

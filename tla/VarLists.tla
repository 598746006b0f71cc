------------------------------- MODULE VarLists -------------------------------
(***************************************************************************)
(* Which variable a name stands for: the lists of variables of the script  *)
(* and of its functions (script.cpp, FindVar and AddVar), while a script   *)
(* is loaded, when declarations count, and while it runs, when names are   *)
(* built dynamically and there is no trace of declarations any more.       *)
(*                                                                         *)
(* Each scope has a main list, sorted, and from some length on a second    *)
(* short one, the lazy list, which is merged into the main list when full. *)
(* A name is a number, and stricmp the order of numbers.  A variable is    *)
(* its scope and its name.  Its name and its Var take a chunk each of the  *)
(* SimpleHeap.                                                             *)
(***************************************************************************)
EXTENDS SimpleHeap, Sequences, SequencesExt

CONSTANTS
  Names,           \* natural numbers
  BuiltIn,         \* those of built-in variables
  Funcs,           \* the script's functions
  Global,          \* the scope of what belongs to no function
  MAX_LAZY_VARS,   \* 2000 in the program
  FirstLocal,      \* 100: the size of a function's first main list
  Sizes,           \* <<1000, 9999, 100000, 1000000>>: the later ones
  MAX_FUNC_VAR_EXCEPTIONS,
  NAME_SIZE, VAR_SIZE, FUNC_SIZE, PARAM_SIZE, HOTKEY_SIZE, VARIANT_SIZE,
  Watched,         \* a function and a name that StaticAndDynamicAgree looks at
  MaxParams,       \* bound: formal parameters of a function
  ParamNames,      \* bound: their names
  Faults,          \* the allocations that may fail
  MaxAccidents     \* bound: allocations that fail and hotkeys that are given back

ASSUME VarListsAssumption ==
  /\ Names \subseteq Nat /\ BuiltIn \union ParamNames \subseteq Names /\ Global \notin Funcs
  /\ NULL \notin Funcs \union {Global} /\ NULL \notin Seq(Names)
  /\ "-" \notin Funcs \union {Global, NULL}
  /\ {NAME_SIZE, VAR_SIZE, FUNC_SIZE, HOTKEY_SIZE, VARIANT_SIZE} \subseteq 1 .. BLOCK_SIZE
  /\ PARAM_SIZE \in Nat /\ MaxParams \in Nat /\ MaxAccidents \in Nat
  /\ MAX_LAZY_VARS \in Nat \ {0, 1} /\ FirstLocal \in Nat \ {0}
  /\ Sizes \in Seq(Nat) /\ Len(Sizes) = 4
  /\ FirstLocal <= Sizes[1] /\ \A i \in 1 .. 3 : Sizes[i] <= Sizes[i + 1]
  /\ MAX_LAZY_VARS <= Sizes[4] /\ \A i \in 2 .. 3 : Sizes[i] + MAX_LAZY_VARS <= Sizes[i + 1]
  /\ Watched \in Funcs \X Names
  /\ Faults \subseteq {"name", "lazy", "array"}

Scopes == Funcs \union {Global}
Modes  == {"default", "global", "local", "prefer local"}
Memory == {"enough"} \union Faults

VARIABLES
  lists,         \* for each scope: mVar as main, mLazyVar as lazy, mVarCountMax
  heap,          \* see SimpleHeap
  mIsReadyToExecute,
  func,          \* for each function: mDefaultVarType and mParam
  CurrentFunc,   \* g.CurrentFunc: being loaded, or called; NULL if none
  exceptions,    \* mFuncExceptionVar up to its count; NULL outside a function
  mNextLineIsFunctionBody,
  loaded,        \* the functions defined so far
  accidents,     \* how many allocations and hotkeys have failed so far
  undefined,     \* the program has used memory that is not set or not its own
  meant          \* (auxiliary) the scope the watched name was given at load
                 \* time in its function, NULL if it was not used there, "-" if
                 \* the script then says something else of it

context == <<func, CurrentFunc, exceptions, mNextLineIsFunctionBody>>
vars    == <<lists, heap, mIsReadyToExecute, func, CurrentFunc, exceptions,
             mNextLineIsFunctionBody, loaded, accidents, undefined, meant>>

-------------------------------------------------------------------------------
(* One pair of lists.  lazy is NULL until there is a lazy list.  When the  *)
(* lists are lost, mLazyVarCount still counts a full lazy list, but        *)
(* mLazyVar points to other memory, where nothing is set, or is NULL.      *)

EmptyLists == [main |-> <<>>, lazy |-> NULL, max |-> 0, lost |-> FALSE]

Ranges(list) == (0 .. Len(list)) \X (-1 .. Len(list) - 1)

\* The binary search of FindVar over a sorted list (from 0, as in the code):
\* whether the name is there and, if not, where it would have to go.
Search(list, name) ==
  LET S[range \in Ranges(list)] ==
        LET left == range[1]  right == range[2]  mid == (left + right) \div 2
        IN IF left > right              THEN [found |-> FALSE, pos |-> left]
           ELSE IF name > list[mid + 1] THEN S[<<mid + 1, right>>]
           ELSE IF name < list[mid + 1] THEN S[<<left, mid - 1>>]
           ELSE [found |-> TRUE, pos |-> mid]
  IN S[<<0, Len(list) - 1>>]

LookupLastList(l, name) ==   \* mutant: once there is a lazy list, only that is searched
  Search(IF l.lazy = NULL THEN l.main ELSE l.lazy, name)

\* The main list first, then the lazy one; a position is one in the lazy list
\* if there is one.
Lookup(l, name) ==
  LET m == Search(l.main, name)
  IN IF m.found \/ l.lazy = NULL THEN m ELSE Search(l.lazy, name)

\* The search of the merge, which relies on not finding the name.
InsertionPoint(list, name) ==
  LET S[range \in Ranges(list)] ==
        LET left == range[1]  right == range[2]  mid == (left + right) \div 2
        IN IF left > right              THEN left
           ELSE IF name > list[mid + 1] THEN S[<<mid + 1, right>>]
           ELSE S[<<left, mid - 1>>]
  IN S[<<0, Len(list) - 1>>]

MergedOver(main, lazy) ==   \* mutant: what is behind the gap is not moved
  LET Place(name, m) ==
        LET pos == InsertionPoint(m.front, name)
        IN [front |-> SubSeq(m.front, 1, pos), back |-> <<name>> \o m.back]
      done == FoldRight(Place, lazy, [front |-> main, back |-> <<>>])
  IN done.front \o done.back

\* A name of the lazy list goes to its place in what is left of the main list in
\* front of the gap, and what it jumps over goes behind it.
Place(m, name) ==
  LET pos == InsertionPoint(m.front, name)
  IN [front |-> SubSeq(m.front, 1, pos),
      back  |-> <<name>> \o SubSeq(m.front, pos + 1, Len(m.front)) \o m.back]

\* What is greater than all of the main list is appended; each of the others,
\* from the last to the first, is put in its place.
Merged(main, lazy) ==
  LET behind   == SelectInSeq(lazy, LAMBDA name : name > main[Len(main)])
      appended == IF behind = 0 THEN <<>> ELSE SubSeq(lazy, behind, Len(lazy))
      rest     == IF behind = 0 THEN lazy ELSE SubSeq(lazy, 1, behind - 1)
      placed[n \in 0 .. Len(rest)] ==
        IF n = 0 THEN [front |-> main \o appended, back |-> <<>>]
        ELSE Place(placed[n - 1], rest[Len(rest) + 1 - n])
  IN placed[Len(rest)].front \o placed[Len(rest)].back

\* The next size of the main list, by orders of magnitude.
NextMax(scope, max) ==
  LET i == SelectInSeq(Sizes, LAMBDA size : max < size)
  IN IF max = 0 /\ scope # Global THEN FirstLocal
     ELSE IF i # 0 THEN Sizes[i] ELSE max + Sizes[4]

\* The part of AddVar that puts a new variable into the lists of its scope.
\* The lazy list is made when the main list gets its third size; if then the
\* main list cannot grow, it stays.  If memory is refused to a merge, the full
\* lazy list stays as it is or, where a lazy list is made, is lost.
Insert(l, scope, name, pos, oom) ==
  LET full    == l.lazy # NULL /\ Len(l.lazy) + 1 = MAX_LAZY_VARS
      grows   == (full /\ Len(l.main) + MAX_LAZY_VARS > l.max) \/ Len(l.main) = l.max
      starts  == l.max >= Sizes[2] /\ l.max < Sizes[3]
      refused == grows /\ (oom = "array" \/ (oom = "lazy" /\ starts))
      max     == IF grows THEN NextMax(scope, l.max) ELSE l.max
      added   == [l EXCEPT !.lazy = InsertAt(@, pos + 1, name)]
  IN IF l.lazy # NULL /\ ~full THEN [ok |-> TRUE, l |-> added]
     ELSE IF refused
       THEN [ok |-> FALSE,
             l |-> IF full /\ ~starts THEN added
                   ELSE [l EXCEPT !.lazy = IF starts /\ oom = "array" THEN <<>> ELSE NULL,
                                  !.lost = @ \/ full]]
     ELSE IF full
       THEN [ok |-> TRUE, l |-> [l EXCEPT !.main = Merged(l.main, added.lazy),
                                          !.lazy = <<>>, !.max = max]]
     ELSE [ok |-> TRUE, l |-> [l EXCEPT !.main = InsertAt(@, pos + 1, name),
                                        !.lazy = IF grows /\ starts THEN <<>> ELSE NULL,
                                        !.max  = max]]

-------------------------------------------------------------------------------
(* FindVar, AddVar and FindOrAddVar.  c is the context of a search: the     *)
(* function, its type and parameters, and the declared exceptions.          *)

Context == [func   |-> CurrentFunc,
            type   |-> IF CurrentFunc = NULL THEN "none" ELSE func[CurrentFunc].mDefaultVarType,
            params |-> IF CurrentFunc = NULL THEN {} ELSE func[CurrentFunc].mParam,
            exceptions |-> exceptions]

DeclaredParamsLeft(c, name, mode) ==   \* mutant: parameters are no exceptions
  LET exception == mode = "default" /\ c.exceptions # NULL /\ name \in ToSet(c.exceptions)
      local     == c.func # NULL /\
                     CASE mode = "global"                   -> FALSE
                       [] mode \in {"local", "prefer local"} -> TRUE
                       [] mode = "default" -> (c.type # "assume global") # exception
  IN [scope |-> IF local THEN c.func ELSE Global, known |-> exception]

\* The scope a name belongs to by the mode of the search, and at load time by
\* the declarations: FindVar up to its first search.
Declared(c, name, mode) ==
  LET byDefault == c.func # NULL /\ c.type # "assume global"
      exception == mode = "default" /\ c.exceptions # NULL /\ name \in ToSet(c.exceptions)
      local     == CASE mode = "global"       -> FALSE
                     [] mode = "local"        -> c.func # NULL
                     [] mode = "prefer local" -> c.func # NULL
                     [] mode = "default"      -> byDefault # exception
      param     == mode = "default" /\ c.exceptions # NULL /\ c.type = "assume global"
                     /\ ~local /\ name \in c.params
  IN [scope |-> IF local \/ param THEN c.func ELSE Global, known |-> exception \/ param]

Has(ls, scope, name) == Lookup(ls[scope], name).found

\* Whether a search goes on among the globals if its scope has no such name.
FallsBack(scope, mode) ==
  /\ scope # Global
  /\ mode = "prefer local" \/ (mode = "default" /\ mIsReadyToExecute)

\* What FindVar finds: scope is NULL if nothing; otherwise into and pos are
\* where AddVar shall put the variable.
FindVar(ls, c, name, mode) ==
  LET d    == Declared(c, name, mode)
      here == Lookup(ls[d.scope], name)
      out  == Lookup(ls[Global], name)
      falls == FallsBack(d.scope, mode)
      Miss(scope, pos) == [scope |-> NULL, into |-> scope, pos |-> pos, exception |-> FALSE]
      Found(scope)     == [scope |-> scope, into |-> scope, pos |-> -1, exception |-> d.known]
  IN IF d.known \/ here.found THEN Found(d.scope)
     ELSE IF falls /\ out.found THEN Found(Global)
     ELSE IF falls /\ mode = "prefer local" /\ c.type = "assume global"
       THEN Miss(Global, out.pos)
     ELSE Miss(d.scope, here.pos)

\* The scope gets the list that Insert leaves.
WithList(ls, h, scope, new) ==
  [lists |-> [ls EXCEPT ![scope] = new.l], heap |-> h,
   scope |-> IF new.ok THEN scope ELSE NULL]

\* AddVar, for a name that is not to be redirected: the name's chunk, the
\* variable's, then the list.  Memory for a chunk may be refused where a new
\* block is needed.
AddTo(ls, h, scope, name, pos, oom) ==
  LET text == Malloc(h, NAME_SIZE, oom = "name")
      var  == Malloc(text.heap, VAR_SIZE, FALSE)
  IN IF text.ptr = NULL
     THEN [lists |-> ls, heap |-> h, scope |-> NULL]
     ELSE WithList(ls, var.heap, scope, Insert(ls[scope], scope, name, pos, oom))

\* A built-in variable is never a function's: it is found or made among the
\* globals, and cannot be a parameter.
AddVar(ls, h, c, scope, name, pos, isParam, oom) ==
  IF scope # Global /\ name \in BuiltIn
  THEN LET g == FindVar(ls, c, name, "global")
       IN IF isParam THEN [lists |-> ls, heap |-> h, scope |-> NULL]
          ELSE IF g.scope # NULL THEN [lists |-> ls, heap |-> h, scope |-> Global]
          ELSE AddTo(ls, h, Global, name, g.pos, oom)
  ELSE AddTo(ls, h, scope, name, pos, oom)

FindOrAddVar(c, name, mode, oom) ==
  LET f == FindVar(lists, c, name, mode)
  IN IF f.scope # NULL THEN [lists |-> lists, heap |-> heap, scope |-> f.scope]
     ELSE AddVar(lists, heap, c, f.into, name, f.pos, FALSE, oom)

\* FindOrAddVar, which leaves the lists as after, has searched lists that are
\* lost, where the main one does not have the name, or has put the variable
\* behind the end of a lazy list: what the program does then is undefined.
Corrupts(c, name, mode, after) ==
  LET d == Declared(c, name, mode).scope
      searched == {d} \union
                  {s \in {Global} : ~Has(lists, d, name) /\ (FallsBack(d, mode) \/ name \in BuiltIn)}
  IN \/ \E s \in searched : /\ lists[s].lost /\ lists[s].lazy # NULL
                            /\ ~Search(lists[s].main, name).found
     \/ \E s \in Scopes : after[s].lazy # NULL /\ Len(after[s].lazy) > MAX_LAZY_VARS

-------------------------------------------------------------------------------
(* Loading a script.  An error ends the program, so the actions up to       *)
(* FinishLoading are the lines without one.                                *)

Loading == ~mIsReadyToExecute
Running == mIsReadyToExecute

Accident == accidents < MaxAccidents /\ accidents' = accidents + 1

Takes(a) == lists' = a.lists /\ heap' = a.heap

\* The lines of the function body that are not declarations end its head.
LineAdded ==
  /\ mNextLineIsFunctionBody' = FALSE
  /\ func' = IF mNextLineIsFunctionBody /\ func[CurrentFunc].mDefaultVarType = "none"
             THEN [func EXCEPT ![CurrentFunc].mDefaultVarType = "assume local"]
             ELSE func

\* What the watched name has come to mean by one more use.
Use(name, scope) ==
  meant' = IF <<CurrentFunc, name>> # Watched \/ meant = "-" THEN meant
           ELSE IF meant \in {NULL, scope} THEN scope ELSE "-"

\* AddLine for a line that names a variable: its arguments, the operands of its
\* expression, or element 0 of StringSplit's array.
AddLine(name) ==
  LET a == FindOrAddVar(Context, name, "default", "enough")
  IN /\ Loading
     /\ Takes(a) /\ LineAdded /\ Use(name, a.scope)
     /\ UNCHANGED <<mIsReadyToExecute, CurrentFunc, exceptions, loaded, accidents, undefined>>

\* One parameter, which must be new among the function's variables; s.scope is
\* NULL once one is not.
AddParam(s, c, p) ==
  LET found == FindVar(s.lists, c, p, "default")
  IN IF s.scope = NULL \/ found.scope # NULL THEN [s EXCEPT !.scope = NULL]
     ELSE AddVar(s.lists, s.heap, c, found.into, p, found.pos, TRUE, "enough")

\* The function has got its parameters: all is what they leave.
Defined(f, params, all) ==
  /\ all.scope # NULL
  /\ lists' = all.lists
  /\ heap' = IF params = <<>> THEN all.heap
             ELSE Malloc(all.heap, PARAM_SIZE * Len(params), FALSE).heap
  /\ CurrentFunc' = f /\ exceptions' = <<>> /\ mNextLineIsFunctionBody' = TRUE
  /\ func' = [func EXCEPT ![f].mParam = ToSet(params)]

\* DefineFunc and the opening brace after it: the function, its parameters and
\* their array.
DefineFunc(f, params) ==
  LET name   == Malloc(heap, NAME_SIZE, FALSE)
      c      == [func |-> f, type |-> "none", params |-> {}, exceptions |-> exceptions]
      after[n \in 0 .. Len(params)] ==
        IF n = 0 THEN [lists |-> lists, heap |-> Malloc(name.heap, FUNC_SIZE, FALSE).heap,
                       scope |-> f]
        ELSE AddParam(after[n - 1], c, params[n])
  IN /\ Loading /\ CurrentFunc = NULL /\ f \notin loaded
     /\ Defined(f, params, after[Len(params)])
     /\ loaded' = loaded \union {f}
     /\ UNCHANGED <<mIsReadyToExecute, accidents, undefined, meant>>

\* "Global" alone at the top of a body.
DeclareAssumeGlobal ==
  /\ Loading /\ CurrentFunc # NULL /\ mNextLineIsFunctionBody
  /\ func[CurrentFunc].mDefaultVarType = "none"
  /\ func' = [func EXCEPT ![CurrentFunc].mDefaultVarType = "assume global"]
  /\ UNCHANGED <<lists, heap, mIsReadyToExecute, CurrentFunc, exceptions,
                 mNextLineIsFunctionBody, loaded, accidents, undefined, meant>>

\* Local, Global or Static and one variable without an initializer.  The first
\* declaration of a body sets its mode, and what the mode says anyway must not
\* be declared.  A Static in an assume-local function is no exception.
Declare(keyword, name) ==
  LET first == mNextLineIsFunctionBody /\ func[CurrentFunc].mDefaultVarType = "none"
      type  == IF ~first THEN func[CurrentFunc].mDefaultVarType
               ELSE IF keyword = "local" THEN "assume global" ELSE "assume local"
      needless == ~first /\ \/ type = "assume global" /\ keyword = "global"
                            \/ type = "assume local" /\ keyword = "local"
      is_exception == keyword # "static" \/ type = "assume global"
      mode == IF ~is_exception THEN "default"
              ELSE IF type = "assume global" THEN "local" ELSE "global"
      c    == [Context EXCEPT !.type = type]
      before == FindVar(lists, c, name, mode)
      a    == FindOrAddVar(c, name, mode, "enough")
      wrong == \/ needless \/ before.exception
               \/ name \in BuiltIn \union c.params
               \/ is_exception /\ Len(exceptions) >= MAX_FUNC_VAR_EXCEPTIONS
  IN /\ Loading /\ CurrentFunc # NULL /\ ~wrong
     /\ Takes(a) /\ Use(name, a.scope)
     /\ func' = [func EXCEPT ![CurrentFunc].mDefaultVarType = type]
     /\ exceptions' = IF is_exception THEN Append(exceptions, name) ELSE exceptions
     /\ UNCHANGED <<mIsReadyToExecute, CurrentFunc, mNextLineIsFunctionBody, loaded, accidents, undefined>>

\* The closing brace of the body, which is a line as any other.
EndFunc ==
  /\ Loading /\ CurrentFunc # NULL
  /\ LineAdded
  /\ CurrentFunc' = NULL /\ exceptions' = NULL
  /\ UNCHANGED <<lists, heap, mIsReadyToExecute, loaded, accidents, undefined, meant>>

FinishLoading ==
  /\ Loading /\ CurrentFunc = NULL
  /\ mIsReadyToExecute' = TRUE
  /\ UNCHANGED <<lists, heap, context, loaded, accidents, undefined, meant>>

-------------------------------------------------------------------------------
(* Running it.                                                             *)

\* A function is called, or a thread starts or ends that is in none.  A return,
\* and a call of a function that runs already, go through the variables of the
\* function up to the counts of its lists.
Switch(f) ==
  /\ Running /\ f # CurrentFunc /\ f \in loaded \union {NULL}
  /\ CurrentFunc' = f
  /\ undefined' \in IF \E s \in {CurrentFunc, f} \ {NULL} : lists[s].lost
                    THEN BOOLEAN ELSE {undefined}
  /\ UNCHANGED <<lists, heap, mIsReadyToExecute, func, exceptions,
                 mNextLineIsFunctionBody, loaded, accidents, meant>>

\* With or without an allocation that fails, which is an error of the thread; a
\* is what FindOrAddVar leaves.
Ends(a, name, mode, oom) ==
  /\ IF oom = "enough" THEN UNCHANGED accidents ELSE Accident /\ a.scope = NULL
  /\ IF Corrupts(Context, name, mode, a.lists)
     THEN undefined' = TRUE /\ UNCHANGED <<lists, heap>>
     ELSE Takes(a) /\ UNCHANGED undefined

FindsOrAdds(name, mode, oom) ==
  /\ Ends(FindOrAddVar(Context, name, mode, oom), name, mode, oom)
  /\ UNCHANGED <<mIsReadyToExecute, context, loaded>>

\* A command's dynamic variable, found or made.  (One that is only read is not
\* made, unless it is a built-in one.)
ResolveVarOfArg(name, oom) ==
  /\ Running
  /\ FindsOrAdds(name, "prefer local", oom)
  /\ UNCHANGED meant

\* An element of an array (StringSplit and others) goes where the variable is
\* that stands for the array, also if the script means another by its name.
AddElement(base, name, oom) ==
  LET mode == IF base = Global THEN "global" ELSE "local"
  IN /\ Running /\ lists[base].main # <<>>
     /\ FindsOrAdds(name, mode, oom)
     /\ meant' = IF /\ <<CurrentFunc, name>> = Watched
                    /\ mode = "local" /\ meant = Global THEN "-" ELSE meant

\* The host's ahkassign and ahkgetvar, which search like a line of the script,
\* in whatever function runs.
ahkassign(name, oom) ==
  /\ Running
  /\ FindsOrAdds(name, "default", oom)
  /\ UNCHANGED meant

\* The Hotkey command deletes a hotkey whose construction fails: early, for a key
\* it cannot parse, or at its end, for want of memory, when there is already a
\* chunk for its name.
FailedHotkey(oom) ==
  LET new     == Malloc(heap, HOTKEY_SIZE, FALSE)
      named   == Malloc(new.heap, NAME_SIZE, FALSE)
      variant == Malloc(named.heap, VARIANT_SIZE, TRUE)
  IN /\ Running /\ Accident
     /\ IF oom = "enough" THEN heap' = Delete(new.heap, new.ptr)
        ELSE variant.ptr = NULL /\ heap' = Delete(named.heap, new.ptr)
     /\ UNCHANGED <<lists, mIsReadyToExecute, context, loaded, undefined, meant>>

-------------------------------------------------------------------------------
ParamLists == UNION {[1 .. n -> ParamNames] : n \in 0 .. MaxParams}

Init ==
  /\ lists = [s \in Scopes |-> EmptyLists] /\ heap = EmptyHeap
  /\ mIsReadyToExecute = FALSE
  /\ func = [f \in Funcs |-> [mDefaultVarType |-> "none", mParam |-> {}]]
  /\ CurrentFunc = NULL /\ exceptions = NULL /\ mNextLineIsFunctionBody = FALSE
  /\ loaded = {} /\ accidents = 0 /\ undefined = FALSE
  /\ meant = NULL

\* Nothing is said of the program once it has used memory that is not set.
Next ==
  /\ ~undefined
  /\ \/ \E name \in Names : AddLine(name)
     \/ \E name \in Names, keyword \in {"local", "global", "static"} : Declare(keyword, name)
     \/ \E name \in Names, oom \in Memory :
          \/ ResolveVarOfArg(name, oom)
          \/ \E base \in Scopes : AddElement(base, name, oom)
          \/ ahkassign(name, oom)
     \/ \E f \in Funcs, params \in ParamLists : DefineFunc(f, params)
     \/ DeclareAssumeGlobal \/ EndFunc \/ FinishLoading
     \/ \E f \in Funcs \union {NULL} : Switch(f)
     \/ \E oom \in Memory \intersect {"enough", "name"} : FailedHotkey(oom)

Spec == Init /\ [][Next]_vars

-------------------------------------------------------------------------------
(* Properties *)

Ascending(s) == \A i, j \in 1 .. Len(s) : i < j => s[i] < s[j]

RoomForOneMore(l) == l.lazy # NULL => Len(l.lazy) < MAX_LAZY_VARS

\* Types, and what the searches rely on: each list is in ascending order, no
\* name is in both, and the lists fit into their memory.  The lazy list has room
\* for one more, as script.cpp:7625 says it always has, and the program touches
\* no memory it should not, until an allocation has failed in a merge.
TypeOK ==
  /\ \A s \in Scopes :
       LET l == lists[s] IN
       /\ l.main \in Seq(Names) /\ Ascending(l.main) /\ l.max \in Nat /\ Len(l.main) <= l.max
       /\ l.lazy # NULL =>
            /\ l.lazy \in Seq(Names) /\ Ascending(l.lazy) /\ Len(l.lazy) <= MAX_LAZY_VARS
            /\ ToSet(l.lazy) \intersect ToSet(l.main) = {}
       /\ l.lost \in BOOLEAN
  /\ (\E s \in Scopes : ~RoomForOneMore(lists[s]) \/ lists[s].lost) => accidents > 0
  /\ undefined \in BOOLEAN
  /\ undefined => \E s \in Scopes : ~RoomForOneMore(lists[s]) \/ lists[s].lost
  /\ HeapOK(heap)
  /\ func \in [Funcs -> [mDefaultVarType : {"none", "assume local", "assume global"},
                         mParam : SUBSET Names]]
  /\ CurrentFunc \in Funcs \union {NULL} /\ loaded \subseteq Funcs
  /\ exceptions \in {NULL} \union Seq(Names)
  /\ exceptions # NULL => CurrentFunc # NULL /\ ~mIsReadyToExecute
  /\ {mIsReadyToExecute, mNextLineIsFunctionBody} \subseteq BOOLEAN
  /\ accidents \in 0 .. MaxAccidents
  /\ meant \in Scopes \union {NULL, "-"}

\* Chunks in use are apart, whatever was given back between two allocations.
HeapSound == ChunksApart(heap)

\* A variable, once made, is found for good: no insertion, growth or merge of
\* the lists loses one, also if memory is refused - but for those of a full lazy
\* list that is to be merged while the main list is still short of its third
\* size: if memory is refused then, the list is overwritten (script.cpp:7677).
NoneLost ==
  [][\A s \in Scopes : lists'[s] # lists[s] =>
        \A name \in Names : Has(lists, s, name) =>
          \/ Has(lists', s, name)
          \/ /\ accidents' # accidents /\ lists[s].max < Sizes[3]
             /\ lists[s].lazy # NULL /\ Len(lists[s].lazy) + 1 = MAX_LAZY_VARS
             /\ name \in ToSet(lists[s].lazy)]_vars

\* A name that a function uses in its lines means the same variable when the
\* function builds it dynamically, although declarations are forgotten by then
\* (script.cpp:7436-7446), unless the name meant two things in the body, an
\* array has put an element of that name elsewhere, or variables are lost.
StaticAndDynamicAgree ==
  (/\ Running /\ CurrentFunc = Watched[1] /\ meant \notin {NULL, "-"}
   /\ ~lists[Watched[1]].lost /\ ~lists[Global].lost) =>
    FindVar(lists, Context, Watched[2], "prefer local").scope = meant
===============================================================================

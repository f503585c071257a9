---------------------------- MODULE SymbolTable ----------------------------
(***************************************************************************)
(* The symbol table of the compiler in Compilers/ao: sbtable.c with the     *)
(* calls semantic.c makes on it.  A symbol (TOKEN) is in one doubly linked  *)
(* list of the hash table (next, prev) and in one singly linked chain of a  *)
(* scope (below).  addscope leaves n_token alone, so that the symbols of a  *)
(* new scope go on in the chain of an outer one until a delscope has moved  *)
(* n_token.  The walk over the syntax tree is the stack ctx: which handler  *)
(* of semantic.c has opened which scope, and what it still has to read.     *)
(* Types are left out; the types of a declaration are taken to be defined,  *)
(* since ensymbol reads through the NULL of an undefined one.  delscope's   *)
(* loop over the symbols it frees is one step for each of them.             *)
(***************************************************************************)
EXTENDS Integers, Sequences

CONSTANTS
  Names,      \* identifiers of the program
  Hidden,     \* stands for the number that names a structure without a tag
  Hash,       \* hash_pjw of a name, counted from 1
  MaxSyms, MaxScopes   \* bounds on the symbols entered and scopes opened

BuiltIns == <<"read", "write">>
AllNames == Names \cup {Hidden} \cup {BuiltIns[1], BuiltIns[2]}

ASSUME NamesAssumption ==
  /\ Hidden \notin Names
  /\ Hash \in [AllNames -> Nat \ {0}]
  /\ MaxSyms \in Nat \ {0, 1} /\ MaxScopes \in Nat \ {0}

VARIABLES
  tab,    \* the table: symbols, links, scopes, n_token
  token,  \* the variable of delscope's loop: the next symbol to free, or NULL
  ctx,    \* stack of handlers of semantic.c, one for each open scope
  apart   \* history: the symbols declared in a scope behind a nested one

vars == <<tab, token, ctx, apart>>

NULL == 0
Sym == 1 .. MaxSyms
Bucket(name) == -Hash[name]                    \* &token[hash_pjw(name)]
Buckets == {Bucket(x) : x \in AllNames}

\* tok: the symbols entered, in the order of s_num, with the scope they were
\* declared in; freed: those given to free(); scope: the open scopes, the
\* innermost last; opened: how many addscope has opened.
Empty ==
  [tok |-> <<>>, next |-> [p \in Sym \cup Buckets |-> NULL],
   prev |-> [t \in Sym |-> NULL], below |-> [t \in Sym |-> NULL],
   freed |-> {}, scope |-> <<>>, n_token |-> NULL, opened |-> 0]

Init == tab = Empty /\ token = NULL /\ ctx = <<>> /\ apart = {}

Last(s) == s[Len(s)]
Outer(s) == SubSeq(s, 1, Len(s) - 1)
Doing == Last(ctx)

\* The symbols met from p on along link: the least set that has p and leads
\* nowhere else.
Chain(link, p) ==
  LET closed == {T \in SUBSET Sym : /\ p # NULL => p \in T
                                    /\ \A t \in T : link[t] # NULL => link[t] \in T}
  IN  {t \in Sym : \A T \in closed : t \in T}

----------------------------------------------------------------------------
(* Looking up *)

\* specifier 0 finds the tags of structures, 1 everything else.
Matches(s, t, specifier, name) ==
  s.tok[t].name = name /\ (s.tok[t].kind = "struct" <=> specifier = 0)

\* looksymbol(1,...): whether the bucket of the name has a match.
LookAll(s, specifier, name) ==
  \E t \in Chain(s.next, s.next[Bucket(name)]) : Matches(s, t, specifier, name)

\* looksymbol(0,...): whether the chain of the innermost scope has a match.
LookScope(s, specifier, name) ==
  \E t \in Chain(s.below, Last(s.scope).token) : Matches(s, t, specifier, name)

----------------------------------------------------------------------------
(* Opening and closing a scope, entering a symbol *)

\* mutant: the new scope begins a chain of its own
addscopeResets(s) ==
  [s EXCEPT !.scope = Append(@, [token |-> NULL, num |-> s.opened + 1]),
            !.opened = @ + 1, !.n_token = NULL]

\* n_token keeps pointing into the chain of an outer scope.
addscope(s) ==
  [s EXCEPT !.scope = Append(@, [token |-> NULL, num |-> s.opened + 1]),
            !.opened = @ + 1]

\* mutant: n_token is left where it was
OuterEndKept(s) == s.n_token

\* Where n_token stands after delscope: the end of the next scope's chain.
OuterEnd(s) ==
  LET rest == Outer(s.scope)
  IN  IF rest = <<>> \/ Last(rest).token = NULL THEN NULL
      ELSE CHOOSE t \in Chain(s.below, Last(rest).token) : s.below[t] = NULL

\* mutant: the symbol behind a freed one keeps its prev
UnlinkOneWay(s, t) ==
  [s EXCEPT !.next = [@ EXCEPT ![s.prev[t]] = s.next[t], ![t] = NULL],
            !.prev = [@ EXCEPT ![t] = NULL],
            !.below = [@ EXCEPT ![t] = NULL],
            !.freed = @ \cup {t}]

\* One round of delscope's second loop.  The links of the freed symbol are
\* cleared, which no symbol still reachable shows.
Unlink(s, t) ==
  [s EXCEPT !.next = [@ EXCEPT ![s.prev[t]] = s.next[t], ![t] = NULL],
            !.prev = [u \in Sym |-> IF u = t THEN NULL
                                    ELSE IF u = s.next[t] THEN s.prev[t] ELSE @[u]],
            !.below = [@ EXCEPT ![t] = NULL],
            !.freed = @ \cup {t}]

\* mutant: the scope is popped before its chain is looked up
DoomedOfOuter(s) ==
  IF Len(s.scope) = 1 THEN NULL ELSE s.scope[Len(s.scope) - 1].token

\* The first symbol delscope frees.
Doomed(s) == Last(s.scope).token

\* A new symbol becomes the first of its bucket and goes behind n_token, or
\* begins the chain of the innermost scope.
ensymbol(s, name, kind) ==
  LET t == Len(s.tok) + 1
      b == Bucket(name)
  IN  [s EXCEPT
        !.tok = Append(@, [name |-> name, kind |-> kind, num |-> Last(s.scope).num]),
        !.next = [@ EXCEPT ![t] = s.next[b], ![b] = t],
        !.prev = [u \in Sym |-> IF u = t THEN b ELSE IF u = s.next[b] THEN t ELSE @[u]],
        !.below = IF s.n_token # NULL THEN [@ EXCEPT ![s.n_token] = t] ELSE @,
        !.scope = IF s.n_token # NULL THEN @ ELSE [@ EXCEPT ![Len(@)].token = t],
        !.n_token = t]

\* pro_iden, pro_vari: a name in the chain of the innermost scope is refused.
pro_vari(s, name) ==
  IF LookScope(s, 1, name) THEN s ELSE ensymbol(s, name, "var")

\* mutant: looks into the innermost scope only
pro_funcHere(s, name) ==
  IF LookScope(s, 1, name) THEN s ELSE ensymbol(s, name, "func")

\* pro_func: a name found anywhere in the table is refused.
pro_func(s, name) ==
  IF LookAll(s, 1, name) THEN s ELSE ensymbol(s, name, "func")

\* pro_stru with specifier 0; no hidden name is used twice.
pro_stru(s, name) ==
  IF name # Hidden /\ LookScope(s, 0, name) THEN s ELSE ensymbol(s, name, "struct")

----------------------------------------------------------------------------
(* The calls of semantic.c.  A frame of ctx says what a handler is doing,    *)
(* what must still come (want: "field", at least one declaration; "decl",    *)
(* the declarator behind a structure just read; "free", the loop of delscope *)
(* and what follows it), the tag, and whether a nested scope has been closed *)
(* in its scope (split).                                                     *)

Frame(kind, want, name) ==
  [kind |-> kind, want |-> want, name |-> name, split |-> FALSE]
Doings == {"global", "type", "header", "body", "block", "struct"}

Reading == ctx # <<>> /\ Doing.want # "free"
Room == Len(tab.tok) < MaxSyms
Replace(frame) == ctx' = [ctx EXCEPT ![Len(ctx)] = frame]
Push(kind, want, name) ==
  /\ tab.opened < MaxScopes
  /\ tab' = addscope(tab)
  /\ ctx' = Append(ctx, Frame(kind, want, name))
  /\ UNCHANGED <<token, apart>>

\* The table becomes s; a symbol entered with split is apart.
Becomes(s, split) ==
  /\ tab' = s
  /\ apart' = apart \cup {t \in DOMAIN s.tok \ DOMAIN tab.tok : split}
  /\ UNCHANGED token

\* semantic: the global scope and the built-in functions
semantic ==
  /\ ctx = <<>> /\ tab.opened = 0
  /\ tab' = pro_func(pro_func(addscope(tab), BuiltIns[1]), BuiltIns[2])
  /\ ctx' = <<Frame("global", "none", Hidden)>>
  /\ UNCHANGED <<token, apart>>

\* A declarator: a global variable, a parameter, a local variable, a field.
deal_vardec(name) ==
  /\ Reading /\ Room
  /\ Becomes(pro_vari(tab, name), Doing.split)
  /\ Replace([Doing EXCEPT !.want = "none",
                           !.kind = IF @ = "type" THEN "header" ELSE @])

\* deal_structspecifier up to its fields; a tag in the table is refused.
StructBegin(name) ==
  /\ Reading /\ Doing.want # "decl"
  /\ name = Hidden \/ ~LookAll(tab, 0, name)
  /\ Push("struct", "field", name)

\* What goes on behind a structure: a declarator, except at the global level
\* and behind the type of a function.
AfterStruct(f) ==
  [f EXCEPT !.want = IF f.kind \in {"global", "type"} THEN "none" ELSE "decl",
            !.kind = IF @ = "type" THEN "header" ELSE @,
            !.split = TRUE]

\* deal_extdef with a function: its scope is opened before its type is read.
FunctionBegin ==
  /\ ctx # <<>> /\ Doing.kind = "global" /\ Doing.want = "none"
  /\ Push("type", "none", Hidden)

\* deal_fundec, after the parameters; the body is read even if the name is
\* refused.
FunctionName(name) ==
  /\ ctx # <<>> /\ Doing.kind \in {"type", "header"} /\ Doing.want = "none" /\ Room
  /\ Becomes(pro_func(tab, name), Doing.split)
  /\ Replace([Doing EXCEPT !.kind = "body"])

\* deal_stmt with if, else or while
BlockBegin ==
  /\ ctx # <<>> /\ Doing.kind \in {"body", "block"} /\ Doing.want = "none"
  /\ Push("block", "none", Hidden)

\* mutant: the scope stays on the stack
delscopeKeeps ==
  /\ ctx # <<>> /\ Doing.kind \in {"struct", "block", "body", "global"} /\ Doing.want = "none"
  /\ tab' = [tab EXCEPT !.n_token = OuterEnd(tab)]
  /\ token' = Doomed(tab)
  /\ Replace([Doing EXCEPT !.want = "free"])
  /\ UNCHANGED apart

\* The end of a structure, a block, a function or the program: delscope up to
\* its second loop.
delscope ==
  /\ ctx # <<>> /\ Doing.kind \in {"struct", "block", "body", "global"} /\ Doing.want = "none"
  /\ tab' = [tab EXCEPT !.scope = Outer(@), !.n_token = OuterEnd(tab)]
  /\ token' = Doomed(tab)
  /\ Replace([Doing EXCEPT !.want = "free"])
  /\ UNCHANGED apart

\* One round of the loop.
FreeToken ==
  /\ token # NULL
  /\ tab' = Unlink(tab, token)
  /\ token' = tab.below[token]
  /\ UNCHANGED <<ctx, apart>>

LoopDone == ctx # <<>> /\ Doing.want = "free" /\ token = NULL

\* deal_structspecifier behind delscope: pro_stru
StructEnd ==
  /\ LoopDone /\ Doing.kind = "struct" /\ Room
  /\ Becomes(pro_stru(tab, Doing.name), TRUE)
  /\ ctx' = [Outer(ctx) EXCEPT ![Len(ctx) - 1] = AfterStruct(@)]

\* What called delscope for another scope goes on in the outer one.
ScopeEnd ==
  /\ LoopDone /\ Doing.kind # "struct"
  /\ ctx' = [k \in 1 .. Len(ctx) - 1 |->
                IF k = Len(ctx) - 1 THEN [ctx[k] EXCEPT !.split = TRUE] ELSE ctx[k]]
  /\ UNCHANGED <<tab, token, apart>>

Next ==
  \/ semantic \/ FunctionBegin \/ BlockBegin
  \/ delscope \/ FreeToken \/ StructEnd \/ ScopeEnd
  \/ \E name \in Names : deal_vardec(name) \/ FunctionName(name)
  \/ \E name \in Names \cup {Hidden} : StructBegin(name)

Spec == Init /\ [][Next]_vars

----------------------------------------------------------------------------
(* Properties *)

Live == DOMAIN tab.tok \ tab.freed
ToFree == Chain(tab.below, token)     \* what delscope's loop is about to free
IsOpen(num) == \E k \in DOMAIN tab.scope : tab.scope[k].num = num

\* Types; one handler for each open scope, and the one that is closing its own;
\* no other than the innermost is.
TypeOK ==
  /\ tab.tok \in Seq([name : AllNames, kind : {"var", "func", "struct"}, num : 1 .. MaxScopes])
  /\ Len(tab.tok) <= MaxSyms
  /\ tab.next \in [Sym \cup Buckets -> Sym \cup {NULL}]
  /\ tab.prev \in [Sym -> Sym \cup Buckets \cup {NULL}]
  /\ tab.below \in [Sym -> Sym \cup {NULL}]
  /\ tab.freed \subseteq DOMAIN tab.tok
  /\ tab.scope \in Seq([token : Sym \cup {NULL}, num : 1 .. MaxScopes])
  /\ tab.n_token \in Sym \cup {NULL} /\ token \in Sym \cup {NULL}
  /\ tab.opened \in 0 .. MaxScopes
  /\ Len(ctx) = Len(tab.scope) + IF ctx = <<>> \/ Reading THEN 0 ELSE 1
  /\ \A k \in DOMAIN ctx : /\ ctx[k].kind \in Doings /\ (k = 1 <=> ctx[k].kind = "global")
                           /\ ctx[k].want = "free" => k = Len(ctx)

\* Nothing reachable has been freed and nothing live is lost: the buckets hold
\* exactly the live symbols with their hash, prev undoes next, the chains of
\* the open scopes and what delscope has still to free hold every live symbol
\* exactly once, and n_token ends one of the scopes' chains.  Behind the end of
\* the program the table is empty.
TableSound ==
  /\ \A x \in AllNames :
       Chain(tab.next, tab.next[Bucket(x)]) = {t \in Live : Bucket(tab.tok[t].name) = Bucket(x)}
  /\ \A p \in Live \cup Buckets : tab.next[p] # NULL => tab.prev[tab.next[p]] = p
  /\ UNION {Chain(tab.below, tab.scope[k].token) : k \in DOMAIN tab.scope} = Live \ ToFree
  /\ ToFree \subseteq Live
  /\ \A j, k \in DOMAIN tab.scope :
       j # k => Chain(tab.below, tab.scope[j].token) \cap Chain(tab.below, tab.scope[k].token) = {}
  /\ tab.n_token # NULL => tab.n_token \in Live \ ToFree /\ tab.below[tab.n_token] = NULL

\* No symbol is freed while the scope it was declared in is open, although
\* delscope frees whole chains and a chain holds symbols of several scopes.
NoEarlyFree == \A t \in tab.freed : ~IsOpen(tab.tok[t].num)

\* A symbol declared behind a nested scope goes with its own scope: it does
\* not stay in the chain of an outer one.  (The symbols declared before any
\* nested scope has been closed do.)
SplitScopesEnd == \A t \in (apart \cap Live) \ ToFree : IsOpen(tab.tok[t].num)

\* A function stays in the table to the end of the program, unless a
\* structure was defined between its type and its name.
FunctionsStay ==
  IsOpen(1) => \A t \in DOMAIN tab.tok :
                 tab.tok[t].kind = "func" /\ t \notin apart => t \in Live

\* The names of the functions and global variables in the table are distinct.
IsGlobal(t) == tab.tok[t].kind = "func" \/ (tab.tok[t].kind = "var" /\ tab.tok[t].num = 1)
GlobalsUnique ==
  \A t, u \in Live : IsGlobal(t) /\ IsGlobal(u) /\ tab.tok[t].name = tab.tok[u].name => t = u
=============================================================================

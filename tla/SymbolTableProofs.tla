------------------------- MODULE SymbolTableProofs -------------------------
(***************************************************************************)
(* Proofs about SymbolTable, for any names, hash function and bounds.  The  *)
(* chains of the scopes are described by a function own that says for each  *)
(* live symbol the scope whose chain has it, and 0 for what delscope is     *)
(* about to free.  Links along a chain go to younger symbols, links in a    *)
(* bucket to older ones, so that everything the invariant says is about one *)
(* symbol and its neighbours.                                               *)
(***************************************************************************)
EXTENDS SymbolTable, WellFoundedInduction, TLAPS

TokRec   == [name : AllNames, kind : {"var", "func", "struct"}, num : 1 .. MaxScopes]
ScopeRec == [token : Sym \cup {NULL}, num : 1 .. MaxScopes]
Tables ==
  [tok : Seq(TokRec), next : [Sym \cup Buckets -> Sym \cup {NULL}],
   prev : [Sym -> Sym \cup Buckets \cup {NULL}], below : [Sym -> Sym \cup {NULL}],
   freed : SUBSET Sym, scope : Seq(ScopeRec), n_token : Sym \cup {NULL},
   opened : 0 .. MaxScopes]

LiveIn(s) == DOMAIN s.tok \ s.freed

(* C is a list from p along link in which every link goes to a younger one. *)
Linked(link, p, C) ==
  /\ C \subseteq Sym
  /\ p = NULL <=> C = {}
  /\ p # NULL => p \in C /\ \A t \in C : p <= t
  /\ \A t \in C : link[t] # NULL => link[t] \in C /\ t < link[t]
  /\ \A t, u \in C : t < u => link[t] # NULL /\ link[t] <= u

(* Where the chain of scope k begins; 0 stands for the one being freed. *)
Start(s, d, k) == IF k = 0 THEN d ELSE s.scope[k].token
Members(own, k) == {t \in DOMAIN own : own[t] = k}

(* The table has its type and no symbol is used before it is made. *)
SizeInv(s) ==
  /\ s \in Tables
  /\ Len(s.tok) <= MaxSyms /\ s.freed \subseteq DOMAIN s.tok
  /\ \A t \in Sym : t > Len(s.tok) => s.below[t] = NULL

(* In a bucket prev undoes next and leads to a younger symbol of the bucket *)
(* or to its head.                                                          *)
HashInv(s) ==
  /\ \A t \in LiveIn(s) :
       /\ s.prev[t] \in LiveIn(s) \cup Buckets /\ s.next[s.prev[t]] = t
       /\ s.prev[t] \in LiveIn(s) => /\ t < s.prev[t]
                                     /\ Bucket(s.tok[s.prev[t]].name) = Bucket(s.tok[t].name)
       /\ s.prev[t] \in Buckets => s.prev[t] = Bucket(s.tok[t].name)
  /\ \A p \in LiveIn(s) \cup Buckets :
       s.next[p] # NULL => s.next[p] \in LiveIn(s) /\ s.prev[s.next[p]] = p

(* Every live symbol is in the chain own says, and n_token ends one. *)
ChainInv(s, d, own) ==
  /\ own \in [LiveIn(s) -> 0 .. Len(s.scope)]
  /\ \A k \in 0 .. Len(s.scope) : Linked(s.below, Start(s, d, k), Members(own, k))
  /\ s.n_token # NULL => /\ s.n_token \in LiveIn(s) /\ own[s.n_token] # 0
                         /\ s.below[s.n_token] = NULL
  /\ s.n_token = NULL /\ s.scope # <<>> => Last(s.scope).token = NULL
  /\ s.scope = <<>> => s.n_token = NULL

(* Scopes are numbered in the order they are opened; the chain of a scope   *)
(* has symbols of it and of scopes opened later; a symbol that is freed, or *)
(* about to be, is of a closed scope.                                       *)
NumInv(s, own) ==
  /\ \A j, k \in DOMAIN s.scope : j < k => s.scope[j].num < s.scope[k].num
  /\ \A k \in DOMAIN s.scope : s.scope[k].num <= s.opened
  /\ s.scope # <<>> => s.scope[1].num = 1
  /\ s.opened = 0 => s.tok = <<>>
  /\ \A t \in DOMAIN s.tok : s.tok[t].num <= s.opened
  /\ \A t \in LiveIn(s) : own[t] # 0 => s.scope[own[t]].num <= s.tok[t].num
  /\ \A k \in DOMAIN s.scope :
       /\ \A t \in s.freed : s.scope[k].num # s.tok[t].num
       /\ \A t \in LiveIn(s) : own[t] = 0 => s.scope[k].num # s.tok[t].num

(* Symbols that are apart are in the chain of their own scope, the other    *)
(* functions in the global one.                                             *)
ApartInv(s, own, A) ==
  /\ A \subseteq DOMAIN s.tok
  /\ \A t \in A \cap LiveIn(s) : own[t] # 0 => s.tok[t].num = s.scope[own[t]].num
  /\ s.scope # <<>> => \A t \in DOMAIN s.tok \ A :
       s.tok[t].kind = "func" => t \in LiveIn(s) /\ own[t] = 1

GlobalIn(s, t) == s.tok[t].kind = "func" \/ (s.tok[t].kind = "var" /\ s.tok[t].num = 1)
Unique(s) ==
  \A t, u \in LiveIn(s) :
    GlobalIn(s, t) /\ GlobalIn(s, u) /\ s.tok[t].name = s.tok[u].name => t = u

TableInv(s, d, own, A) ==
  /\ SizeInv(s) /\ HashInv(s) /\ ChainInv(s, d, own)
  /\ NumInv(s, own) /\ ApartInv(s, own, A) /\ Unique(s)

(* The frames of the walk. *)
Frames == [kind : Doings, want : {"none", "field", "decl", "free"},
           name : Names \cup {Hidden}, split : BOOLEAN]
FrameInv(s, d, c) ==
  /\ c \in Seq(Frames)
  /\ d # NULL => c # <<>> /\ Last(c).want = "free"
  /\ Len(c) = Len(s.scope) + IF c = <<>> \/ Last(c).want # "free" THEN 0 ELSE 1
  /\ \A k \in DOMAIN c : /\ k = 1 <=> c[k].kind = "global"
                         /\ c[k].kind \in {"type", "header"} => k = 2
                         /\ c[k].want = "free" => k = Len(c)

(* Behind a nested scope n_token is in the chain of the scope itself; where *)
(* there was none, not even further out, it is in the global one.           *)
TailInv(s, c, own) ==
  /\ s.scope # <<>> => s.scope[1].token # NULL
  /\ c # <<>> /\ (Last(c).want = "free" \/ Last(c).split) /\ s.n_token # NULL
       => own[s.n_token] = Len(s.scope)
  /\ c # <<>> /\ Last(c).want # "free" /\ (\A k \in 2 .. Len(c) : ~c[k].split)
       => s.n_token # NULL /\ own[s.n_token] = 1

(* Table s, walk at c, delscope's loop at d, symbols apart A. *)
StateInv(s, d, c, A, own) == TableInv(s, d, own, A) /\ FrameInv(s, d, c) /\ TailInv(s, c, own)
SymInv(own) == StateInv(tab, token, ctx, apart, own)
-----------------------------------------------------------------------------
(* Numbers and names *)

LEMMA Places ==
  /\ NULL \notin Sym /\ Sym \subseteq Int /\ NULL \notin Buckets /\ Buckets \subseteq Int
  /\ Sym \cap Buckets = {} /\ \A x \in AllNames : Bucket(x) \in Buckets
  /\ Names \cup {Hidden} \subseteq AllNames /\ BuiltIns[1] \in AllNames /\ BuiltIns[2] \in AllNames
<1>1. \A x \in AllNames : Hash[x] \in Nat \ {0}
  BY NamesAssumption DEF NamesAssumption
<1>2. \A x \in AllNames : Bucket(x) \in Int /\ Bucket(x) < 0
  BY <1>1 DEF Bucket
<1>3. \A b \in Buckets : b \in Int /\ b < 0
  BY <1>2 DEF Buckets
<1>4. \A x \in AllNames : Bucket(x) \in Buckets
  BY DEF Buckets
<1>5. \A t \in Sym : t \in Int /\ t > 0
  BY NamesAssumption DEF NamesAssumption, Sym
<1> QED BY <1>3, <1>4, <1>5 DEF NULL, AllNames

LEMMA Least ==
  ASSUME NEW T, T \subseteq Nat, T # {}
  PROVE  \E x \in T : \A y \in T : x <= y
<1> DEFINE R == OpToRel(<, Nat)
<1>1. IsWellFoundedOn(R, Nat)
  BY NatLessThanWellFounded
<1>2. \A a, b \in Nat : a < b => <<a, b>> \in R
  BY DEF OpToRel
<1> HIDE DEF R
<1>3. PICK x \in T : \A y \in T : <<y, x>> \notin R
  BY <1>1, WFMin
<1>4. ASSUME NEW y \in T PROVE x <= y
  <2>1. x \in Nat /\ y \in Nat
    OBVIOUS
  <2>2. ~ (y < x)
    BY <1>2, <1>3, <2>1
  <2> QED BY <2>1, <2>2
<1> QED BY <1>4

(* Symbols have an oldest and a youngest. *)
LEMMA Oldest ==
  ASSUME NEW T, T \subseteq Sym, T # {}
  PROVE  \E x \in T : \A y \in T : x <= y
<1>1. T \subseteq Nat
  BY NamesAssumption DEF NamesAssumption, Sym
<1> QED BY ONLY <1>1, T # {}, Least

LEMMA Youngest ==
  ASSUME NEW T, T \subseteq Sym, T # {}
  PROVE  \E x \in T : \A y \in T : y <= x
<1> DEFINE U == {MaxSyms - t : t \in T}
<1>1. MaxSyms \in Nat /\ \A t \in T : t \in Nat /\ t <= MaxSyms
  BY NamesAssumption DEF NamesAssumption, Sym
<1>2. U \subseteq Nat /\ U # {}
  BY <1>1
<1>3. PICK u \in U : \A v \in U : u <= v
  <2> HIDE DEF U
  <2> QED BY ONLY <1>2, Least
<1>4. PICK x \in T : u = MaxSyms - x
  OBVIOUS
<1>5. ASSUME NEW y \in T PROVE y <= x
  <2>1. u <= MaxSyms - y
    BY <1>3
  <2> QED BY <1>1, <1>4, <2>1
<1> QED BY <1>5
-----------------------------------------------------------------------------
(* Chains *)

(* What a loop along link meets is the list. *)
LEMMA ChainIs ==
  ASSUME NEW link, NEW p, NEW C, Linked(link, p, C)
  PROVE  Chain(link, p) = C
<1> DEFINE IsClosed(T) == /\ p # NULL => p \in T
                          /\ \A t \in T : link[t] # NULL => link[t] \in T
<1>1. Chain(link, p) = {t \in Sym : \A T \in SUBSET Sym : IsClosed(T) => t \in T}
  BY DEF Chain
<1>2. C \in SUBSET Sym /\ IsClosed(C)
  BY DEF Linked
<1>3. Chain(link, p) \subseteq C
  <2> HIDE DEF IsClosed
  <2> QED BY <1>1, <1>2
<1>4. ASSUME NEW T \in SUBSET Sym, IsClosed(T), NEW z \in C, z \notin T
      PROVE  FALSE
  <2>1. C \ T \subseteq Sym /\ C \ T # {}
    BY <1>2, <1>4
  <2>2. PICK y \in C \ T : \A x \in C \ T : y <= x
    BY <2>1, Oldest
  <2>3. C \subseteq Int
    BY <1>2, Places
  <2>4. p \in C /\ p \in T /\ p <= y
    BY <1>4, <2>2 DEF Linked
  <2> DEFINE X == {x \in C : x < y}
  <2>5. X \subseteq Sym /\ p \in X
    <3>1. p \in Int /\ y \in Int /\ p # y
      BY <2>2, <2>3, <2>4
    <3>2. p < y
      BY ONLY <2>4, <3>1
    <3> QED BY <1>2, <2>4, <3>2
  <2>6. PICK x \in X : \A w \in X : w <= x
    <3> HIDE DEF X
    <3> QED BY <2>5, Youngest
  <2>7. x \in T
    BY <2>2, <2>3, <2>6
  <2>8. /\ link[x] # NULL /\ link[x] \in C /\ x < link[x] /\ link[x] <= y
    BY <2>2, <2>6 DEF Linked
  <2>9. link[x] \in T
    BY <1>4, <2>7, <2>8
  <2> DEFINE n == link[x]
  <2>10. x \in Int /\ n \in Int /\ y \in Int /\ n # y
    BY <2>2, <2>3, <2>6, <2>8, <2>9
  <2>11. n \in C /\ x < n /\ n <= y
    BY <2>8
  <2> HIDE DEF n
  <2>12. n < y
    BY ONLY <2>10, <2>11
  <2>13. n <= x
    BY <2>6, <2>11, <2>12
  <2> QED BY ONLY <2>10, <2>11, <2>13
<1>5. C \subseteq Chain(link, p)
  <2> HIDE DEF IsClosed
  <2> QED BY <1>1, <1>2, <1>4
<1> QED BY <1>3, <1>5

(* What is met in a bucket are the live symbols with its hash. *)
LEMMA BucketIs ==
  ASSUME NEW s, SizeInv(s), HashInv(s), NEW b \in Buckets
  PROVE  Chain(s.next, s.next[b]) = {t \in LiveIn(s) : Bucket(s.tok[t].name) = b}
<1> DEFINE B == {t \in LiveIn(s) : Bucket(s.tok[t].name) = b}
           IsClosed(T) == /\ s.next[b] # NULL => s.next[b] \in T
                          /\ \A t \in T : s.next[t] # NULL => s.next[t] \in T
<1>1. Chain(s.next, s.next[b]) = {t \in Sym : \A T \in SUBSET Sym : IsClosed(T) => t \in T}
  BY DEF Chain
<1>2. LiveIn(s) \subseteq Sym
  BY NamesAssumption DEF NamesAssumption, SizeInv, Tables, LiveIn, Sym
<1>3. B \in SUBSET Sym
  BY <1>2
<1>4. IsClosed(B)
  <2>1. ASSUME s.next[b] # NULL PROVE s.next[b] \in B
    BY <2>1 DEF HashInv
  <2>2. ASSUME NEW t \in B, s.next[t] # NULL PROVE s.next[t] \in B
    BY <2>2 DEF HashInv
  <2> QED BY <2>1, <2>2
<1>5. Chain(s.next, s.next[b]) \subseteq B
  <2> HIDE DEF IsClosed, B
  <2> QED BY <1>1, <1>3, <1>4
<1>6. ASSUME NEW T \in SUBSET Sym, IsClosed(T), NEW z \in B, z \notin T
      PROVE  FALSE
  <2>1. B \ T \subseteq Sym /\ B \ T # {}
    BY <1>3, <1>6
  <2>2. PICK y \in B \ T : \A x \in B \ T : x <= y
    <3> HIDE DEF B
    <3> QED BY <2>1, Youngest
  <2>3. y \in Sym /\ y # NULL /\ B \subseteq Int
    BY <1>3, <2>2, Places
  <2>4. s.prev[y] \in LiveIn(s) \cup Buckets /\ s.next[s.prev[y]] = y
    BY <2>2 DEF HashInv
  <2>5. CASE s.prev[y] \in Buckets
    <3>1. s.prev[y] = b
      BY <2>2, <2>5 DEF HashInv
    <3> QED BY <1>6, <2>2, <2>3, <2>4, <3>1
  <2>6. CASE s.prev[y] \in LiveIn(s)
    <3>1. s.prev[y] \in B /\ y < s.prev[y]
      BY <2>2, <2>6 DEF HashInv
    <3>2. s.prev[y] \in T
      BY <2>2, <2>3, <3>1
    <3> QED BY <1>6, <2>2, <2>3, <2>4, <3>2
  <2> QED BY <2>4, <2>5, <2>6
<1>7. B \subseteq Chain(s.next, s.next[b])
  <2> HIDE DEF IsClosed, B
  <2> QED BY <1>1, <1>3, <1>6
<1> QED BY <1>5, <1>7
-----------------------------------------------------------------------------
(* What the operators on the table change, field by field *)

LEMMA TableTypes ==
  ASSUME NEW s, SizeInv(s)
  PROVE  /\ s \in Tables
         /\ s.tok \in Seq(TokRec) /\ s.next \in [Sym \cup Buckets -> Sym \cup {NULL}]
         /\ s.prev \in [Sym -> Sym \cup Buckets \cup {NULL}] /\ s.below \in [Sym -> Sym \cup {NULL}]
         /\ s.freed \subseteq Sym /\ s.scope \in Seq(ScopeRec) /\ s.n_token \in Sym \cup {NULL}
         /\ s.opened \in 0 .. MaxScopes
         /\ LiveIn(s) \subseteq DOMAIN s.tok /\ DOMAIN s.tok \subseteq Sym
         /\ Len(s.tok) \in Nat /\ DOMAIN s.tok = 1 .. Len(s.tok) /\ Len(s.tok) <= MaxSyms
         /\ Len(s.scope) \in Nat /\ DOMAIN s.scope = 1 .. Len(s.scope)
<1>1. s \in Tables
  BY DEF SizeInv
<1>2. /\ s.tok \in Seq(TokRec) /\ s.next \in [Sym \cup Buckets -> Sym \cup {NULL}]
      /\ s.prev \in [Sym -> Sym \cup Buckets \cup {NULL}] /\ s.below \in [Sym -> Sym \cup {NULL}]
      /\ s.freed \subseteq Sym /\ s.scope \in Seq(ScopeRec) /\ s.n_token \in Sym \cup {NULL}
      /\ s.opened \in 0 .. MaxScopes
  BY <1>1 DEF Tables
<1>3. /\ Len(s.tok) \in Nat /\ DOMAIN s.tok = 1 .. Len(s.tok)
      /\ Len(s.scope) \in Nat /\ DOMAIN s.scope = 1 .. Len(s.scope)
  BY <1>2
<1>4. Len(s.tok) <= MaxSyms
  BY DEF SizeInv
<1>5. DOMAIN s.tok \subseteq Sym
  BY <1>3, <1>4, NamesAssumption DEF NamesAssumption, Sym
<1> QED BY <1>1, <1>2, <1>3, <1>4, <1>5 DEF LiveIn

LEMMA AddFields ==
  ASSUME NEW s \in Tables, s.opened < MaxScopes, NEW e, e = addscope(s)
  PROVE  /\ e \in Tables
         /\ e.tok = s.tok /\ e.next = s.next /\ e.prev = s.prev /\ e.below = s.below
         /\ e.freed = s.freed /\ e.n_token = s.n_token /\ e.opened = s.opened + 1
         /\ e.scope = Append(s.scope, [token |-> NULL, num |-> s.opened + 1])
<1>1. /\ e.tok = s.tok /\ e.next = s.next /\ e.prev = s.prev /\ e.below = s.below
      /\ e.freed = s.freed /\ e.n_token = s.n_token /\ e.opened = s.opened + 1
      /\ e.scope = Append(s.scope, [token |-> NULL, num |-> s.opened + 1])
  BY DEF addscope, Tables
<1>2. s.opened + 1 \in 1 .. MaxScopes /\ s.opened + 1 \in 0 .. MaxScopes
  BY NamesAssumption DEF NamesAssumption, Tables
<1>3. [token |-> NULL, num |-> s.opened + 1] \in ScopeRec
  BY <1>2 DEF ScopeRec
<1>4. Append(s.scope, [token |-> NULL, num |-> s.opened + 1]) \in Seq(ScopeRec)
  BY <1>3 DEF Tables
<1>5. e \in Tables
  BY <1>2, <1>4 DEF addscope, Tables
<1> QED BY <1>1, <1>5

LEMMA EnFields ==
  ASSUME NEW s, SizeInv(s), s.scope # <<>>, Len(s.tok) < MaxSyms,
         NEW name \in AllNames, NEW kind \in {"var", "func", "struct"},
         NEW e, e = ensymbol(s, name, kind), NEW t, t = Len(s.tok) + 1, NEW b, b = Bucket(name)
  PROVE  /\ e \in Tables /\ t \in Sym /\ t \notin DOMAIN s.tok /\ t \notin s.freed
         /\ b \in Buckets
         /\ Len(e.tok) = t /\ DOMAIN e.tok = DOMAIN s.tok \cup {t}
         /\ \A u \in DOMAIN s.tok : e.tok[u] = s.tok[u]
         /\ e.tok[t].name = name /\ e.tok[t].kind = kind /\ e.tok[t].num = Last(s.scope).num
         /\ e.next[t] = s.next[b] /\ e.next[b] = t
         /\ \A p \in Sym \cup Buckets : p # t /\ p # b => e.next[p] = s.next[p]
         /\ e.prev[t] = b
         /\ \A u \in Sym : u # t => e.prev[u] = IF u = s.next[b] THEN t ELSE s.prev[u]
         /\ \A u \in Sym : e.below[u] = IF u = s.n_token THEN t ELSE s.below[u]
         /\ e.freed = s.freed /\ e.opened = s.opened /\ e.n_token = t
         /\ Len(e.scope) = Len(s.scope) /\ DOMAIN e.scope = DOMAIN s.scope
         /\ \A k \in DOMAIN s.scope :
              /\ e.scope[k].num = s.scope[k].num
              /\ e.scope[k].token = IF s.n_token = NULL /\ k = Len(s.scope) THEN t
                                    ELSE s.scope[k].token
         /\ LiveIn(e) = LiveIn(s) \cup {t}
<1> DEFINE rec == [name |-> name, kind |-> kind, num |-> Last(s.scope).num]
           nx == [s.next EXCEPT ![t] = s.next[b], ![b] = t]
           pv == [u \in Sym |-> IF u = t THEN b ELSE IF u = s.next[b] THEN t ELSE s.prev[u]]
           bl == IF s.n_token # NULL THEN [s.below EXCEPT ![s.n_token] = t] ELSE s.below
           sc == IF s.n_token # NULL THEN s.scope
                 ELSE [s.scope EXCEPT ![Len(s.scope)].token = t]
<1>1. s \in Tables
  BY TableTypes
<1>2. /\ e.tok = Append(s.tok, rec) /\ e.next = nx /\ e.prev = pv /\ e.below = bl
      /\ e.freed = s.freed /\ e.scope = sc /\ e.n_token = t /\ e.opened = s.opened
      /\ e = [tok |-> e.tok, next |-> e.next, prev |-> e.prev, below |-> e.below,
              freed |-> e.freed, scope |-> e.scope, n_token |-> e.n_token, opened |-> e.opened]
  BY <1>1 DEF ensymbol, Tables
<1>3. t \in Sym /\ t \notin DOMAIN s.tok /\ t \notin s.freed /\ b \in Buckets /\ t # b
      /\ t # NULL /\ b \notin Sym
  <2>1. t \in Sym /\ t \notin DOMAIN s.tok
    BY TableTypes, NamesAssumption DEF NamesAssumption, Sym
  <2>2. t \notin s.freed
    BY <2>1 DEF SizeInv
  <2> QED BY <2>1, <2>2, Places
<1>4. Len(s.scope) \in DOMAIN s.scope /\ s.scope[Len(s.scope)] \in ScopeRec
  BY TableTypes
<1>5. rec \in TokRec
  BY <1>4 DEF TokRec, ScopeRec, Last
<1>6. /\ Append(s.tok, rec) \in Seq(TokRec) /\ Len(Append(s.tok, rec)) = t
      /\ DOMAIN Append(s.tok, rec) = DOMAIN s.tok \cup {t} /\ Append(s.tok, rec)[t] = rec
      /\ \A u \in DOMAIN s.tok : Append(s.tok, rec)[u] = s.tok[u]
  <2>1. s.tok \in Seq(TokRec)
    BY TableTypes
  <2> HIDE DEF rec
  <2> QED BY <1>5, <2>1
<1>7. /\ nx \in [Sym \cup Buckets -> Sym \cup {NULL}]
      /\ nx[t] = s.next[b] /\ nx[b] = t
      /\ \A p \in Sym \cup Buckets : p # t /\ p # b => nx[p] = s.next[p]
  <2>1. s.next \in [Sym \cup Buckets -> Sym \cup {NULL}]
    BY TableTypes
  <2> QED BY <1>3, <2>1
<1>8. /\ pv \in [Sym -> Sym \cup Buckets \cup {NULL}] /\ pv[t] = b
      /\ \A u \in Sym : u # t => pv[u] = IF u = s.next[b] THEN t ELSE s.prev[u]
  <2>1. s.prev \in [Sym -> Sym \cup Buckets \cup {NULL}]
    BY TableTypes
  <2> QED BY <1>3, <2>1
<1>9. /\ bl \in [Sym -> Sym \cup {NULL}]
      /\ \A u \in Sym : bl[u] = IF u = s.n_token THEN t ELSE s.below[u]
  <2>1. s.below \in [Sym -> Sym \cup {NULL}] /\ s.n_token \in Sym \cup {NULL}
    BY TableTypes
  <2> QED BY <1>3, <2>1, Places
<1>10. /\ sc \in Seq(ScopeRec) /\ Len(sc) = Len(s.scope) /\ DOMAIN sc = DOMAIN s.scope
       /\ \A k \in DOMAIN s.scope :
            /\ sc[k].num = s.scope[k].num
            /\ sc[k].token = IF s.n_token = NULL /\ k = Len(s.scope) THEN t
                             ELSE s.scope[k].token
  <2>1. s.scope \in Seq(ScopeRec) /\ \A k \in DOMAIN s.scope : s.scope[k] \in ScopeRec
    BY TableTypes
  <2>2. CASE s.n_token # NULL
    BY <2>1, <2>2
  <2>3. CASE s.n_token = NULL
    <3> DEFINE n == Len(s.scope)
               x == [s.scope[n] EXCEPT !.token = t]
    <3>1. sc = [s.scope EXCEPT ![n] = x]
      BY <2>3
    <3>2. x \in ScopeRec /\ x.num = s.scope[n].num /\ x.token = t
      BY <1>3, <1>4 DEF ScopeRec
    <3>3. n \in 1 .. Len(s.scope)
      BY <1>4, TableTypes
    <3> HIDE DEF n, x, sc
    <3>4. sc \in Seq(ScopeRec) /\ Len(sc) = Len(s.scope) /\ DOMAIN sc = DOMAIN s.scope
          /\ \A k \in DOMAIN s.scope : sc[k] = IF k = n THEN x ELSE s.scope[k]
      BY <2>1, <3>1, <3>2, <3>3
    <3> QED BY <2>3, <3>2, <3>4 DEF n
  <2> QED BY <2>2, <2>3
<1> HIDE DEF rec, nx, pv, bl, sc
<1>11. e \in Tables
  <2>1. /\ e.tok \in Seq(TokRec) /\ e.next \in [Sym \cup Buckets -> Sym \cup {NULL}]
        /\ e.prev \in [Sym -> Sym \cup Buckets \cup {NULL}] /\ e.below \in [Sym -> Sym \cup {NULL}]
        /\ e.freed \in SUBSET Sym /\ e.scope \in Seq(ScopeRec)
        /\ e.n_token \in Sym \cup {NULL} /\ e.opened \in 0 .. MaxScopes
    BY <1>2, <1>3, <1>6, <1>7, <1>8, <1>9, <1>10, TableTypes
  <2> QED BY <1>2, <2>1 DEF Tables
<1>12. e.tok[t].name = name /\ e.tok[t].kind = kind /\ e.tok[t].num = Last(s.scope).num
  BY <1>2, <1>6 DEF rec
<1>13. LiveIn(e) = LiveIn(s) \cup {t}
  BY <1>2, <1>3, <1>6 DEF LiveIn
<1> QED BY <1>2, <1>3, <1>6, <1>7, <1>8, <1>9, <1>10, <1>11, <1>12, <1>13

LEMMA UnlinkFields ==
  ASSUME NEW s, SizeInv(s), NEW t \in LiveIn(s), NEW q, q = s.prev[t], NEW n, n = s.next[t],
         q \in Sym \cup Buckets, q # t, NEW e, e = Unlink(s, t)
  PROVE  /\ e \in Tables /\ t \in Sym
         /\ e.tok = s.tok /\ e.scope = s.scope /\ e.n_token = s.n_token /\ e.opened = s.opened
         /\ e.freed = s.freed \cup {t} /\ LiveIn(e) = LiveIn(s) \ {t}
         /\ e.next[q] = n
         /\ \A p \in Sym \cup Buckets : p # t /\ p # q => e.next[p] = s.next[p]
         /\ \A u \in Sym : u # t => e.prev[u] = IF u = n THEN q ELSE s.prev[u]
         /\ \A u \in Sym : e.below[u] = IF u = t THEN NULL ELSE s.below[u]
<1> DEFINE nx == [s.next EXCEPT ![q] = n, ![t] = NULL]
           pv == [u \in Sym |-> IF u = t THEN NULL ELSE IF u = n THEN q ELSE s.prev[u]]
           bl == [s.below EXCEPT ![t] = NULL]
<1>1. s \in Tables /\ t \in Sym
  BY TableTypes
<1>2. /\ e.tok = s.tok /\ e.next = nx /\ e.prev = pv /\ e.below = bl
      /\ e.freed = s.freed \cup {t} /\ e.scope = s.scope /\ e.n_token = s.n_token
      /\ e.opened = s.opened
      /\ e = [tok |-> e.tok, next |-> e.next, prev |-> e.prev, below |-> e.below,
              freed |-> e.freed, scope |-> e.scope, n_token |-> e.n_token, opened |-> e.opened]
  BY <1>1 DEF Unlink, Tables
<1>3. n \in Sym \cup {NULL}
  BY <1>1, TableTypes
<1>4. /\ nx \in [Sym \cup Buckets -> Sym \cup {NULL}]
      /\ nx[q] = n /\ \A p \in Sym \cup Buckets : p # t /\ p # q => nx[p] = s.next[p]
  <2>1. s.next \in [Sym \cup Buckets -> Sym \cup {NULL}]
    BY TableTypes
  <2> QED BY <1>1, <1>3, <2>1
<1>5. /\ pv \in [Sym -> Sym \cup Buckets \cup {NULL}]
      /\ \A u \in Sym : u # t => pv[u] = IF u = n THEN q ELSE s.prev[u]
  <2>1. s.prev \in [Sym -> Sym \cup Buckets \cup {NULL}]
    BY TableTypes
  <2> QED BY <2>1
<1>6. /\ bl \in [Sym -> Sym \cup {NULL}]
      /\ \A u \in Sym : bl[u] = IF u = t THEN NULL ELSE s.below[u]
  <2>1. s.below \in [Sym -> Sym \cup {NULL}]
    BY TableTypes
  <2> QED BY <1>1, <2>1
<1> HIDE DEF nx, pv, bl
<1>7. e \in Tables
  <2>1. /\ e.tok \in Seq(TokRec) /\ e.next \in [Sym \cup Buckets -> Sym \cup {NULL}]
        /\ e.prev \in [Sym -> Sym \cup Buckets \cup {NULL}] /\ e.below \in [Sym -> Sym \cup {NULL}]
        /\ e.freed \in SUBSET Sym /\ e.scope \in Seq(ScopeRec)
        /\ e.n_token \in Sym \cup {NULL} /\ e.opened \in 0 .. MaxScopes
    BY <1>1, <1>2, <1>4, <1>5, <1>6, TableTypes
  <2> QED BY <1>2, <2>1 DEF Tables
<1>8. LiveIn(e) = LiveIn(s) \ {t}
  BY <1>2 DEF LiveIn
<1> QED BY <1>1, <1>2, <1>4, <1>5, <1>6, <1>7, <1>8

(* delscope before its second loop *)
Popped(s) == [s EXCEPT !.scope = Outer(@), !.n_token = OuterEnd(s)]

LEMMA PopFields ==
  ASSUME NEW s, SizeInv(s), s.scope # <<>>, OuterEnd(s) \in Sym \cup {NULL},
         NEW e, e = Popped(s)
  PROVE  /\ e \in Tables
         /\ e.tok = s.tok /\ e.next = s.next /\ e.prev = s.prev /\ e.below = s.below
         /\ e.freed = s.freed /\ e.opened = s.opened /\ e.n_token = OuterEnd(s)
         /\ Len(e.scope) = Len(s.scope) - 1 /\ DOMAIN e.scope = 1 .. Len(s.scope) - 1
         /\ \A k \in 1 .. Len(s.scope) - 1 : e.scope[k] = s.scope[k]
         /\ LiveIn(e) = LiveIn(s)
<1>1. s \in Tables
  BY TableTypes
<1>2. /\ e.tok = s.tok /\ e.next = s.next /\ e.prev = s.prev /\ e.below = s.below
      /\ e.freed = s.freed /\ e.scope = Outer(s.scope) /\ e.n_token = OuterEnd(s)
      /\ e.opened = s.opened
      /\ e = [tok |-> e.tok, next |-> e.next, prev |-> e.prev, below |-> e.below,
              freed |-> e.freed, scope |-> e.scope, n_token |-> e.n_token, opened |-> e.opened]
  BY <1>1 DEF Popped, Tables
<1>3. /\ Outer(s.scope) \in Seq(ScopeRec) /\ Len(Outer(s.scope)) = Len(s.scope) - 1
      /\ DOMAIN Outer(s.scope) = 1 .. Len(s.scope) - 1
      /\ \A k \in 1 .. Len(s.scope) - 1 : Outer(s.scope)[k] = s.scope[k]
  <2>1. s.scope \in Seq(ScopeRec)
    BY TableTypes
  <2> QED BY <2>1 DEF Outer
<1>4. e \in Tables
  <2>1. /\ e.tok \in Seq(TokRec) /\ e.next \in [Sym \cup Buckets -> Sym \cup {NULL}]
        /\ e.prev \in [Sym -> Sym \cup Buckets \cup {NULL}] /\ e.below \in [Sym -> Sym \cup {NULL}]
        /\ e.freed \in SUBSET Sym /\ e.scope \in Seq(ScopeRec)
        /\ e.n_token \in Sym \cup {NULL} /\ e.opened \in 0 .. MaxScopes
    BY <1>1, <1>2, <1>3, TableTypes
  <2> QED BY <1>2, <2>1 DEF Tables
<1> QED BY <1>2, <1>3, <1>4 DEF LiveIn
-----------------------------------------------------------------------------
(* addscope *)

LEMMA AddTable ==
  ASSUME NEW s, NEW d, NEW own, NEW A, TableInv(s, d, own, A), s.opened < MaxScopes,
         s.scope # <<>> \/ s.opened = 0
  PROVE  TableInv(addscope(s), d, own, A)
<1> DEFINE e == addscope(s)
           N == Len(s.scope)
<1>1. SizeInv(s) /\ HashInv(s) /\ ChainInv(s, d, own) /\ NumInv(s, own) /\ ApartInv(s, own, A)
      /\ Unique(s)
  BY DEF TableInv
<1>2. /\ e \in Tables
      /\ e.tok = s.tok /\ e.next = s.next /\ e.prev = s.prev /\ e.below = s.below
      /\ e.freed = s.freed /\ e.n_token = s.n_token /\ e.opened = s.opened + 1
      /\ e.scope = Append(s.scope, [token |-> NULL, num |-> s.opened + 1])
  BY <1>1, TableTypes, AddFields
<1>3. /\ Len(e.scope) = N + 1 /\ DOMAIN e.scope = 1 .. N + 1 /\ N \in Nat
      /\ DOMAIN s.scope = 1 .. N /\ e.scope # <<>>
      /\ \A k \in 1 .. N : e.scope[k] = s.scope[k]
      /\ e.scope[N + 1].token = NULL /\ e.scope[N + 1].num = s.opened + 1
  <2>1. s.scope \in Seq(ScopeRec) /\ N \in Nat /\ DOMAIN s.scope = 1 .. N
    BY <1>1, TableTypes
  <2> QED BY <1>2, <2>1
<1>4. LiveIn(e) = LiveIn(s) /\ s.opened \in Nat
  BY <1>1, <1>2, TableTypes DEF LiveIn
<1> HIDE DEF e, N
<1>5. SizeInv(e)
  BY <1>1, <1>2 DEF SizeInv
<1>6. HashInv(e)
  BY <1>1, <1>2, <1>4 DEF HashInv
<1>7. ChainInv(e, d, own)
  <2>1. own \in [LiveIn(s) -> 0 .. N]
    BY <1>1 DEF ChainInv, N
  <2>2. own \in [LiveIn(e) -> 0 .. Len(e.scope)]
    BY <1>3, <1>4, <2>1
  <2>3. ASSUME NEW k \in 0 .. Len(e.scope)
        PROVE  Linked(e.below, Start(e, d, k), Members(own, k))
    <3>1. CASE k \in 0 .. N
      <4>1. Start(e, d, k) = Start(s, d, k)
        BY <1>3, <3>1 DEF Start
      <4> QED BY <1>1, <1>2, <3>1, <4>1 DEF ChainInv, N
    <3>2. CASE k = N + 1
      <4>1. Start(e, d, k) = NULL
        BY <1>3, <3>2 DEF Start
      <4>2. Members(own, k) = {}
        BY <1>3, <2>1, <3>2 DEF Members
      <4> QED BY <4>1, <4>2 DEF Linked
    <3> QED BY <1>3, <3>1, <3>2
  <2>4. Last(e.scope).token = NULL
    BY <1>3 DEF Last
  <2> QED BY <1>1, <1>2, <1>3, <1>4, <2>2, <2>3, <2>4 DEF ChainInv
<1>8. NumInv(e, own)
  <2>1. own \in [LiveIn(s) -> 0 .. N] /\ N = Len(s.scope)
    BY <1>1 DEF ChainInv, N
  <2>2. \A k \in 1 .. N : s.scope[k].num \in Nat /\ s.scope[k].num <= s.opened
    <3>1. \A k \in 1 .. N : s.scope[k] \in ScopeRec
      BY <1>1, <1>3, TableTypes
    <3> QED BY <1>1, <1>3, <3>1 DEF NumInv, ScopeRec
  <2>3. \A t \in DOMAIN s.tok : s.tok[t].num \in Nat /\ s.tok[t].num <= s.opened
    <3>1. \A t \in DOMAIN s.tok : s.tok[t] \in TokRec
      BY <1>1, TableTypes
    <3> QED BY <1>1, <3>1 DEF NumInv, TokRec
  <2>4. \A j, k \in DOMAIN e.scope : j < k => e.scope[j].num < e.scope[k].num
    <3> SUFFICES ASSUME NEW j \in 1 .. N + 1, NEW k \in 1 .. N + 1, j < k
                 PROVE  e.scope[j].num < e.scope[k].num
      BY <1>3
    <3>0. j \in 1 .. N /\ N \in Nat /\ e.scope[j] = s.scope[j]
      BY <1>3
    <3>1. CASE k = N + 1
      <4>1. e.scope[k].num = s.opened + 1 /\ s.scope[j].num \in Nat /\ s.scope[j].num <= s.opened
        BY <1>3, <2>2, <3>0, <3>1
      <4> QED BY ONLY <1>4, <3>0, <4>1
    <3>2. CASE k # N + 1
      <4>1. k \in 1 .. N
        BY ONLY <3>0, <3>2, k \in 1 .. N + 1
      <4>2. s.scope[j].num < s.scope[k].num
        BY <1>1, <1>3, <3>0, <4>1 DEF NumInv
      <4> QED BY <1>3, <3>0, <4>1, <4>2
    <3> QED BY <3>1, <3>2
  <2>5. \A k \in DOMAIN e.scope : e.scope[k].num <= e.opened
    BY <1>2, <1>3, <1>4, <2>2
  <2>6. e.scope[1].num = 1
    <3>1. CASE N = 0
      <4>1. s.scope = <<>>
        BY <1>1, <3>1, TableTypes DEF N
      <4> QED BY <1>3, <3>1, <4>1
    <3>2. CASE N # 0
      <4>1. s.scope # <<>>
        BY <3>2 DEF N
      <4> QED BY <1>1, <1>3, <3>2, <4>1 DEF NumInv
    <3> QED BY <3>1, <3>2
  <2>7. \A t \in DOMAIN e.tok : e.tok[t].num <= e.opened
    BY <1>2, <1>4, <2>3
  <2>8. \A t \in LiveIn(e) : own[t] # 0 => e.scope[own[t]].num <= e.tok[t].num
    BY <1>1, <1>2, <1>3, <1>4, <2>1 DEF NumInv
  <2>9. ASSUME NEW k \in DOMAIN e.scope, NEW t \in DOMAIN s.tok,
               t \in s.freed \/ (t \in LiveIn(s) /\ own[t] = 0)
        PROVE  e.scope[k].num # s.tok[t].num
    <3>1. CASE k = N + 1
      BY <1>3, <1>4, <2>3, <3>1
    <3>2. CASE k # N + 1
      BY <1>1, <1>3, <2>9, <3>2 DEF NumInv
    <3> QED BY <3>1, <3>2
  <2>10. s.freed \subseteq DOMAIN s.tok /\ LiveIn(s) \subseteq DOMAIN s.tok
    BY <1>1, TableTypes DEF SizeInv
  <2>11. e.opened # 0
    BY <1>2, <1>4
  <2> QED BY <1>2, <1>4, <2>4, <2>5, <2>6, <2>7, <2>8, <2>9, <2>10, <2>11 DEF NumInv
<1>9. ApartInv(e, own, A)
  <2>1. own \in [LiveIn(s) -> 0 .. N]
    BY <1>1 DEF ChainInv, N
  <2>2. \A t \in A \cap LiveIn(e) : own[t] # 0 => e.tok[t].num = e.scope[own[t]].num
    BY <1>1, <1>2, <1>3, <1>4, <2>1 DEF ApartInv
  <2>3. ASSUME NEW t \in DOMAIN e.tok \ A, e.tok[t].kind = "func"
        PROVE  t \in LiveIn(e) /\ own[t] = 1
    <3>1. s.scope # <<>>
      <4>1. s.opened # 0
        BY <1>1, <1>2, <2>3 DEF NumInv
      <4> QED BY <4>1
    <3> QED BY <1>1, <1>2, <1>4, <2>3, <3>1 DEF ApartInv
  <2> QED BY <1>1, <1>2, <2>2, <2>3 DEF ApartInv
<1>10. Unique(e)
  BY <1>1, <1>2, <1>4 DEF Unique, GlobalIn
<1> QED BY <1>5, <1>6, <1>7, <1>8, <1>9, <1>10 DEF TableInv, e
-----------------------------------------------------------------------------
(* Changing one link of a list *)

LEMMA LinkedSame ==
  ASSUME NEW link, NEW more, NEW p, NEW C, Linked(link, p, C), \A u \in C : more[u] = link[u]
  PROVE  Linked(more, p, C)
BY DEF Linked

LEMMA LinkedAppend ==
  ASSUME NEW link, NEW more, NEW p, NEW C, Linked(link, p, C), NEW m \in C, link[m] = NULL,
         NEW t \in Sym, \A u \in C : u < t, more[m] = t, more[t] = NULL,
         \A u \in C : u # m => more[u] = link[u]
  PROVE  Linked(more, p, C \cup {t})
<1>1. C \subseteq Int /\ t \in Int /\ t # NULL /\ C \subseteq Sym /\ t \notin C
  BY Places DEF Linked
<1>2. p # NULL /\ p \in C /\ \A u \in C : p <= u
  BY DEF Linked
<1>3. \A u \in C : u <= m
  BY <1>1 DEF Linked
<1>4. \A u \in C \cup {t} : p <= u
  BY <1>1, <1>2
<1>5. ASSUME NEW u \in C \cup {t}, more[u] # NULL
      PROVE  more[u] \in C \cup {t} /\ u < more[u]
  BY <1>1, <1>5 DEF Linked
<1>6. ASSUME NEW u \in C \cup {t}, NEW w \in C \cup {t}, u < w
      PROVE  more[u] # NULL /\ more[u] <= w
  <2>1. u \in C
    BY <1>1, <1>6
  <2>2. CASE u = m
    BY <1>1, <1>3, <1>6, <2>2
  <2>3. CASE u # m
    <3>1. u < m
      BY <1>1, <1>3, <2>1, <2>3
    <3>2. link[u] # NULL /\ link[u] <= m /\ link[u] \in C
      BY <2>1, <3>1 DEF Linked
    <3>3. CASE w = t
      <4>1. more[u] = link[u] /\ link[u] < t
        BY <2>1, <2>3, <3>2
      <4>2. link[u] \in Int
        BY <1>1, <3>2
      <4> QED BY <1>1, <3>2, <3>3, <4>1, <4>2
    <3>4. CASE w \in C
      BY <1>6, <2>1, <2>3, <3>4 DEF Linked
    <3> QED BY <1>6, <3>3, <3>4
  <2> QED BY <2>2, <2>3
<1> QED BY <1>1, <1>2, <1>4, <1>5, <1>6 DEF Linked

LEMMA LinkedTail ==
  ASSUME NEW link, NEW more, NEW p, NEW C, Linked(link, p, C), p # NULL,
         \A u \in C : u # p => more[u] = link[u]
  PROVE  Linked(more, link[p], C \ {p})
<1> DEFINE q == link[p]
           E == C \ {p}
<1>1. p \in C /\ (\A u \in C : p <= u) /\ C \subseteq Int /\ C \subseteq Sym
  BY Places DEF Linked
<1>2. \A u \in E : p < u /\ more[u] = link[u]
  BY <1>1
<1>3. q # NULL => q \in E /\ p < q
  BY <1>1 DEF Linked
<1>4. \A u \in E : q # NULL /\ q <= u
  BY <1>1, <1>2 DEF Linked
<1>5. ASSUME NEW u \in E, more[u] # NULL PROVE more[u] \in E /\ u < more[u]
  BY <1>1, <1>2, <1>5 DEF Linked
<1>6. ASSUME NEW u \in E, NEW w \in E, u < w PROVE more[u] # NULL /\ more[u] <= w
  BY <1>2, <1>6 DEF Linked
<1> HIDE DEF E, q
<1>7. E \subseteq Sym
  BY <1>1 DEF E
<1>8. Linked(more, q, E)
  BY <1>3, <1>4, <1>5, <1>6, <1>7 DEF Linked
<1> QED BY <1>8 DEF E, q

(* A list that is not empty has an end. *)
LEMMA LinkedEnd ==
  ASSUME NEW link, NEW p, NEW C, Linked(link, p, C), p # NULL
  PROVE  \E m \in C : link[m] = NULL
<1>1. C \subseteq Sym /\ C # {} /\ C \subseteq Int
  BY Places DEF Linked
<1>2. PICK m \in C : \A u \in C : u <= m
  BY <1>1, Youngest
<1>3. ASSUME link[m] # NULL PROVE FALSE
  <2>1. link[m] \in C /\ m < link[m]
    BY <1>3 DEF Linked
  <2>2. link[m] \in Int /\ m \in Int /\ link[m] <= m
    BY <1>1, <1>2, <2>1
  <2> QED BY ONLY <2>1, <2>2
<1> QED BY <1>3
-----------------------------------------------------------------------------
(* ensymbol *)

LEMMA EnHash ==
  ASSUME NEW s, SizeInv(s), HashInv(s), s.scope # <<>>, Len(s.tok) < MaxSyms,
         NEW name \in AllNames, NEW kind \in {"var", "func", "struct"}
  PROVE  HashInv(ensymbol(s, name, kind))
<1> DEFINE e == ensymbol(s, name, kind)
           t == Len(s.tok) + 1
           b == Bucket(name)
           n == s.next[b]
<1>1. /\ t \in Sym /\ t \notin DOMAIN s.tok /\ b \in Buckets
      /\ \A u \in DOMAIN s.tok : e.tok[u] = s.tok[u]
      /\ e.tok[t].name = name
      /\ e.next[t] = s.next[b] /\ e.next[b] = t
      /\ \A p \in Sym \cup Buckets : p # t /\ p # b => e.next[p] = s.next[p]
      /\ e.prev[t] = b
      /\ \A u \in Sym : u # t => e.prev[u] = IF u = s.next[b] THEN t ELSE s.prev[u]
      /\ LiveIn(e) = LiveIn(s) \cup {t}
  BY EnFields
<1>2. /\ LiveIn(s) \subseteq DOMAIN s.tok /\ DOMAIN s.tok \subseteq Sym /\ LiveIn(s) \subseteq Sym
      /\ \A u \in DOMAIN s.tok : u < t
  BY TableTypes
<1> HIDE DEF e, t
<1>3. /\ Sym \cap Buckets = {} /\ NULL \notin Sym /\ b = Bucket(name)
  BY Places
<1>4. n # NULL => n \in LiveIn(s) /\ s.prev[n] = b /\ Bucket(s.tok[n].name) = b
  BY <1>1 DEF HashInv
<1>5. \A u \in LiveIn(s) : s.prev[u] = b => u = n
  BY DEF HashInv
<1> HIDE DEF b
<1>6. ASSUME NEW u \in LiveIn(s)
      PROVE  /\ e.prev[u] \in LiveIn(e) \cup Buckets /\ e.next[e.prev[u]] = u
             /\ e.prev[u] \in LiveIn(e)
                  => u < e.prev[u] /\ Bucket(e.tok[e.prev[u]].name) = Bucket(e.tok[u].name)
             /\ e.prev[u] \in Buckets => e.prev[u] = Bucket(e.tok[u].name)
  <2>1. u \in Sym /\ u # t /\ u # NULL /\ e.tok[u] = s.tok[u] /\ u < t
    BY <1>1, <1>2, <1>3
  <2>2. CASE u = n
    <3>1. e.prev[u] = t
      BY <1>1, <2>1, <2>2
    <3>2. e.next[t] = u /\ t \in LiveIn(e) /\ t \notin Buckets
      BY <1>1, <1>3, <2>2
    <3>3. Bucket(e.tok[t].name) = Bucket(e.tok[u].name)
      BY <1>1, <1>3, <1>4, <2>1, <2>2
    <3> QED BY <2>1, <3>1, <3>2, <3>3
  <2>3. CASE u # n
    <3> DEFINE q == s.prev[u]
    <3>1. e.prev[u] = q
      BY <1>1, <2>1, <2>3
    <3>2. /\ q \in LiveIn(s) \cup Buckets /\ s.next[q] = u
          /\ q \in LiveIn(s) => u < q /\ Bucket(s.tok[q].name) = Bucket(s.tok[u].name)
          /\ q \in Buckets => q = Bucket(s.tok[u].name)
      BY DEF HashInv
    <3>3. q # b
      BY <1>5, <2>3
    <3> HIDE DEF q
    <3>4. q # t /\ q \in Sym \cup Buckets /\ (q \in LiveIn(s) => e.tok[q] = s.tok[q])
      BY <1>1, <1>2, <1>3, <3>2
    <3>5. e.next[q] = u
      BY <1>1, <3>2, <3>3, <3>4
    <3>6. q \in LiveIn(e) <=> q \in LiveIn(s)
      BY <1>1, <3>4
    <3> QED BY <2>1, <3>1, <3>2, <3>4, <3>5, <3>6
  <2> QED BY <2>2, <2>3
<1>7. /\ e.prev[t] \in LiveIn(e) \cup Buckets /\ e.next[e.prev[t]] = t
      /\ e.prev[t] \notin LiveIn(e) /\ e.prev[t] = Bucket(e.tok[t].name)
  BY <1>1, <1>2, <1>3
<1>8. ASSUME NEW p \in LiveIn(e) \cup Buckets, e.next[p] # NULL
      PROVE  e.next[p] \in LiveIn(e) /\ e.prev[e.next[p]] = p
  <2>1. CASE p = t
    <3>1. n # NULL /\ e.next[p] = n
      BY <1>1, <1>8, <2>1
    <3>2. n \in LiveIn(s) /\ n \in Sym /\ n # t
      BY <1>1, <1>2, <1>4, <3>1
    <3>3. e.prev[n] = t
      BY <1>1, <3>2
    <3> QED BY <1>1, <2>1, <3>1, <3>2, <3>3
  <2>2. CASE p = b
    BY <1>1, <2>2
  <2>3. CASE p # t /\ p # b
    <3>1. p \in LiveIn(s) \cup Buckets /\ p \in Sym \cup Buckets
      BY <1>1, <1>2, <2>3
    <3>2. e.next[p] = s.next[p]
      BY <1>1, <2>3, <3>1
    <3>3. s.next[p] \in LiveIn(s) /\ s.prev[s.next[p]] = p
      BY <1>8, <3>1, <3>2 DEF HashInv
    <3>4. s.next[p] # n /\ s.next[p] # t /\ s.next[p] \in Sym
      BY <1>1, <1>2, <1>3, <1>4, <2>3, <3>3
    <3>5. e.prev[s.next[p]] = p
      BY <1>1, <3>3, <3>4
    <3> QED BY <1>1, <3>2, <3>3, <3>5
  <2> QED BY <2>1, <2>2, <2>3
<1>9. HashInv(e)
  BY <1>1, <1>6, <1>7, <1>8 DEF HashInv
<1> QED BY <1>9 DEF e

(* The chain a new symbol goes to, and own with it. *)
Home(s, own) == IF s.n_token = NULL THEN Len(s.scope) ELSE own[s.n_token]
New(s) == Len(s.tok) + 1
OwnWith(s, own) ==
  [x \in LiveIn(s) \cup {New(s)} |-> IF x = New(s) THEN Home(s, own) ELSE own[x]]

LEMMA HomeIs ==
  ASSUME NEW s, NEW d, NEW own, SizeInv(s), ChainInv(s, d, own), s.scope # <<>>
  PROVE  Home(s, own) \in 1 .. Len(s.scope)
<1>1. Len(s.scope) \in 1 .. Len(s.scope) /\ Len(s.scope) \in Nat
  BY TableTypes
<1>2. s.n_token # NULL => own[s.n_token] \in 1 .. Len(s.scope)
  BY <1>1 DEF ChainInv
<1> QED BY <1>1, <1>2 DEF Home

OwnGrows(s, own, t, k, f) ==
  /\ f \in [LiveIn(s) \cup {t} -> 0 .. Len(s.scope)]
  /\ f[t] = k /\ \A u \in LiveIn(s) : f[u] = own[u]
  /\ Members(f, k) = Members(own, k) \cup {t}
  /\ \A j : j # k => Members(f, j) = Members(own, j)

LEMMA OwnWithIs ==
  ASSUME NEW s, NEW d, NEW own, SizeInv(s), ChainInv(s, d, own), s.scope # <<>>
  PROVE  OwnGrows(s, own, New(s), Home(s, own), OwnWith(s, own))
<1> DEFINE t == New(s)
           k == Home(s, own)
           f == OwnWith(s, own)
<1>1. t \notin LiveIn(s) /\ own \in [LiveIn(s) -> 0 .. Len(s.scope)]
  BY TableTypes DEF ChainInv, New
<1>2. f = [x \in LiveIn(s) \cup {t} |-> IF x = t THEN k ELSE own[x]]
  BY DEF OwnWith
<1>3. k \in 0 .. Len(s.scope)
  BY HomeIs, TableTypes
<1> HIDE DEF t, f, k
<1>4. /\ f \in [LiveIn(s) \cup {t} -> 0 .. Len(s.scope)]
      /\ f[t] = k /\ \A u \in LiveIn(s) : f[u] = own[u]
      /\ Members(f, k) = Members(own, k) \cup {t}
      /\ \A j : j # k => Members(f, j) = Members(own, j)
  BY <1>1, <1>2, <1>3 DEF Members
<1>5. OwnGrows(s, own, t, k, f)
  BY <1>4 DEF OwnGrows
<1> QED BY <1>5 DEF t, f, k

LEMMA EnChain ==
  ASSUME NEW s, NEW d, NEW own, SizeInv(s), ChainInv(s, d, own), s.scope # <<>>,
         Len(s.tok) < MaxSyms,
         NEW name \in AllNames, NEW kind \in {"var", "func", "struct"}
  PROVE  ChainInv(ensymbol(s, name, kind), d, OwnWith(s, own))
<1> DEFINE e == ensymbol(s, name, kind)
           t == Len(s.tok) + 1
           f == OwnWith(s, own)
           k == Home(s, own)
           m == s.n_token
           N == Len(s.scope)
<1>1. /\ t \in Sym /\ t \notin DOMAIN s.tok /\ LiveIn(e) = LiveIn(s) \cup {t}
      /\ \A u \in Sym : e.below[u] = IF u = m THEN t ELSE s.below[u]
      /\ e.n_token = t /\ Len(e.scope) = N /\ DOMAIN e.scope = DOMAIN s.scope
      /\ \A j \in DOMAIN s.scope :
           e.scope[j].token = IF m = NULL /\ j = N THEN t ELSE s.scope[j].token
  BY EnFields
<1>2. /\ f \in [LiveIn(s) \cup {t} -> 0 .. N]
      /\ f[t] = k /\ \A u \in LiveIn(s) : f[u] = own[u]
      /\ Members(f, k) = Members(own, k) \cup {t}
      /\ \A j : j # k => Members(f, j) = Members(own, j)
  <2>1. t = New(s)
    BY DEF New
  <2>2. OwnGrows(s, own, New(s), k, f)
    BY OwnWithIs
  <2> HIDE DEF t, f, k
  <2> QED BY <2>1, <2>2 DEF OwnGrows
<1>3. k \in 1 .. N /\ N \in Nat /\ DOMAIN s.scope = 1 .. N
  BY HomeIs, TableTypes
<1>4. /\ s.below[t] = NULL /\ t # NULL /\ NULL \notin Sym /\ t # m
      /\ LiveIn(s) \subseteq Sym /\ \A u \in LiveIn(s) : u < t
  <2>1. t > Len(s.tok) /\ \A u \in DOMAIN s.tok : u < t
    BY TableTypes
  <2>2. t \notin LiveIn(s) /\ LiveIn(s) \subseteq DOMAIN s.tok /\ DOMAIN s.tok \subseteq Sym
    BY <1>1, TableTypes
  <2>3. s.below[t] = NULL
    BY <1>1, <2>1 DEF SizeInv
  <2>4. t # m
    BY <1>1, <2>2, Places DEF ChainInv
  <2> QED BY <1>1, <2>1, <2>2, <2>3, <2>4, Places
<1>5. /\ m # NULL => m \in LiveIn(s) /\ own[m] = k /\ s.below[m] = NULL
      /\ m = NULL => k = N /\ s.scope[N].token = NULL
  BY DEF ChainInv, Home, Last
<1>6. own \in [LiveIn(s) -> 0 .. N]
  BY DEF ChainInv
<1>7. e.below[t] = NULL
  BY <1>1, <1>4
<1>8. \A j \in 0 .. N : Linked(s.below, Start(s, d, j), Members(own, j))
  BY DEF ChainInv
<1>9. \A j \in 0 .. N : Members(own, j) \subseteq LiveIn(s)
  BY <1>6 DEF Members
<1> HIDE DEF e, t, f, k, m, N
<1>10. ASSUME NEW j \in 0 .. N
       PROVE  Linked(e.below, Start(e, d, j), Members(f, j))
  <2> DEFINE C == Members(own, j)
             p == Start(s, d, j)
  <2>1. Linked(s.below, p, C) /\ C \subseteq LiveIn(s) /\ C \subseteq Sym
    BY <1>4, <1>8, <1>9
  <2>2. m # NULL \/ j # N => Start(e, d, j) = p
    BY <1>1, <1>3 DEF Start
  <2>3. CASE j # k
    <3>1. \A u \in C : e.below[u] = s.below[u]
      BY <1>1, <1>4, <1>5, <1>9, <2>1, <2>3 DEF Members
    <3>2. Start(e, d, j) = p /\ Members(f, j) = C
      BY <1>2, <1>5, <2>2, <2>3
    <3> HIDE DEF C, p
    <3> QED BY <2>1, <3>1, <3>2, LinkedSame
  <2>4. CASE j = k /\ m = NULL
    <3>1. p = NULL
      BY <1>3, <1>5, <2>4 DEF Start
    <3>2. C = {}
      BY <2>1, <3>1 DEF Linked
    <3>3. Start(e, d, j) = t /\ Members(f, j) = {t}
      BY <1>1, <1>2, <1>3, <1>5, <2>4, <3>2 DEF Start
    <3>4. t \in Int
      BY <1>1, Places
    <3>5. Linked(e.below, t, {t})
      BY <1>1, <1>4, <1>7, <3>4 DEF Linked
    <3> QED BY <3>3, <3>5
  <2>5. CASE j = k /\ m # NULL
    <3>1. m \in C /\ s.below[m] = NULL
      BY <1>5, <1>6, <2>5 DEF Members
    <3>2. e.below[m] = t /\ \A u \in C : u # m => e.below[u] = s.below[u]
      BY <1>1, <2>1, <3>1
    <3>3. Start(e, d, j) = p /\ Members(f, j) = C \cup {t}
      BY <1>2, <2>2, <2>5
    <3>4. \A u \in C : u < t
      BY <1>4, <2>1
    <3> HIDE DEF C, p
    <3>5. Linked(e.below, p, C \cup {t})
      BY <1>1, <1>7, <2>1, <3>1, <3>2, <3>4, LinkedAppend
    <3> QED BY <3>3, <3>5
  <2> QED BY <2>3, <2>4, <2>5
<1>11. e.scope # <<>>
  BY <1>1, <1>3
<1>12. ChainInv(e, d, f)
  BY <1>1, <1>2, <1>3, <1>4, <1>7, <1>10, <1>11 DEF ChainInv
<1> QED BY <1>12 DEF e, f

(* Entering a symbol keeps the table sound: when it is apart it has to go to *)
(* the chain of the innermost scope, a function otherwise to the global one, *)
(* and the name of a function or global variable has to be new.              *)
LEMMA EnTable ==
  ASSUME NEW s, NEW d, NEW own, NEW A, TableInv(s, d, own, A), s.scope # <<>>,
         Len(s.tok) < MaxSyms,
         NEW name \in AllNames, NEW kind \in {"var", "func", "struct"},
         NEW B, A \subseteq B, B \subseteq A \cup {Len(s.tok) + 1},
         Len(s.tok) + 1 \in B => Home(s, own) = Len(s.scope),
         kind = "func" /\ Len(s.tok) + 1 \notin B => Home(s, own) = 1,
         kind = "func" \/ (kind = "var" /\ Last(s.scope).num = 1)
           => \A u \in LiveIn(s) : GlobalIn(s, u) => s.tok[u].name # name
  PROVE  TableInv(ensymbol(s, name, kind), d, OwnWith(s, own), B)
<1> DEFINE e == ensymbol(s, name, kind)
           t == Len(s.tok) + 1
           f == OwnWith(s, own)
           k == Home(s, own)
           N == Len(s.scope)
<1>1. SizeInv(s) /\ HashInv(s) /\ ChainInv(s, d, own) /\ NumInv(s, own) /\ ApartInv(s, own, A)
      /\ Unique(s)
  BY DEF TableInv
<1>2. /\ e \in Tables /\ t \in Sym /\ t \notin DOMAIN s.tok /\ t \notin s.freed
      /\ Len(e.tok) = t /\ DOMAIN e.tok = DOMAIN s.tok \cup {t}
      /\ \A u \in DOMAIN s.tok : e.tok[u] = s.tok[u]
      /\ e.tok[t].name = name /\ e.tok[t].kind = kind /\ e.tok[t].num = Last(s.scope).num
      /\ \A u \in Sym : e.below[u] = IF u = s.n_token THEN t ELSE s.below[u]
      /\ e.freed = s.freed /\ e.opened = s.opened
      /\ Len(e.scope) = N /\ DOMAIN e.scope = DOMAIN s.scope
      /\ \A j \in DOMAIN s.scope : e.scope[j].num = s.scope[j].num
      /\ LiveIn(e) = LiveIn(s) \cup {t}
  BY <1>1, EnFields
<1>3. /\ f[t] = k /\ \A u \in LiveIn(s) : f[u] = own[u]
  <2>1. t = New(s)
    BY DEF New
  <2>2. OwnGrows(s, own, New(s), k, f)
    BY <1>1, OwnWithIs
  <2> HIDE DEF t, f, k
  <2> QED BY <2>1, <2>2 DEF OwnGrows
<1>4. k \in 1 .. N /\ N \in Nat /\ DOMAIN s.scope = 1 .. N /\ N \in 1 .. N
  BY <1>1, HomeIs, TableTypes
<1>5. /\ LiveIn(s) \subseteq DOMAIN s.tok /\ DOMAIN s.tok = 1 .. Len(s.tok) /\ Len(s.tok) \in Nat
      /\ s.freed \subseteq DOMAIN s.tok /\ t = Len(s.tok) + 1 /\ Len(s.tok) < MaxSyms
      /\ Last(s.scope) = s.scope[N]
  BY <1>1, TableTypes DEF SizeInv, Last
<1>6. HashInv(e) /\ ChainInv(e, d, f)
  BY <1>1, EnHash, EnChain
<1>7. t \in B => k = N
  OBVIOUS
<1>8. kind = "func" /\ t \notin B => k = 1
  OBVIOUS
<1>9. B \subseteq A \cup {t}
  OBVIOUS
<1> HIDE DEF e, t, f, k, N
<1>10. SizeInv(e)
  <2>1. Len(e.tok) <= MaxSyms /\ e.freed \subseteq DOMAIN e.tok
    BY <1>2, <1>5, NamesAssumption DEF NamesAssumption
  <2>2. ASSUME NEW u \in Sym, u > Len(e.tok) PROVE e.below[u] = NULL
    <3>1. u > Len(s.tok) /\ u \notin DOMAIN s.tok
      BY <1>2, <1>5, <2>2, Places
    <3>2. u # s.n_token
      <4>1. u # NULL
        BY Places
      <4>2. u \notin LiveIn(s)
        BY <1>5, <3>1
      <4> QED BY <1>1, <4>1, <4>2 DEF ChainInv
    <3> QED BY <1>1, <1>2, <3>1, <3>2 DEF SizeInv
  <2> QED BY <1>2, <2>1, <2>2 DEF SizeInv
<1>11. NumInv(e, f)
  <2>1. \A j \in 1 .. N : s.scope[j].num \in Nat /\ s.scope[j].num <= s.opened
    <3>1. \A j \in 1 .. N : s.scope[j] \in ScopeRec
      BY <1>1, <1>4, TableTypes
    <3> QED BY <1>1, <1>4, <3>1 DEF NumInv, ScopeRec
  <2>2. s.scope[k].num <= s.scope[N].num
    <3>1. s.scope[k].num \in Nat
      BY <1>4, <2>1
    <3>2. CASE k = N
      BY ONLY <3>1, <3>2
    <3>3. CASE k # N
      <4>1. k < N
        BY ONLY <1>4, <3>3
      <4>2. s.scope[k].num < s.scope[N].num
        BY <1>1, <1>4, <4>1 DEF NumInv
      <4>3. s.scope[N].num \in Nat
        BY <1>4, <2>1
      <4> QED BY ONLY <3>1, <4>2, <4>3
    <3> QED BY <3>2, <3>3
  <2>3. \A i, j \in DOMAIN e.scope : i < j => e.scope[i].num < e.scope[j].num
    BY <1>1, <1>2 DEF NumInv
  <2>4. \A j \in DOMAIN e.scope : e.scope[j].num <= e.opened
    BY <1>1, <1>2 DEF NumInv
  <2>5. e.scope[1].num = 1
    BY <1>1, <1>2, <1>4 DEF NumInv
  <2>6. e.opened # 0
    <3>1. s.scope[N] \in ScopeRec
      BY <1>1, <1>4, TableTypes
    <3>2. s.scope[N].num \in 1 .. MaxScopes
      BY <3>1 DEF ScopeRec
    <3>3. s.opened \in Nat
      BY <1>1, TableTypes
    <3>4. s.scope[N].num <= s.opened
      BY <1>4, <2>1
    <3>5. s.opened # 0
      BY ONLY <3>2, <3>3, <3>4
    <3> QED BY <1>2, <3>5
  <2>7. \A u \in DOMAIN e.tok : e.tok[u].num <= e.opened
    BY <1>1, <1>2, <1>4, <1>5, <2>1 DEF NumInv
  <2>8. ASSUME NEW u \in LiveIn(e), f[u] # 0 PROVE e.scope[f[u]].num <= e.tok[u].num
    <3>1. CASE u = t
      BY <1>2, <1>3, <1>4, <1>5, <2>2, <3>1
    <3>2. CASE u \in LiveIn(s)
      <4>1. own[u] \in 1 .. N
        BY <1>1, <1>3, <1>4, <2>8, <3>2 DEF ChainInv, N
      <4>2. f[u] = own[u] /\ own[u] # 0
        BY <1>3, <2>8, <3>2
      <4>3. s.scope[own[u]].num <= s.tok[u].num
        BY <1>1, <3>2, <4>2 DEF NumInv
      <4>4. e.scope[own[u]].num = s.scope[own[u]].num
        BY <1>2, <1>4, <4>1
      <4>5. e.tok[u] = s.tok[u]
        BY <1>2, <1>5, <3>2
      <4> QED BY <4>2, <4>3, <4>4, <4>5
    <3> QED BY <1>2, <3>1, <3>2
  <2>9. ASSUME NEW j \in DOMAIN e.scope
        PROVE  /\ \A u \in e.freed : e.scope[j].num # e.tok[u].num
               /\ \A u \in LiveIn(e) : f[u] = 0 => e.scope[j].num # e.tok[u].num
    <3>1. \A u \in e.freed : e.scope[j].num # e.tok[u].num
      BY <1>1, <1>2, <1>5 DEF NumInv
    <3>2. ASSUME NEW u \in LiveIn(e), f[u] = 0 PROVE e.scope[j].num # e.tok[u].num
      <4>1. u \in LiveIn(s) /\ own[u] = 0
        BY <1>2, <1>3, <1>4, <3>2
      <4> QED BY <1>1, <1>2, <1>5, <4>1 DEF NumInv
    <3> QED BY <3>1, <3>2
  <2> QED BY <2>3, <2>4, <2>5, <2>6, <2>7, <2>8, <2>9 DEF NumInv
<1>12. ApartInv(e, f, B)
  <2>1. B \subseteq DOMAIN e.tok
    BY <1>1, <1>2, <1>9 DEF ApartInv
  <2>2. ASSUME NEW u \in B \cap LiveIn(e), f[u] # 0 PROVE e.tok[u].num = e.scope[f[u]].num
    <3>1. CASE u = t
      <4>1. k = N
        BY <1>7, <2>2, <3>1
      <4>2. f[u] = N
        BY <1>3, <3>1, <4>1
      <4>3. e.tok[u].num = s.scope[N].num
        BY <1>2, <1>5, <3>1
      <4>4. e.scope[N].num = s.scope[N].num
        BY <1>2, <1>4
      <4> QED BY <4>2, <4>3, <4>4
    <3>2. CASE u # t
      <4>1. u \in A /\ u \in LiveIn(s) /\ f[u] = own[u]
        BY <1>2, <1>3, <1>9, <2>2, <3>2
      <4>2. own[u] \in 1 .. N
        BY <1>1, <1>4, <2>2, <4>1 DEF ChainInv, N
      <4>3. s.tok[u].num = s.scope[own[u]].num
        BY <1>1, <2>2, <4>1 DEF ApartInv
      <4>4. e.tok[u] = s.tok[u] /\ e.scope[own[u]].num = s.scope[own[u]].num
        BY <1>2, <1>4, <1>5, <4>1, <4>2
      <4> QED BY <4>1, <4>3, <4>4
    <3> QED BY <3>1, <3>2
  <2>3. ASSUME NEW u \in DOMAIN e.tok \ B, e.tok[u].kind = "func"
        PROVE  u \in LiveIn(e) /\ f[u] = 1
    <3>1. CASE u = t
      BY <1>2, <1>3, <1>8, <2>3, <3>1
    <3>2. CASE u # t
      <4>1. u \in DOMAIN s.tok \ A /\ s.tok[u].kind = "func"
        BY <1>2, <2>3, <3>2
      <4> QED BY <1>1, <1>2, <1>3, <4>1 DEF ApartInv
    <3> QED BY <3>1, <3>2
  <2> QED BY <2>1, <2>2, <2>3 DEF ApartInv
<1>13. Unique(e)
  <2>1. \A u \in LiveIn(s) : GlobalIn(e, u) <=> GlobalIn(s, u)
    BY <1>2, <1>5 DEF GlobalIn
  <2>2. ASSUME NEW u \in LiveIn(s), GlobalIn(e, u), GlobalIn(e, t) PROVE e.tok[u].name # e.tok[t].name
    <3>1. kind = "func" \/ (kind = "var" /\ Last(s.scope).num = 1)
      BY <1>2, <2>2 DEF GlobalIn
    <3> QED BY <1>2, <1>5, <2>1, <2>2, <3>1
  <2>3. ASSUME NEW u \in LiveIn(s), NEW v \in LiveIn(s), GlobalIn(e, u), GlobalIn(e, v),
               e.tok[u].name = e.tok[v].name
        PROVE  u = v
    BY <1>1, <1>2, <1>5, <2>1, <2>3 DEF Unique
  <2> QED BY <1>2, <2>2, <2>3 DEF Unique
<1> QED BY <1>6, <1>10, <1>11, <1>12, <1>13 DEF TableInv, e, f
-----------------------------------------------------------------------------
(* delscope *)

(* own once the innermost scope has been popped *)
OwnPop(s, own) == [x \in LiveIn(s) |-> IF own[x] = Len(s.scope) THEN 0 ELSE own[x]]

(* n_token after delscope ends the chain of the next scope, if that has one. *)
EndOf(s, own, k, t) ==
  /\ t \in Sym \cup {NULL}
  /\ t # NULL => k # 0 /\ t \in LiveIn(s) /\ own[t] = k /\ s.below[t] = NULL
  /\ t = NULL /\ k # 0 => s.scope[k].token = NULL

LEMMA OuterEndIs ==
  ASSUME NEW s, NEW d, NEW own, SizeInv(s), ChainInv(s, d, own), s.scope # <<>>
  PROVE  EndOf(s, own, Len(s.scope) - 1, OuterEnd(s))
<1> DEFINE k == Len(s.scope) - 1
           rest == Outer(s.scope)
           p == s.scope[k].token
           C == Members(own, k)
           z == OuterEnd(s)
<1>1. Len(s.scope) \in Nat \ {0} /\ s.scope \in Seq(ScopeRec)
  BY TableTypes
<1>2. /\ k \in 0 .. Len(s.scope) /\ rest \in Seq(ScopeRec) /\ Len(rest) = k
      /\ \A j \in 1 .. k : rest[j] = s.scope[j]
  BY <1>1 DEF Outer
<1>3. CASE k = 0
  <2>1. rest = <<>>
    <3> HIDE DEF rest, k
    <3> QED BY <1>2, <1>3
  <2>2. z = NULL
    BY <2>1 DEF OuterEnd
  <2> HIDE DEF k, z
  <2>3. EndOf(s, own, k, z)
    BY <1>3, <2>2 DEF EndOf
  <2> QED BY <2>3 DEF k, z
<1>4. CASE k # 0
  <2>1. rest # <<>> /\ Last(rest).token = p
    <3> HIDE DEF rest, k
    <3>1. rest # <<>> /\ k \in 1 .. k
      BY <1>2, <1>4
    <3> QED BY <1>2, <3>1 DEF Last, p
  <2>2. Linked(s.below, p, C)
    BY <1>2, <1>4 DEF ChainInv, Start
  <2>3. CASE p = NULL
    <3>1. z = NULL
      BY <2>1, <2>3 DEF OuterEnd
    <3>2. p = s.scope[k].token
      OBVIOUS
    <3> HIDE DEF k, z, p
    <3>3. EndOf(s, own, k, z)
      BY <1>4, <2>3, <3>1, <3>2 DEF EndOf
    <3> QED BY <3>3 DEF k, z
  <2>4. CASE p # NULL
    <3> HIDE DEF C, p
    <3>1. Chain(s.below, p) = C
      BY <2>2, ChainIs
    <3>2. z = CHOOSE t \in C : s.below[t] = NULL
      BY <2>1, <2>4, <3>1 DEF OuterEnd
    <3>3. \E t \in C : s.below[t] = NULL
      BY <2>2, <2>4, LinkedEnd
    <3>4. z \in C /\ s.below[z] = NULL
      BY <3>2, <3>3
    <3> HIDE DEF k, z
    <3>5. z \in LiveIn(s) /\ own[z] = k /\ z \in Sym /\ z # NULL
      <4>1. own \in [LiveIn(s) -> 0 .. Len(s.scope)]
        BY DEF ChainInv
      <4>2. z \in LiveIn(s) /\ own[z] = k
        BY <3>4, <4>1 DEF C, Members
      <4> QED BY <4>2, TableTypes, Places
    <3>6. EndOf(s, own, k, z)
      BY <1>4, <3>4, <3>5 DEF EndOf
    <3> QED BY <3>6 DEF k, z
  <2> QED BY <2>3, <2>4
<1> QED BY <1>3, <1>4

LEMMA PopTable ==
  ASSUME NEW s, NEW own, NEW A, TableInv(s, NULL, own, A), s.scope # <<>>
  PROVE  TableInv(Popped(s), Doomed(s), OwnPop(s, own), A)
<1> DEFINE e == Popped(s)
           d == Doomed(s)
           f == OwnPop(s, own)
           N == Len(s.scope)
           z == OuterEnd(s)
           m == N - 1
<1>1. SizeInv(s) /\ HashInv(s) /\ ChainInv(s, NULL, own) /\ NumInv(s, own) /\ ApartInv(s, own, A)
      /\ Unique(s)
  BY DEF TableInv
<1>2. EndOf(s, own, m, z)
  BY <1>1, OuterEndIs
<1>3. z \in Sym \cup {NULL}
  <2> HIDE DEF m, z
  <2> QED BY <1>2 DEF EndOf
<1>4. /\ e \in Tables
      /\ e.tok = s.tok /\ e.next = s.next /\ e.prev = s.prev /\ e.below = s.below
      /\ e.freed = s.freed /\ e.opened = s.opened /\ e.n_token = z
      /\ Len(e.scope) = m /\ DOMAIN e.scope = 1 .. m
      /\ \A k \in 1 .. m : e.scope[k] = s.scope[k]
      /\ LiveIn(e) = LiveIn(s)
  BY <1>1, <1>3, PopFields
<1>5. N \in Nat \ {0} /\ DOMAIN s.scope = 1 .. N /\ s.scope \in Seq(ScopeRec) /\ m \in Nat /\ N = m + 1
      /\ LiveIn(s) \subseteq DOMAIN s.tok
  BY <1>1, TableTypes
<1>6. f = [x \in LiveIn(s) |-> IF own[x] = N THEN 0 ELSE own[x]] /\ d = s.scope[N].token
  BY DEF OwnPop, Doomed, Last
<1>7. own \in [LiveIn(s) -> 0 .. N] /\ \A k \in 0 .. N : Linked(s.below, Start(s, NULL, k), Members(own, k))
  BY <1>1 DEF ChainInv
<1> HIDE DEF e, d, f, N, z, m
<1>8. \A x \in LiveIn(s) : own[x] \in 1 .. N
  <2>1. Start(s, NULL, 0) = NULL /\ Linked(s.below, Start(s, NULL, 0), Members(own, 0))
    BY <1>5, <1>7 DEF Start
  <2>2. Members(own, 0) = {}
    BY <2>1 DEF Linked
  <2> QED BY <1>5, <1>7, <2>2 DEF Members
<1>9. /\ f \in [LiveIn(s) -> 0 .. m]
      /\ \A x \in LiveIn(s) : /\ f[x] = 0 <=> own[x] = N
                              /\ f[x] # 0 => f[x] = own[x] /\ own[x] \in 1 .. m
                              /\ own[x] \in 1 .. m => f[x] = own[x]
  BY <1>5, <1>6, <1>8
<1>10. Members(f, 0) = Members(own, N) /\ \A k \in 1 .. m : Members(f, k) = Members(own, k)
  BY <1>5, <1>7, <1>9 DEF Members
<1>11. SizeInv(e)
  BY <1>1, <1>4 DEF SizeInv
<1>12. HashInv(e)
  BY <1>1, <1>4 DEF HashInv
<1>13. ChainInv(e, d, f)
  <2>1. ASSUME NEW k \in 0 .. m PROVE Linked(e.below, Start(e, d, k), Members(f, k))
    <3>1. CASE k = 0
      <4>1. Start(e, d, k) = Start(s, NULL, N)
        BY <1>5, <1>6, <3>1 DEF Start
      <4>2. Linked(s.below, Start(s, NULL, N), Members(own, N))
        BY <1>5, <1>7
      <4> QED BY <1>4, <1>10, <3>1, <4>1, <4>2
    <3>2. CASE k # 0
      <4>1. k \in 1 .. m /\ k \in 0 .. N
        BY <1>5, <3>2
      <4>2. Start(e, d, k) = Start(s, NULL, k) /\ Members(f, k) = Members(own, k)
        BY <1>4, <1>10, <3>2, <4>1 DEF Start
      <4> QED BY <1>4, <1>7, <4>1, <4>2
    <3> QED BY <3>1, <3>2
  <2>2. ASSUME z # NULL PROVE z \in LiveIn(s) /\ f[z] # 0 /\ s.below[z] = NULL /\ m # 0
    <3>1. m # 0 /\ z \in LiveIn(s) /\ own[z] = m /\ s.below[z] = NULL
      BY <1>2, <2>2 DEF EndOf
    <3> QED BY <1>5, <1>9, <3>1
  <2>3. ASSUME z = NULL, m # 0 PROVE s.scope[m].token = NULL
    BY <1>2, <2>3 DEF EndOf
  <2>4. e.scope # <<>> <=> m # 0
    BY <1>4, <1>5 DEF Tables
  <2>5. m # 0 => Last(e.scope) = s.scope[m]
    BY <1>4, <1>5 DEF Last
  <2> QED BY <1>4, <1>9, <2>1, <2>2, <2>3, <2>4, <2>5 DEF ChainInv
<1>14. NumInv(e, f)
  <2>1. \A k \in 1 .. N : s.scope[k].num \in Nat
    <3>1. \A k \in 1 .. N : s.scope[k] \in ScopeRec
      BY <1>5
    <3> QED BY <3>1 DEF ScopeRec
  <2>2. \A t \in DOMAIN s.tok : s.tok[t].num \in Nat
    <3>1. \A t \in DOMAIN s.tok : s.tok[t] \in TokRec
      BY <1>1, TableTypes
    <3> QED BY <3>1 DEF TokRec
  <2>3. \A j, k \in DOMAIN e.scope : j < k => e.scope[j].num < e.scope[k].num
    BY <1>1, <1>4, <1>5 DEF NumInv
  <2>4. \A k \in DOMAIN e.scope : e.scope[k].num <= e.opened
    BY <1>1, <1>4, <1>5 DEF NumInv
  <2>5. e.scope # <<>> => e.scope[1].num = 1
    <3>1. e.scope # <<>> => 1 \in 1 .. m
      BY <1>4, <1>5 DEF Tables
    <3> QED BY <1>1, <1>4, <3>1 DEF NumInv
  <2>6. \A t \in LiveIn(e) : f[t] # 0 => e.scope[f[t]].num <= e.tok[t].num
    BY <1>1, <1>4, <1>5, <1>9 DEF NumInv
  <2>7. ASSUME NEW k \in DOMAIN e.scope
        PROVE  /\ \A t \in e.freed : e.scope[k].num # e.tok[t].num
               /\ \A t \in LiveIn(e) : f[t] = 0 => e.scope[k].num # e.tok[t].num
    <3>1. k \in 1 .. m /\ k \in 1 .. N /\ N \in 1 .. N /\ k < N /\ e.scope[k] = s.scope[k]
      BY <1>4, <1>5
    <3>2. s.scope[k].num < s.scope[N].num
      BY <1>1, <1>5, <3>1 DEF NumInv
    <3>3. \A t \in e.freed : e.scope[k].num # e.tok[t].num
      BY <1>1, <1>4, <1>5, <3>1 DEF NumInv
    <3>4. ASSUME NEW t \in LiveIn(e), f[t] = 0 PROVE e.scope[k].num # e.tok[t].num
      <4>1. t \in LiveIn(s) /\ own[t] = N /\ N # 0 /\ t \in DOMAIN s.tok
        BY <1>4, <1>5, <1>9, <3>4
      <4>2. s.scope[N].num <= s.tok[t].num
        BY <1>1, <4>1 DEF NumInv
      <4>3. s.scope[k].num # s.tok[t].num
        BY <2>1, <2>2, <3>1, <3>2, <4>1, <4>2
      <4> QED BY <1>4, <3>1, <4>3
    <3> QED BY <3>3, <3>4
  <2> QED BY <1>1, <1>4, <2>3, <2>4, <2>5, <2>6, <2>7 DEF NumInv
<1>15. ApartInv(e, f, A)
  <2>1. \A t \in A \cap LiveIn(e) : f[t] # 0 => e.tok[t].num = e.scope[f[t]].num
    <3> SUFFICES ASSUME NEW t \in A \cap LiveIn(e), f[t] # 0
                 PROVE  e.tok[t].num = e.scope[f[t]].num
      OBVIOUS
    <3>1. t \in LiveIn(s) /\ f[t] = own[t] /\ own[t] \in 1 .. m /\ own[t] # 0
      BY <1>4, <1>5, <1>9
    <3>2. s.tok[t].num = s.scope[own[t]].num
      BY <1>1, <3>1 DEF ApartInv
    <3> QED BY <1>4, <3>1, <3>2
  <2>2. ASSUME e.scope # <<>>, NEW t \in DOMAIN e.tok \ A, e.tok[t].kind = "func"
        PROVE  t \in LiveIn(e) /\ f[t] = 1
    <3>1. 1 \in 1 .. m
      BY <1>4, <1>5, <2>2 DEF Tables
    <3>2. t \in LiveIn(s) /\ own[t] = 1
      BY <1>1, <1>4, <2>2 DEF ApartInv
    <3> QED BY <1>4, <1>9, <3>1, <3>2
  <2> QED BY <1>1, <1>4, <2>1, <2>2 DEF ApartInv
<1>16. Unique(e)
  BY <1>1, <1>4 DEF Unique, GlobalIn
<1> QED BY <1>11, <1>12, <1>13, <1>14, <1>15, <1>16 DEF TableInv, e, d, f

(* own without the symbol just freed *)
OwnLess(s, own, d) == [x \in LiveIn(s) \ {d} |-> own[x]]

LEMMA UnlinkTable ==
  ASSUME NEW s, NEW d, NEW own, NEW A, TableInv(s, d, own, A), d # NULL
  PROVE  TableInv(Unlink(s, d), s.below[d], OwnLess(s, own, d), A)
<1> DEFINE e == Unlink(s, d)
           f == OwnLess(s, own, d)
           q == s.prev[d]
           n == s.next[d]
           c == s.below[d]
           N == Len(s.scope)
<1>1. SizeInv(s) /\ HashInv(s) /\ ChainInv(s, d, own) /\ NumInv(s, own) /\ ApartInv(s, own, A)
      /\ Unique(s)
  BY DEF TableInv
<1>2. own \in [LiveIn(s) -> 0 .. N] /\ \A k \in 0 .. N : Linked(s.below, Start(s, d, k), Members(own, k))
  BY <1>1 DEF ChainInv
<1>3. N \in Nat /\ DOMAIN s.scope = 1 .. N /\ LiveIn(s) \subseteq DOMAIN s.tok /\ LiveIn(s) \subseteq Sym
      /\ LiveIn(s) \subseteq Int /\ Sym \cap Buckets = {} /\ NULL \notin Sym /\ s.freed \subseteq DOMAIN s.tok
  BY <1>1, TableTypes, Places DEF SizeInv
<1>4. d \in LiveIn(s) /\ own[d] = 0 /\ d \in Sym /\ d \in Int
  <2>1. Linked(s.below, d, Members(own, 0))
    BY <1>2, <1>3 DEF Start
  <2>2. d \in Members(own, 0)
    BY <2>1 DEF Linked
  <2> QED BY <1>2, <1>3, <2>2 DEF Members
<1>5. /\ q \in LiveIn(s) \cup Buckets /\ s.next[q] = d
      /\ q \in LiveIn(s) => d < q /\ Bucket(s.tok[q].name) = Bucket(s.tok[d].name)
      /\ q \in Buckets => q = Bucket(s.tok[d].name)
  BY <1>1, <1>4 DEF HashInv
<1>6. q \in Sym \cup Buckets /\ q # d
  <2>1. CASE q \in Buckets
    BY <1>3, <1>4, <2>1
  <2>2. CASE q \in LiveIn(s)
    <3>1. d < q /\ q \in Int
      BY <1>3, <1>5, <2>2
    <3> QED BY <1>3, <1>4, <2>2, <3>1
  <2> QED BY <1>5, <2>1, <2>2
<1>7. n # NULL => n \in LiveIn(s) /\ s.prev[n] = d
  BY <1>1, <1>4 DEF HashInv
<1>8. n # NULL => n < d /\ Bucket(s.tok[n].name) = Bucket(s.tok[d].name) /\ n # d
  <2> SUFFICES ASSUME n # NULL
               PROVE  n < d /\ Bucket(s.tok[n].name) = Bucket(s.tok[d].name) /\ n # d
    OBVIOUS
  <2>1. n < d /\ Bucket(s.tok[n].name) = Bucket(s.tok[d].name)
    BY <1>1, <1>4, <1>7 DEF HashInv
  <2>2. n \in Int
    BY <1>3, <1>7
  <2> QED BY <1>4, <2>1, <2>2
<1>9. /\ e \in Tables
      /\ e.tok = s.tok /\ e.scope = s.scope /\ e.n_token = s.n_token /\ e.opened = s.opened
      /\ e.freed = s.freed \cup {d} /\ LiveIn(e) = LiveIn(s) \ {d}
      /\ e.next[q] = n
      /\ \A p \in Sym \cup Buckets : p # d /\ p # q => e.next[p] = s.next[p]
      /\ \A u \in Sym : u # d => e.prev[u] = IF u = n THEN q ELSE s.prev[u]
      /\ \A u \in Sym : e.below[u] = IF u = d THEN NULL ELSE s.below[u]
  BY <1>1, <1>4, <1>6, UnlinkFields
<1>10. f = [x \in LiveIn(s) \ {d} |-> own[x]]
  BY DEF OwnLess
<1> HIDE DEF e, f, q, n, N
<1>11. f \in [LiveIn(e) -> 0 .. N] /\ \A u \in LiveIn(e) : f[u] = own[u]
  BY <1>2, <1>9, <1>10
<1>12. SizeInv(e)
  <2>1. e.freed \subseteq DOMAIN e.tok
    BY <1>3, <1>4, <1>9
  <2> QED BY <1>1, <1>9, <2>1 DEF SizeInv
<1>13. ASSUME NEW u \in LiveIn(e)
       PROVE  /\ e.prev[u] \in LiveIn(e) \cup Buckets /\ e.next[e.prev[u]] = u
              /\ e.prev[u] \in LiveIn(e)
                   => u < e.prev[u] /\ Bucket(e.tok[e.prev[u]].name) = Bucket(e.tok[u].name)
              /\ e.prev[u] \in Buckets => e.prev[u] = Bucket(e.tok[u].name)
  <2>1. u \in LiveIn(s) /\ u # d /\ u \in Sym /\ u # NULL /\ u \in Int
    BY <1>3, <1>9
  <2>2. CASE u = n
    <3>1. e.prev[u] = q /\ e.next[q] = u
      BY <1>9, <2>1, <2>2
    <3>2. q \in LiveIn(e) \cup Buckets
      BY <1>5, <1>6, <1>9
    <3>3. ASSUME q \in LiveIn(e)
          PROVE  u < q /\ Bucket(e.tok[q].name) = Bucket(e.tok[u].name)
      <4>1. q \in LiveIn(s) /\ q \in Int /\ d < q /\ u < d
        BY <1>3, <1>5, <1>8, <1>9, <2>1, <2>2, <3>3
      <4>2. u < q
        BY <1>4, <2>1, <4>1
      <4> QED BY <1>5, <1>8, <1>9, <2>1, <2>2, <4>1, <4>2
    <3>4. ASSUME q \in Buckets PROVE q = Bucket(e.tok[u].name)
      BY <1>5, <1>8, <1>9, <2>1, <2>2, <3>4
    <3> QED BY <3>1, <3>2, <3>3, <3>4
  <2>3. CASE u # n
    <3> DEFINE r == s.prev[u]
    <3>1. e.prev[u] = r
      BY <1>9, <2>1, <2>3
    <3>2. /\ r \in LiveIn(s) \cup Buckets /\ s.next[r] = u
          /\ r \in LiveIn(s) => u < r /\ Bucket(s.tok[r].name) = Bucket(s.tok[u].name)
          /\ r \in Buckets => r = Bucket(s.tok[u].name)
      BY <1>1, <2>1 DEF HashInv
    <3> HIDE DEF r
    <3>3. r # d /\ r # q
      BY <1>5, <2>1, <2>3, <3>2 DEF n
    <3>4. r \in Sym \cup Buckets /\ (r \in LiveIn(e) <=> r \in LiveIn(s))
      BY <1>3, <1>9, <3>2, <3>3
    <3>5. e.next[r] = u
      BY <1>9, <3>2, <3>3, <3>4
    <3> QED BY <1>9, <3>1, <3>2, <3>4, <3>5
  <2> QED BY <2>2, <2>3
<1>14. ASSUME NEW p \in LiveIn(e) \cup Buckets, e.next[p] # NULL
       PROVE  e.next[p] \in LiveIn(e) /\ e.prev[e.next[p]] = p
  <2>1. p # d /\ p \in Sym \cup Buckets /\ p \in LiveIn(s) \cup Buckets
    BY <1>3, <1>4, <1>9
  <2>2. CASE p = q
    <3>1. e.next[p] = n /\ n # NULL
      BY <1>9, <1>14, <2>2
    <3>2. n \in LiveIn(s) /\ n # d /\ n \in Sym
      BY <1>3, <1>7, <1>8, <3>1
    <3> QED BY <1>9, <2>2, <3>1, <3>2
  <2>3. CASE p # q
    <3> DEFINE w == s.next[p]
    <3>1. e.next[p] = w /\ w # NULL
      BY <1>9, <1>14, <2>1, <2>3
    <3>2. w \in LiveIn(s) /\ s.prev[w] = p
      BY <1>1, <2>1, <3>1 DEF HashInv
    <3> HIDE DEF w
    <3>3. w # d /\ w # n /\ w \in Sym
      BY <1>3, <1>7, <2>1, <2>3, <3>1, <3>2 DEF q
    <3> QED BY <1>9, <3>1, <3>2, <3>3
  <2> QED BY <2>2, <2>3
<1>15. HashInv(e)
  BY <1>13, <1>14 DEF HashInv
<1>16. ChainInv(e, c, f)
  <2>0. /\ DOMAIN f = DOMAIN own \ {d} /\ d \in DOMAIN own /\ own[d] = 0
        /\ \A u \in DOMAIN f : f[u] = own[u]
    BY <1>2, <1>4, <1>9, <1>11
  <2>1. \A k : k # 0 => Members(f, k) = Members(own, k)
    BY ONLY <2>0 DEF Members
  <2>2. Members(f, 0) = Members(own, 0) \ {d}
    BY ONLY <2>0 DEF Members
  <2>3. \A k : Members(own, k) \subseteq Sym
    BY <1>2, <1>3 DEF Members
  <2>4. ASSUME NEW k \in 0 .. N PROVE Linked(e.below, Start(e, c, k), Members(f, k))
    <3> DEFINE C == Members(own, k)
               p == Start(s, d, k)
    <3>1. Linked(s.below, p, C) /\ C \subseteq Sym
      BY <1>2, <2>3
    <3>2. CASE k = 0
      <4>1. p = d /\ Start(e, c, k) = c
        BY <3>2 DEF Start
      <4>2. \A u \in C : u # p => e.below[u] = s.below[u]
        BY <1>9, <3>1, <4>1
      <4>3. Members(f, k) = C \ {p} /\ c = s.below[p] /\ p # NULL
        BY <2>2, <3>2, <4>1
      <4> HIDE DEF C, p
      <4>4. Linked(e.below, s.below[p], C \ {p})
        BY <3>1, <4>2, <4>3, LinkedTail
      <4> QED BY <4>1, <4>3, <4>4
    <3>3. CASE k # 0
      <4>1. Start(e, c, k) = p /\ Members(f, k) = C
        BY <1>9, <2>1, <3>3 DEF Start
      <4>2. \A u \in C : e.below[u] = s.below[u]
        BY <1>4, <1>9, <3>1, <3>3 DEF Members
      <4> HIDE DEF C, p
      <4>3. Linked(e.below, p, C)
        BY <3>1, <4>2, LinkedSame
      <4> QED BY <4>1, <4>3
    <3> QED BY <3>2, <3>3
  <2>5. ASSUME e.n_token # NULL
        PROVE  e.n_token \in LiveIn(e) /\ f[e.n_token] # 0 /\ e.below[e.n_token] = NULL
    <3>1. s.n_token \in LiveIn(s) /\ own[s.n_token] # 0 /\ s.below[s.n_token] = NULL
      BY <1>1, <1>9, <2>5 DEF ChainInv
    <3> QED BY <1>3, <1>4, <1>9, <1>11, <3>1
  <2>6. N = Len(e.scope)
    BY <1>9 DEF N
  <2> HIDE DEF c
  <2> QED BY <1>1, <1>9, <1>11, <2>4, <2>5, <2>6 DEF ChainInv
<1>17. NumInv(e, f)
  <2>1. \A t \in LiveIn(e) : t \in LiveIn(s) /\ f[t] = own[t]
    BY <1>9, <1>11
  <2>2. \A t \in LiveIn(e) : f[t] # 0 => e.scope[f[t]].num <= e.tok[t].num
    BY <1>1, <1>9, <2>1 DEF NumInv
  <2>3. ASSUME NEW k \in DOMAIN e.scope
        PROVE  /\ \A t \in e.freed : e.scope[k].num # e.tok[t].num
               /\ \A t \in LiveIn(e) : f[t] = 0 => e.scope[k].num # e.tok[t].num
    BY <1>1, <1>4, <1>9, <2>1 DEF NumInv
  <2> QED BY <1>1, <1>9, <2>2, <2>3 DEF NumInv
<1>18. ApartInv(e, f, A)
  <2>1. \A t \in A \cap LiveIn(e) : f[t] # 0 => e.tok[t].num = e.scope[f[t]].num
    BY <1>1, <1>9, <1>11 DEF ApartInv
  <2>2. ASSUME e.scope # <<>>, NEW t \in DOMAIN e.tok \ A, e.tok[t].kind = "func"
        PROVE  t \in LiveIn(e) /\ f[t] = 1
    <3>1. t \in LiveIn(s) /\ own[t] = 1
      BY <1>1, <1>9, <2>2 DEF ApartInv
    <3>2. t # d
      BY <1>4, <3>1
    <3>3. t \in LiveIn(e)
      BY <1>9, <3>1, <3>2
    <3> QED BY <1>11, <3>1, <3>3
  <2> QED BY <1>1, <1>9, <2>1, <2>2 DEF ApartInv
<1>19. Unique(e)
  BY <1>1, <1>9 DEF Unique, GlobalIn
<1> QED BY <1>12, <1>15, <1>16, <1>17, <1>18, <1>19 DEF TableInv, e, f, c
-----------------------------------------------------------------------------
(* Looking up, and entering what was not found *)

LEMMA NotInTable ==
  ASSUME NEW s, SizeInv(s), HashInv(s), NEW name \in AllNames, ~LookAll(s, 1, name)
  PROVE  \A u \in LiveIn(s) : GlobalIn(s, u) => s.tok[u].name # name
<1> DEFINE b == Bucket(name)
<1>1. b \in Buckets
  BY Places
<1> HIDE DEF b
<1>2. Chain(s.next, s.next[b]) = {t \in LiveIn(s) : Bucket(s.tok[t].name) = b}
  BY <1>1, BucketIs
<1>3. ASSUME NEW u \in LiveIn(s), GlobalIn(s, u), s.tok[u].name = name PROVE FALSE
  <2>1. Bucket(s.tok[u].name) = b
    BY <1>3 DEF b
  <2>2. u \in Chain(s.next, s.next[b])
    BY <1>2, <2>1
  <2>3. Matches(s, u, 1, name)
    BY <1>3 DEF GlobalIn, Matches
  <2> QED BY <2>2, <2>3 DEF LookAll, b
<1> QED BY <1>3

(* In the global scope every live symbol is in the chain that is searched. *)
LEMMA NotInScope ==
  ASSUME NEW s, NEW own, NEW A, TableInv(s, NULL, own, A), s.scope # <<>>,
         Last(s.scope).num = 1, NEW name, ~LookScope(s, 1, name)
  PROVE  \A u \in LiveIn(s) : GlobalIn(s, u) => s.tok[u].name # name
<1> DEFINE N == Len(s.scope)
           p == s.scope[N].token
           C == Members(own, N)
<1>1. SizeInv(s) /\ ChainInv(s, NULL, own) /\ NumInv(s, own)
  BY DEF TableInv
<1>2. N \in Nat \ {0} /\ DOMAIN s.scope = 1 .. N /\ s.scope \in Seq(ScopeRec)
  BY <1>1, TableTypes
<1>3. own \in [LiveIn(s) -> 0 .. N] /\ \A k \in 0 .. N : Linked(s.below, Start(s, NULL, k), Members(own, k))
  BY <1>1 DEF ChainInv
<1>4. N = 1
  <2>1. s.scope[1].num = 1 /\ s.scope[N].num = 1
    BY <1>1 DEF NumInv, Last
  <2>2. 1 < N => s.scope[1].num < s.scope[N].num
    BY <1>1, <1>2 DEF NumInv
  <2> HIDE DEF N
  <2>3. ~ (1 < N)
    BY <2>1, <2>2
  <2> QED BY <1>2, <2>3
<1>5. Members(own, 0) = {}
  <2>1. Start(s, NULL, 0) = NULL /\ Linked(s.below, Start(s, NULL, 0), Members(own, 0))
    BY <1>2, <1>3 DEF Start
  <2> QED BY <2>1 DEF Linked
<1>6. C = LiveIn(s)
  BY <1>3, <1>4, <1>5 DEF Members
<1>7. Linked(s.below, p, C)
  BY <1>2, <1>3 DEF Start
<1>8. p = Last(s.scope).token
  BY DEF Last
<1> HIDE DEF p, C
<1>9. Chain(s.below, p) = LiveIn(s)
  BY <1>6, <1>7, ChainIs
<1>10. ASSUME NEW u \in LiveIn(s), GlobalIn(s, u), s.tok[u].name = name PROVE FALSE
  <2>1. Matches(s, u, 1, name)
    BY <1>10 DEF GlobalIn, Matches
  <2> QED BY <1>8, <1>9, <2>1 DEF LookScope
<1> QED BY <1>10

(* What a handler of semantic.c finds after it has entered a symbol or      *)
(* refused it: the table is e, own is f and the symbols apart are B.        *)
Entered(s, own, e, f, B) ==
  /\ TableInv(e, NULL, f, B)
  /\ Len(e.scope) = Len(s.scope) /\ e.opened = s.opened /\ Len(e.tok) <= Len(s.tok) + 1
  /\ s.scope[1].token # NULL => e.scope[1].token # NULL
  /\ e.n_token # NULL => f[e.n_token] = Home(s, own)
  /\ s.n_token # NULL => e.n_token # NULL

(* What is needed to enter one. *)
MayEnter(s, own, A, name) ==
  /\ TableInv(s, NULL, own, A) /\ s.scope # <<>> /\ Len(s.tok) < MaxSyms /\ name \in AllNames

(* The symbols apart become B: none but a new one is added, and only when it *)
(* goes to the chain of its own scope.                                       *)
ApartBecomes(s, own, e, A, B) ==
  /\ A \subseteq B /\ B \subseteq A \cup (DOMAIN e.tok \ DOMAIN s.tok)
  /\ New(s) \in B => Home(s, own) = Len(s.scope)

LEMMA Refused ==
  ASSUME NEW s, NEW own, NEW A, NEW B, NEW name, MayEnter(s, own, A, name),
         ApartBecomes(s, own, s, A, B)
  PROVE  Entered(s, own, s, own, B)
<1>1. B = A /\ TableInv(s, NULL, own, A)
  BY DEF MayEnter, ApartBecomes
<1>2. Len(s.tok) \in Nat
  BY <1>1, TableTypes DEF TableInv
<1> QED BY <1>1, <1>2 DEF Entered, Home

LEMMA Accepted ==
  ASSUME NEW s, NEW own, NEW A, NEW B, NEW name, MayEnter(s, own, A, name),
         NEW kind \in {"var", "func", "struct"}, NEW e, e = ensymbol(s, name, kind),
         ApartBecomes(s, own, e, A, B),
         kind = "func" /\ New(s) \notin B => Home(s, own) = 1,
         kind = "func" \/ (kind = "var" /\ Last(s.scope).num = 1)
           => \A u \in LiveIn(s) : GlobalIn(s, u) => s.tok[u].name # name
  PROVE  /\ Entered(s, own, e, OwnWith(s, own), B)
         /\ e.n_token # NULL /\ (s.n_token = NULL /\ Len(s.scope) = 1 => e.scope[1].token # NULL)
<1> DEFINE t == Len(s.tok) + 1
           f == OwnWith(s, own)
<1>1. TableInv(s, NULL, own, A) /\ s.scope # <<>> /\ Len(s.tok) < MaxSyms /\ name \in AllNames
  BY DEF MayEnter
<1>2. SizeInv(s) /\ ChainInv(s, NULL, own)
  BY <1>1 DEF TableInv
<1>3. /\ Len(e.scope) = Len(s.scope) /\ DOMAIN e.scope = DOMAIN s.scope
      /\ t \in Sym /\ e.n_token = t /\ Len(e.tok) = t /\ e.opened = s.opened
      /\ DOMAIN e.tok = DOMAIN s.tok \cup {t} /\ t \notin DOMAIN s.tok
      /\ \A k \in DOMAIN s.scope :
           e.scope[k].token = IF s.n_token = NULL /\ k = Len(s.scope) THEN t
                              ELSE s.scope[k].token
  BY <1>1, <1>2, EnFields
<1>4. t = New(s) /\ t # NULL
  BY <1>3, Places DEF New
<1>5. A \subseteq B /\ B \subseteq A \cup {Len(s.tok) + 1}
  BY <1>3 DEF ApartBecomes
<1>6. Len(s.tok) + 1 \in B => Home(s, own) = Len(s.scope)
  BY <1>4 DEF ApartBecomes
<1>7. kind = "func" /\ Len(s.tok) + 1 \notin B => Home(s, own) = 1
  BY <1>4
<1>8. TableInv(e, NULL, f, B)
  BY <1>1, <1>5, <1>6, <1>7, EnTable
<1>9. f[t] = Home(s, own)
  <2>1. OwnGrows(s, own, New(s), Home(s, own), f)
    BY <1>1, <1>2, OwnWithIs
  <2> HIDE DEF t, f
  <2> QED BY <1>4, <2>1 DEF OwnGrows
<1>10. 1 \in DOMAIN s.scope /\ Len(s.tok) + 1 \in Int
  BY <1>1, <1>2, TableTypes
<1> HIDE DEF f
<1>11. s.scope[1].token # NULL => e.scope[1].token # NULL
  BY <1>3, <1>4, <1>10
<1>12. s.n_token = NULL /\ Len(s.scope) = 1 => e.scope[1].token # NULL
  BY <1>3, <1>4, <1>10
<1>13. Entered(s, own, e, f, B)
  BY <1>3, <1>4, <1>8, <1>9, <1>10, <1>11 DEF Entered
<1> QED BY <1>3, <1>4, <1>12, <1>13 DEF f

LEMMA VariEnters ==
  ASSUME NEW s, NEW own, NEW A, NEW B, NEW name, MayEnter(s, own, A, name),
         NEW e, e = pro_vari(s, name), ApartBecomes(s, own, e, A, B)
  PROVE  \E f : Entered(s, own, e, f, B)
<1>1. CASE LookScope(s, 1, name)
  <2>1. e = s
    BY <1>1 DEF pro_vari
  <2> QED BY <2>1, Refused
<1>2. CASE ~LookScope(s, 1, name)
  <2>1. e = ensymbol(s, name, "var")
    BY <1>2 DEF pro_vari
  <2>2. TableInv(s, NULL, own, A) /\ s.scope # <<>>
    BY DEF MayEnter
  <2>3. Last(s.scope).num = 1 => \A u \in LiveIn(s) : GlobalIn(s, u) => s.tok[u].name # name
    BY <1>2, <2>2, NotInScope
  <2>4. Entered(s, own, e, OwnWith(s, own), B)
    BY <2>1, <2>3, Accepted
  <2> QED BY <2>4
<1> QED BY <1>1, <1>2

LEMMA FuncEnters ==
  ASSUME NEW s, NEW own, NEW A, NEW B, NEW name, MayEnter(s, own, A, name),
         NEW e, e = pro_func(s, name), ApartBecomes(s, own, e, A, B),
         New(s) \in DOMAIN e.tok \ B => Home(s, own) = 1
  PROVE  \E f : Entered(s, own, e, f, B)
<1>1. CASE LookAll(s, 1, name)
  <2>1. e = s
    BY <1>1 DEF pro_func
  <2> QED BY <2>1, Refused
<1>2. CASE ~LookAll(s, 1, name)
  <2>1. e = ensymbol(s, name, "func")
    BY <1>2 DEF pro_func
  <2>2. /\ SizeInv(s) /\ HashInv(s) /\ name \in AllNames /\ s.scope # <<>> /\ Len(s.tok) < MaxSyms
    BY DEF MayEnter, TableInv
  <2>3. \A u \in LiveIn(s) : GlobalIn(s, u) => s.tok[u].name # name
    BY <1>2, <2>2, NotInTable
  <2>4. DOMAIN e.tok = DOMAIN s.tok \cup {New(s)}
    BY <2>1, <2>2, EnFields DEF New
  <2>5. Entered(s, own, e, OwnWith(s, own), B)
    BY <2>1, <2>3, <2>4, Accepted
  <2> QED BY <2>5
<1> QED BY <1>1, <1>2

LEMMA StruEnters ==
  ASSUME NEW s, NEW own, NEW A, NEW B, NEW name, MayEnter(s, own, A, name),
         NEW e, e = pro_stru(s, name), ApartBecomes(s, own, e, A, B)
  PROVE  \E f : Entered(s, own, e, f, B)
<1>1. CASE name # Hidden /\ LookScope(s, 0, name)
  <2>1. e = s
    BY <1>1 DEF pro_stru
  <2> QED BY <2>1, Refused
<1>2. CASE ~(name # Hidden /\ LookScope(s, 0, name))
  <2>1. e = ensymbol(s, name, "struct")
    BY <1>2 DEF pro_stru
  <2>2. Entered(s, own, e, OwnWith(s, own), B)
    BY <2>1, Accepted
  <2> QED BY <2>2
<1> QED BY <1>1, <1>2
-----------------------------------------------------------------------------
(* The steps of semantic.c *)

(* While something is read, one handler stands for each open scope. *)
LEMMA ReadingState ==
  ASSUME NEW s, NEW d, NEW c, NEW A, NEW own, StateInv(s, d, c, A, own),
         c # <<>>, Last(c).want # "free"
  PROVE  /\ d = NULL /\ TableInv(s, NULL, own, A)
         /\ Len(c) \in Nat \ {0} /\ Len(s.scope) = Len(c) /\ s.scope # <<>> /\ s.scope \in Seq(ScopeRec)
         /\ c \in Seq(Frames) /\ Last(c) = c[Len(c)] /\ Last(c) \in Frames
         /\ s.scope[1].token # NULL
         /\ Last(c).split => Home(s, own) = Len(s.scope)
         /\ (\A k \in 2 .. Len(c) : ~c[k].split) => s.n_token # NULL /\ Home(s, own) = 1
<1>1. TableInv(s, d, own, A) /\ FrameInv(s, d, c) /\ TailInv(s, c, own)
  BY DEF StateInv
<1>2. c \in Seq(Frames) /\ d = NULL /\ Len(c) = Len(s.scope)
  <2>1. Len(s.scope) \in Nat
    BY <1>1, TableTypes DEF TableInv
  <2> QED BY <1>1, <2>1 DEF FrameInv
<1>3. Len(c) \in Nat \ {0} /\ Last(c) = c[Len(c)]
  BY <1>2 DEF Last
<1>4. Last(c) \in Frames
  BY <1>2, <1>3
<1>5. s.scope # <<>> /\ s.scope \in Seq(ScopeRec)
  <2>1. s.scope \in Seq(ScopeRec)
    BY <1>1, TableTypes DEF TableInv
  <2> QED BY <1>2, <1>3, <2>1
<1>6. Last(c).split => Home(s, own) = Len(s.scope)
  BY <1>1 DEF TailInv, Home
<1>7. (\A k \in 2 .. Len(c) : ~c[k].split) => s.n_token # NULL /\ Home(s, own) = 1
  BY <1>1 DEF TailInv, Home
<1>8. s.scope[1].token # NULL
  BY <1>1, <1>5 DEF TailInv
<1> QED BY <1>1, <1>2, <1>3, <1>4, <1>5, <1>6, <1>7, <1>8

(* A scope is opened and its handler begins. *)
LEMMA PushState ==
  ASSUME NEW s, NEW d, NEW c, NEW A, NEW own, StateInv(s, d, c, A, own),
         c # <<>>, Last(c).want # "free", s.opened < MaxScopes,
         NEW g \in Frames, ~g.split, g.want # "free", g.kind # "global", g.kind # "header",
         g.kind = "type" => Len(c) = 1
  PROVE  StateInv(addscope(s), d, Append(c, g), A, own)
<1> DEFINE e == addscope(s)
           h == Append(c, g)
<1>1. /\ d = NULL /\ TableInv(s, NULL, own, A)
      /\ Len(c) \in Nat \ {0} /\ Len(s.scope) = Len(c) /\ s.scope # <<>> /\ s.scope \in Seq(ScopeRec)
      /\ c \in Seq(Frames) /\ s.scope[1].token # NULL
  BY ReadingState
<1>2. TableInv(e, NULL, own, A)
  BY <1>1, AddTable
<1>3. /\ e.n_token = s.n_token
      /\ e.scope = Append(s.scope, [token |-> NULL, num |-> s.opened + 1])
  BY <1>1, TableTypes, AddFields DEF TableInv
<1>4. Len(e.scope) = Len(c) + 1 /\ e.scope[1] = s.scope[1]
  BY <1>1, <1>3
<1>5. /\ h \in Seq(Frames) /\ Len(h) = Len(c) + 1 /\ h[Len(c) + 1] = g /\ h # <<>>
      /\ DOMAIN h = 1 .. Len(c) + 1 /\ DOMAIN c = 1 .. Len(c)
      /\ \A k \in 1 .. Len(c) : h[k] = c[k]
  BY <1>1
<1>6. Last(h) = g
  BY <1>5 DEF Last
<1> HIDE DEF e, h
<1>7. \A k \in DOMAIN c : /\ k = 1 <=> c[k].kind = "global"
                          /\ c[k].kind \in {"type", "header"} => k = 2
                          /\ c[k].want = "free" => k = Len(c)
  BY DEF StateInv, FrameInv
<1>8. \A k \in DOMAIN c : c[k].want # "free"
  BY <1>1, <1>7 DEF Last
<1>9. FrameInv(e, NULL, h)
  <2>1. ASSUME NEW k \in DOMAIN h
        PROVE  /\ k = 1 <=> h[k].kind = "global"
               /\ h[k].kind \in {"type", "header"} => k = 2
               /\ h[k].want # "free"
    <3>1. CASE k = Len(c) + 1
      BY <1>1, <1>5, <3>1
    <3>2. CASE k # Len(c) + 1
      <4>1. k \in DOMAIN c /\ h[k] = c[k]
        BY <1>1, <1>5, <3>2
      <4> QED BY <1>7, <1>8, <4>1
    <3> QED BY <3>1, <3>2
  <2> QED BY <1>4, <1>5, <1>6, <2>1 DEF FrameInv
<1>10. TailInv(e, h, own)
  <2>1. e.scope[1].token # NULL
    BY <1>1, <1>4
  <2>2. ASSUME \A k \in 2 .. Len(h) : ~h[k].split
        PROVE  e.n_token # NULL /\ own[e.n_token] = 1
    <3>1. \A k \in 2 .. Len(c) : ~c[k].split
      BY <1>1, <1>5, <2>2
    <3> QED BY <1>3, <3>1 DEF StateInv, TailInv
  <2> QED BY <1>6, <2>1, <2>2 DEF TailInv
<1> QED BY <1>1, <1>2, <1>9, <1>10 DEF StateInv, e, h

(* A symbol is entered or refused, and the handler goes on as g. *)
LEMMA EnterState ==
  ASSUME NEW s, NEW d, NEW c, NEW A, NEW own, StateInv(s, d, c, A, own),
         c # <<>>, Last(c).want # "free",
         NEW e, NEW f, NEW B, Entered(s, own, e, f, B),
         NEW g \in Frames, g.want # "free", g.split = Last(c).split,
         g.kind = "global" <=> Last(c).kind = "global",
         g.kind \in {"type", "header"} => Last(c).kind \in {"type", "header"}
  PROVE  StateInv(e, d, [c EXCEPT ![Len(c)] = g], B, f)
<1> DEFINE h == [c EXCEPT ![Len(c)] = g]
<1>1. /\ d = NULL /\ TableInv(s, NULL, own, A)
      /\ Len(c) \in Nat \ {0} /\ Len(s.scope) = Len(c) /\ s.scope # <<>> /\ s.scope \in Seq(ScopeRec)
      /\ c \in Seq(Frames) /\ Last(c) = c[Len(c)] /\ s.scope[1].token # NULL
  BY ReadingState
<1>0. /\ Last(c).split => Home(s, own) = Len(s.scope)
      /\ (\A k \in 2 .. Len(c) : ~c[k].split) => s.n_token # NULL /\ Home(s, own) = 1
  BY ReadingState
<1>2. /\ TableInv(e, NULL, f, B) /\ Len(e.scope) = Len(c) /\ e.scope[1].token # NULL
      /\ e.n_token # NULL => f[e.n_token] = Home(s, own)
      /\ s.n_token # NULL => e.n_token # NULL
  BY <1>1 DEF Entered
<1>3. /\ h \in Seq(Frames) /\ Len(h) = Len(c) /\ h[Len(c)] = g /\ h # <<>>
      /\ DOMAIN h = 1 .. Len(c) /\ DOMAIN c = 1 .. Len(c)
      /\ \A k \in 1 .. Len(c) : k # Len(c) => h[k] = c[k]
  BY <1>1
<1>4. Last(h) = g
  BY <1>3 DEF Last
<1> HIDE DEF h
<1>5. \A k \in DOMAIN c : /\ k = 1 <=> c[k].kind = "global"
                          /\ c[k].kind \in {"type", "header"} => k = 2
                          /\ c[k].want = "free" => k = Len(c)
  BY DEF StateInv, FrameInv
<1>6. FrameInv(e, NULL, h)
  <2>1. ASSUME NEW k \in DOMAIN h
        PROVE  /\ k = 1 <=> h[k].kind = "global"
               /\ h[k].kind \in {"type", "header"} => k = 2
               /\ h[k].want # "free"
    <3>0. k \in DOMAIN c
      BY <1>3
    <3>1. CASE k = Len(c)
      <4>1. h[k] = g /\ Last(c) = c[k]
        BY <1>1, <1>3, <3>1
      <4>2. /\ g.kind = "global" <=> c[k].kind = "global"
            /\ g.kind \in {"type", "header"} => c[k].kind \in {"type", "header"}
        BY <4>1
      <4> QED BY <1>5, <3>0, <4>1, <4>2
    <3>2. CASE k # Len(c)
      <4>1. h[k] = c[k] /\ c[k].want # "free"
        BY <1>3, <1>5, <3>0, <3>2
      <4> QED BY <1>5, <3>0, <4>1
    <3> QED BY <3>1, <3>2
  <2>2. Len(h) = Len(e.scope) + 0
    <3>1. Len(h) \in Nat /\ Len(h) = Len(e.scope)
      BY <1>1, <1>2, <1>3
    <3> QED BY ONLY <3>1
  <2> QED BY <1>3, <1>4, <2>1, <2>2 DEF FrameInv
<1>7. TailInv(e, h, f)
  <2>1. ASSUME Last(h).split, e.n_token # NULL PROVE f[e.n_token] = Len(e.scope)
    BY <1>0, <1>1, <1>2, <1>4, <2>1
  <2>2. ASSUME \A k \in 2 .. Len(h) : ~h[k].split
        PROVE  e.n_token # NULL /\ f[e.n_token] = 1
    <3>1. ASSUME NEW k \in 2 .. Len(c) PROVE ~c[k].split
      <4>0. Len(c) \in Nat /\ Len(h) = Len(c)
        BY <1>1, <1>3
      <4>1. k \in 2 .. Len(h) /\ k \in 1 .. Len(c)
        BY ONLY <4>0, k \in 2 .. Len(c)
      <4>2. ~h[k].split
        BY <2>2, <4>1
      <4>3. CASE k = Len(c)
        <5>0. h[Len(c)] = g
          BY <1>3
        <5>1. h[Len(c)] = g /\ Last(c) = c[Len(c)]
          BY ONLY <5>0 DEF Last
        <5>2. h[k] = g /\ Last(c) = c[k]
          BY ONLY <4>3, <5>1, Zenon
        <5> QED BY <4>2, <5>2
      <4>4. CASE k # Len(c)
        BY <1>3, <4>1, <4>2, <4>4
      <4> QED BY <4>3, <4>4
    <3> QED BY <1>0, <1>2, <3>1
  <2> QED BY <1>2, <1>4, <2>1, <2>2 DEF TailInv
<1> QED BY <1>1, <1>2, <1>6, <1>7 DEF StateInv, h

(* While symbols are freed, their scope is no longer open. *)
LEMMA FreeingState ==
  ASSUME NEW s, NEW d, NEW c, NEW A, NEW own, StateInv(s, d, c, A, own),
         c # <<>>, Last(c).want = "free"
  PROVE  /\ TableInv(s, d, own, A)
         /\ Len(c) \in Nat \ {0} /\ Len(s.scope) = Len(c) - 1 /\ s.scope \in Seq(ScopeRec)
         /\ c \in Seq(Frames) /\ Last(c) = c[Len(c)] /\ Last(c) \in Frames
         /\ s.scope # <<>> => s.scope[1].token # NULL
         /\ Home(s, own) = Len(s.scope)
<1>1. TableInv(s, d, own, A) /\ FrameInv(s, d, c) /\ TailInv(s, c, own)
  BY DEF StateInv
<1>2. s.scope \in Seq(ScopeRec) /\ Len(s.scope) \in Nat
  BY <1>1, TableTypes DEF TableInv
<1>3. c \in Seq(Frames) /\ Len(c) = Len(s.scope) + 1
  BY <1>1 DEF FrameInv
<1>4. Len(c) \in Nat \ {0} /\ Len(s.scope) = Len(c) - 1 /\ Last(c) = c[Len(c)]
  BY <1>2, <1>3 DEF Last
<1>5. Last(c) \in Frames
  BY <1>3, <1>4
<1>6. s.n_token # NULL => own[s.n_token] = Len(s.scope)
  BY <1>1 DEF TailInv
<1>7. s.scope # <<>> => s.scope[1].token # NULL
  BY <1>1 DEF TailInv
<1> QED BY <1>1, <1>2, <1>3, <1>4, <1>5, <1>6, <1>7 DEF Home

(* The loop of delscope is done and the handler of the outer scope goes on. *)
BackTo(c, h) ==
  /\ h \in Seq(Frames) /\ Len(h) = Len(c) - 1
  /\ \A k \in 1 .. Len(h) : k # Len(h) => h[k] = c[k]
  /\ h # <<>> => /\ h[Len(h)].split /\ h[Len(h)].want # "free"
                 /\ h[Len(h)].kind = "global" <=> c[Len(h)].kind = "global"
                 /\ h[Len(h)].kind \in {"type", "header"} => c[Len(h)].kind \in {"type", "header"}

LEMMA BackState ==
  ASSUME NEW s, NEW c, NEW A, NEW own, StateInv(s, NULL, c, A, own),
         c # <<>>, Last(c).want = "free", NEW e, NEW f, NEW B, TableInv(e, NULL, f, B),
         Len(e.scope) = Len(s.scope), s.scope # <<>> => e.scope[1].token # NULL,
         e.n_token # NULL => f[e.n_token] = Len(s.scope), NEW h, BackTo(c, h)
  PROVE  StateInv(e, NULL, h, B, f)
<1> DEFINE m == Len(h)
<1>1. /\ Len(c) \in Nat \ {0} /\ Len(s.scope) = Len(c) - 1 /\ s.scope \in Seq(ScopeRec)
      /\ c \in Seq(Frames)
  BY FreeingState
<1>2. /\ h \in Seq(Frames) /\ m = Len(c) - 1
      /\ \A k \in 1 .. m : k # m => h[k] = c[k]
      /\ h # <<>> => /\ h[m].split /\ h[m].want # "free"
                     /\ h[m].kind = "global" <=> c[m].kind = "global"
                     /\ h[m].kind \in {"type", "header"} => c[m].kind \in {"type", "header"}
  BY DEF BackTo
<1>3. m \in Nat /\ DOMAIN h = 1 .. m /\ DOMAIN c = 1 .. m + 1 /\ Len(e.scope) = m /\ Len(c) = m + 1
      /\ (h # <<>> <=> m # 0) /\ Last(h) = h[m]
  BY <1>1, <1>2 DEF Last
<1>4. \A k \in DOMAIN c : /\ k = 1 <=> c[k].kind = "global"
                          /\ c[k].kind \in {"type", "header"} => k = 2
                          /\ c[k].want = "free" => k = Len(c)
  BY DEF StateInv, FrameInv
<1>5. e.scope \in Seq(ScopeRec) /\ ChainInv(e, NULL, f)
  BY TableTypes DEF TableInv
<1>6. e.scope # <<>> <=> m # 0
  BY <1>3, <1>5
<1> HIDE DEF m
<1>7. FrameInv(e, NULL, h)
  <2>1. ASSUME NEW k \in DOMAIN h
        PROVE  /\ k = 1 <=> h[k].kind = "global"
               /\ h[k].kind \in {"type", "header"} => k = 2
               /\ h[k].want # "free"
    <3>1. k \in 1 .. m /\ k \in DOMAIN c /\ k # Len(c) /\ m # 0
      BY <1>3
    <3>2. CASE k = m
      BY <1>2, <1>3, <1>4, <3>1, <3>2
    <3>3. CASE k # m
      BY <1>2, <1>4, <3>1, <3>3
    <3> QED BY <3>2, <3>3
  <2>2. h # <<>> => Last(h).want # "free"
    BY <1>2, <1>3
  <2>3. m = Len(e.scope) + 0 /\ m = Len(h)
    BY <1>3 DEF m
  <2> QED BY <1>2, <2>1, <2>2, <2>3 DEF FrameInv
<1>8. TailInv(e, h, f)
  <2>1. e.scope # <<>> => e.scope[1].token # NULL
    <3>1. s.scope # <<>> <=> m # 0
      BY <1>1, <1>3
    <3> QED BY <1>6, <3>1
  <2>2. e.n_token # NULL => f[e.n_token] = Len(e.scope)
    OBVIOUS
  <2>3. ASSUME h # <<>>, \A k \in 2 .. Len(h) : ~h[k].split
        PROVE  e.n_token # NULL /\ f[e.n_token] = 1
    <3>1. m # 0 /\ h[m].split
      BY <1>2, <1>3, <2>3
    <3>2. m \notin 2 .. m
      BY <2>3, <3>1 DEF m
    <3>3. m = 1
      BY ONLY <1>3, <3>1, <3>2
    <3>4. e.scope # <<>> /\ Last(e.scope) = e.scope[1]
      BY <1>3, <1>6, <3>1, <3>3 DEF Last
    <3>5. e.n_token # NULL
      BY <1>5, <2>1, <3>4 DEF ChainInv
    <3> QED BY <1>3, <2>2, <3>3, <3>5
  <2> QED BY <2>1, <2>2, <2>3 DEF TailInv
<1> QED BY <1>7, <1>8 DEF StateInv

LEMMA PopState ==
  ASSUME NEW s, NEW d, NEW c, NEW A, NEW own, StateInv(s, d, c, A, own),
         c # <<>>, Last(c).want # "free", NEW g \in Frames, g.want = "free",
         g.kind = Last(c).kind
  PROVE  StateInv(Popped(s), Doomed(s), [c EXCEPT ![Len(c)] = g], A, OwnPop(s, own))
<1> DEFINE e == Popped(s)
           h == [c EXCEPT ![Len(c)] = g]
           z == OuterEnd(s)
           f == OwnPop(s, own)
           m == Len(s.scope) - 1
           p == Doomed(s)
<1>1. /\ TableInv(s, NULL, own, A)
      /\ Len(c) \in Nat \ {0} /\ Len(s.scope) = Len(c) /\ s.scope # <<>> /\ s.scope \in Seq(ScopeRec)
      /\ c \in Seq(Frames) /\ Last(c) = c[Len(c)] /\ s.scope[1].token # NULL
  BY ReadingState
<1>2. TableInv(e, p, f, A)
  BY <1>1, PopTable
<1>3. SizeInv(s) /\ ChainInv(s, NULL, own)
  BY <1>1 DEF TableInv
<1>4. EndOf(s, own, m, z)
  BY <1>1, <1>3, OuterEndIs
<1>5. z \in Sym \cup {NULL} /\ (z # NULL => m # 0 /\ z \in LiveIn(s) /\ own[z] = m)
  <2> HIDE DEF m, z
  <2> QED BY <1>4 DEF EndOf
<1>6. /\ e.n_token = z /\ Len(e.scope) = m /\ \A k \in 1 .. m : e.scope[k] = s.scope[k]
  BY <1>1, <1>3, <1>5, PopFields
<1>7. e.scope \in Seq(ScopeRec)
  BY <1>2, TableTypes DEF TableInv
<1>8. z # NULL => f[z] = m
  <2>1. z # NULL => f[z] = IF own[z] = Len(s.scope) THEN 0 ELSE own[z]
    BY <1>5 DEF OwnPop
  <2>2. m # Len(s.scope)
    BY <1>1
  <2> QED BY <1>5, <2>1, <2>2
<1>9. /\ h \in Seq(Frames) /\ Len(h) = Len(c) /\ h[Len(c)] = g /\ h # <<>>
      /\ DOMAIN h = 1 .. Len(c) /\ DOMAIN c = 1 .. Len(c)
      /\ \A k \in 1 .. Len(c) : k # Len(c) => h[k] = c[k]
  BY <1>1
<1>10. Last(h) = g /\ m \in Nat /\ Len(c) = m + 1
  BY <1>1, <1>9 DEF Last
<1> HIDE DEF e, f, h, z, m, p
<1>11. \A k \in DOMAIN c : /\ k = 1 <=> c[k].kind = "global"
                           /\ c[k].kind \in {"type", "header"} => k = 2
                           /\ c[k].want = "free" => k = Len(c)
  BY DEF StateInv, FrameInv
<1>12. FrameInv(e, p, h)
  <2>1. ASSUME NEW k \in DOMAIN h
        PROVE  /\ k = 1 <=> h[k].kind = "global"
               /\ h[k].kind \in {"type", "header"} => k = 2
               /\ h[k].want = "free" => k = Len(c)
    <3>1. k \in DOMAIN c
      BY <1>9
    <3>2. CASE k = Len(c)
      <4>1. h[k].kind = c[k].kind
        BY <1>1, <1>9, <3>2
      <4> QED BY <1>11, <3>1, <3>2, <4>1
    <3>3. CASE k # Len(c)
      <4>1. h[k] = c[k]
        BY <1>9, <3>3
      <4> QED BY <1>11, <3>1, <4>1
    <3> QED BY <3>2, <3>3
  <2>2. Len(h) = Len(e.scope) + 1
    BY <1>6, <1>9, <1>10
  <2>3. Last(h).want = "free"
    BY <1>10
  <2> QED BY <1>9, <2>1, <2>2, <2>3 DEF FrameInv
<1>13. TailInv(e, h, f)
  <2>1. e.scope # <<>> => e.scope[1].token # NULL
    BY <1>1, <1>6, <1>7, <1>10
  <2>2. Last(h).want = "free"
    BY <1>10
  <2>3. e.n_token # NULL => f[e.n_token] = Len(e.scope)
    BY <1>6, <1>8
  <2> QED BY <2>1, <2>2, <2>3 DEF TailInv
<1> QED BY <1>2, <1>12, <1>13 DEF StateInv, e, f, h, p

LEMMA FreeState ==
  ASSUME NEW s, NEW d, NEW c, NEW A, NEW own, StateInv(s, d, c, A, own), d # NULL
  PROVE  StateInv(Unlink(s, d), s.below[d], c, A, OwnLess(s, own, d))
<1> DEFINE e == Unlink(s, d)
           f == OwnLess(s, own, d)
           b == s.below[d]
           n == s.n_token
<1>1. TableInv(s, d, own, A) /\ FrameInv(s, d, c) /\ TailInv(s, c, own)
  BY DEF StateInv
<1>2. TableInv(e, b, f, A)
  BY <1>1, UnlinkTable
<1>3. SizeInv(s) /\ ChainInv(s, d, own)
  BY <1>1 DEF TableInv
<1>4. c # <<>> /\ Last(c).want = "free"
  BY <1>1 DEF FrameInv
<1>5. e.scope = s.scope /\ e.n_token = n
  BY <1>3, TableTypes DEF Unlink, Tables
<1>6. ASSUME n # NULL PROVE f[n] = own[n]
  <2>1. n \in LiveIn(s) /\ own[n] # 0
    BY <1>3, <1>6 DEF ChainInv
  <2>2. own[d] = 0
    <3>1. Len(s.scope) \in Nat
      BY <1>3, TableTypes
    <3>2. Linked(s.below, d, Members(own, 0))
      BY <1>3, <3>1 DEF ChainInv, Start
    <3> QED BY <3>2 DEF Linked, Members
  <2>3. n \in LiveIn(s) \ {d}
    BY <2>1, <2>2
  <2> QED BY <2>3 DEF OwnLess
<1> HIDE DEF e, f, b, n
<1>7. FrameInv(e, b, c)
  BY <1>1, <1>4, <1>5 DEF FrameInv
<1>8. n # NULL => own[n] = Len(s.scope)
  BY <1>1, <1>4 DEF TailInv, n
<1>9. TailInv(e, c, f)
  <2>1. e.scope # <<>> => e.scope[1].token # NULL
    BY <1>1, <1>5 DEF TailInv
  <2>2. e.n_token # NULL => f[e.n_token] = Len(e.scope)
    BY <1>5, <1>6, <1>8
  <2> QED BY <1>4, <2>1, <2>2 DEF TailInv
<1> QED BY <1>2, <1>7, <1>9 DEF StateInv, e, f, b

(* Becomes marks the symbol that is entered behind a nested scope. *)
LEMMA Marked ==
  ASSUME NEW s, NEW own, NEW e, NEW A, NEW B, NEW g \in Frames, SizeInv(s),
         ApartInv(s, own, A), g.split => Home(s, own) = Len(s.scope),
         B = A \cup {t \in DOMAIN e.tok \ DOMAIN s.tok : g.split}
  PROVE  ApartBecomes(s, own, e, A, B) /\ (New(s) \in DOMAIN e.tok \ B => ~g.split)
<1>1. New(s) \notin DOMAIN s.tok
  BY TableTypes DEF New
<1>2. New(s) \notin A
  BY <1>1 DEF ApartInv
<1>3. CASE g.split
  <2>1. B = A \cup (DOMAIN e.tok \ DOMAIN s.tok)
    BY <1>3
  <2>2. Home(s, own) = Len(s.scope)
    BY <1>3
  <2> QED BY <1>1, <2>1, <2>2 DEF ApartBecomes
<1>4. CASE ~g.split
  <2>1. B = A
    BY <1>4
  <2> QED BY <1>2, <1>4, <2>1 DEF ApartBecomes
<1> QED BY <1>3, <1>4

LEMMA VardecStep ==
  ASSUME NEW own, SymInv(own), NEW name \in Names, deal_vardec(name)
  PROVE  \E f : SymInv(f)'
<1> DEFINE e == pro_vari(tab, name)
           x == Last(ctx)
           g == [x EXCEPT !.want = "none", !.kind = IF @ = "type" THEN "header" ELSE @]
<1>1. /\ ctx # <<>> /\ x.want # "free" /\ Len(tab.tok) < MaxSyms /\ tab' = e /\ token' = token
      /\ apart' = apart \cup {t \in DOMAIN e.tok \ DOMAIN tab.tok : x.split}
      /\ ctx' = [ctx EXCEPT ![Len(ctx)] = g]
  BY DEF deal_vardec, Becomes, Replace, Reading, Doing, Room
<1>2. StateInv(tab, token, ctx, apart, own)
  BY DEF SymInv
<1>3. /\ TableInv(tab, NULL, own, apart) /\ tab.scope # <<>> /\ x \in Frames
      /\ x.split => Home(tab, own) = Len(tab.scope)
  BY <1>1, <1>2, ReadingState
<1>4. MayEnter(tab, own, apart, name)
  BY <1>1, <1>3, Places DEF MayEnter
<1>5. g \in Frames /\ g.want # "free" /\ g.split = x.split
      /\ g.kind = IF x.kind = "type" THEN "header" ELSE x.kind
  BY <1>3 DEF Frames, Doings
<1>6. /\ g.kind = "global" <=> x.kind = "global"
      /\ g.kind \in {"type", "header"} => x.kind \in {"type", "header"}
  BY <1>5
<1> HIDE DEF e, x, g
<1>7. ApartBecomes(tab, own, e, apart, apart')
  BY <1>1, <1>3, Marked DEF TableInv
<1>8. PICK f : Entered(tab, own, e, f, apart')
  BY <1>4, <1>7, VariEnters DEF e
<1>9. StateInv(e, token, [ctx EXCEPT ![Len(ctx)] = g], apart', f)
  BY <1>1, <1>2, <1>5, <1>6, <1>8, EnterState DEF x
<1> QED BY <1>1, <1>9 DEF SymInv

LEMMA FunctionNameStep ==
  ASSUME NEW own, SymInv(own), NEW name \in Names, FunctionName(name)
  PROVE  \E f : SymInv(f)'
<1> DEFINE e == pro_func(tab, name)
           x == Last(ctx)
           g == [x EXCEPT !.kind = "body"]
<1>1. /\ ctx # <<>> /\ x.want = "none" /\ Len(tab.tok) < MaxSyms /\ tab' = e /\ token' = token
      /\ apart' = apart \cup {t \in DOMAIN e.tok \ DOMAIN tab.tok : x.split}
      /\ ctx' = [ctx EXCEPT ![Len(ctx)] = g] /\ x.kind \in {"type", "header"}
  BY DEF FunctionName, Becomes, Replace, Doing, Room
<1>2. StateInv(tab, token, ctx, apart, own) /\ x.want # "free"
  BY <1>1 DEF SymInv
<1>3. /\ TableInv(tab, NULL, own, apart) /\ tab.scope # <<>> /\ x \in Frames
      /\ x.split => Home(tab, own) = Len(tab.scope)
      /\ (\A k \in 2 .. Len(ctx) : ~ctx[k].split) => Home(tab, own) = 1
      /\ Len(ctx) \in Nat \ {0} /\ ctx \in Seq(Frames) /\ x = ctx[Len(ctx)]
  BY <1>1, <1>2, ReadingState
<1>4. MayEnter(tab, own, apart, name)
  BY <1>1, <1>3, Places DEF MayEnter
<1>5. g \in Frames /\ g.want # "free" /\ g.split = x.split /\ g.kind = "body"
  BY <1>1, <1>3 DEF Frames, Doings
<1>6. /\ g.kind = "global" <=> x.kind = "global"
      /\ g.kind \in {"type", "header"} => x.kind \in {"type", "header"}
  BY <1>1, <1>5
<1> HIDE DEF e, g
<1>7. ~x.split => Home(tab, own) = 1
  <2>1. Len(ctx) = 2
    <3>1. Len(ctx) \in DOMAIN ctx
      BY <1>3
    <3>2. FrameInv(tab, token, ctx)
      BY <1>2 DEF StateInv
    <3>3. ctx[Len(ctx)].kind \in {"type", "header"}
      BY <1>1, <1>3
    <3> QED BY <3>1, <3>2, <3>3 DEF FrameInv
  <2>2. ASSUME ~x.split, NEW k \in 2 .. Len(ctx) PROVE ~ctx[k].split
    <3>1. k = Len(ctx)
      BY <2>1
    <3>2. ctx[k] = x
      BY <1>3, <3>1
    <3> QED BY <2>2, <3>2
  <2>3. ~x.split => \A k \in 2 .. Len(ctx) : ~ctx[k].split
    BY <2>2
  <2>4. (\A k \in 2 .. Len(ctx) : ~ctx[k].split) => Home(tab, own) = 1
    BY <1>3
  <2> QED BY <2>3, <2>4
<1> HIDE DEF x
<1>8. ApartBecomes(tab, own, e, apart, apart') /\ (New(tab) \in DOMAIN e.tok \ apart' => ~x.split)
  <2>1. SizeInv(tab) /\ ApartInv(tab, own, apart)
    BY <1>3 DEF TableInv
  <2>2. x \in Frames /\ (x.split => Home(tab, own) = Len(tab.scope))
    BY <1>3
  <2>3. apart' = apart \cup {t \in DOMAIN e.tok \ DOMAIN tab.tok : x.split}
    BY <1>1
  <2> QED BY ONLY <2>1, <2>2, <2>3, Marked
<1>9. PICK f : Entered(tab, own, e, f, apart')
  BY <1>4, <1>7, <1>8, FuncEnters DEF e
<1>10. StateInv(e, token, [ctx EXCEPT ![Len(ctx)] = g], apart', f)
  BY <1>1, <1>2, <1>5, <1>6, <1>9, EnterState DEF x
<1> QED BY <1>1, <1>10 DEF SymInv

LEMMA PushStep ==
  ASSUME NEW own, SymInv(own), NEW kind \in Doings, kind # "global", kind # "header",
         kind = "type" => Len(ctx) = 1, NEW want \in {"none", "field"},
         NEW name \in Names \cup {Hidden}, Push(kind, want, name), ctx # <<>>, Doing.want # "free"
  PROVE  SymInv(own)'
<1> DEFINE g == Frame(kind, want, name)
<1>1. /\ tab.opened < MaxScopes /\ tab' = addscope(tab) /\ ctx' = Append(ctx, g)
      /\ token' = token /\ apart' = apart /\ Last(ctx).want # "free"
  BY DEF Push, Doing
<1>2. StateInv(tab, token, ctx, apart, own)
  BY DEF SymInv
<1>3. g \in Frames /\ ~g.split /\ g.want = want /\ g.kind = kind
  BY DEF Frame, Frames
<1> HIDE DEF g
<1>4. StateInv(addscope(tab), token, Append(ctx, g), apart, own)
  BY <1>1, <1>2, <1>3, PushState
<1> QED BY <1>1, <1>4 DEF SymInv

LEMMA DelscopeStep ==
  ASSUME NEW own, SymInv(own), delscope
  PROVE  \E f : SymInv(f)'
<1> DEFINE x == Last(ctx)
           g == [x EXCEPT !.want = "free"]
<1>1. /\ ctx # <<>> /\ x.want = "none" /\ tab' = Popped(tab) /\ token' = Doomed(tab)
      /\ ctx' = [ctx EXCEPT ![Len(ctx)] = g] /\ apart' = apart
  BY DEF delscope, Popped, Replace, Doing
<1>2. StateInv(tab, token, ctx, apart, own) /\ x.want # "free"
  BY <1>1 DEF SymInv
<1>3. x \in Frames
  BY <1>1, <1>2, ReadingState
<1>4. g \in Frames /\ g.want = "free" /\ g.kind = x.kind
  BY <1>3 DEF Frames
<1> HIDE DEF g
<1>5. StateInv(Popped(tab), Doomed(tab), [ctx EXCEPT ![Len(ctx)] = g], apart, OwnPop(tab, own))
  BY <1>1, <1>2, <1>4, PopState
<1> QED BY <1>1, <1>5 DEF SymInv

LEMMA FreeTokenStep ==
  ASSUME NEW own, SymInv(own), FreeToken
  PROVE  \E f : SymInv(f)'
<1>1. /\ token # NULL /\ tab' = Unlink(tab, token) /\ token' = tab.below[token]
      /\ ctx' = ctx /\ apart' = apart
  BY DEF FreeToken
<1>2. StateInv(tab, token, ctx, apart, own)
  BY DEF SymInv
<1>3. StateInv(Unlink(tab, token), tab.below[token], ctx, apart, OwnLess(tab, own, token))
  BY <1>1, <1>2, FreeState
<1> QED BY <1>1, <1>3 DEF SymInv

LEMMA OuterIs ==
  ASSUME NEW S, NEW c \in Seq(S), c # <<>>, NEW m, m = Len(c) - 1
  PROVE  /\ m \in Nat /\ Len(c) = m + 1 /\ DOMAIN c = 1 .. m + 1
         /\ Outer(c) \in Seq(S) /\ Len(Outer(c)) = m
         /\ \A k \in 1 .. m : Outer(c)[k] = c[k] /\ c[k] \in S /\ k \in DOMAIN c /\ k # Len(c)
BY DEF Outer

LEMMA StructEndStep ==
  ASSUME NEW own, SymInv(own), StructEnd
  PROVE  \E f : SymInv(f)'
<1> DEFINE x == Last(ctx)
           e == pro_stru(tab, x.name)
           m == Len(ctx) - 1
           h == [Outer(ctx) EXCEPT ![m] = AfterStruct(@)]
<1>1. /\ ctx # <<>> /\ x.want = "free" /\ token = NULL /\ x.kind = "struct"
      /\ Len(tab.tok) < MaxSyms /\ tab' = e /\ token' = NULL
      /\ apart' = apart \cup (DOMAIN e.tok \ DOMAIN tab.tok)
      /\ ctx' = h
  BY DEF StructEnd, LoopDone, Becomes, Doing, Room
<1>2. StateInv(tab, NULL, ctx, apart, own)
  BY <1>1 DEF SymInv
<1>3. /\ TableInv(tab, NULL, own, apart)
      /\ Len(ctx) \in Nat \ {0} /\ Len(tab.scope) = Len(ctx) - 1 /\ tab.scope \in Seq(ScopeRec)
      /\ ctx \in Seq(Frames) /\ Last(ctx) = ctx[Len(ctx)] /\ x \in Frames
      /\ tab.scope # <<>> => tab.scope[1].token # NULL
      /\ Home(tab, own) = Len(tab.scope)
  BY <1>1, <1>2, FreeingState
<1>4. /\ m \in Nat /\ Len(ctx) = m + 1 /\ DOMAIN ctx = 1 .. m + 1
      /\ Outer(ctx) \in Seq(Frames) /\ Len(Outer(ctx)) = m
      /\ \A k \in 1 .. m : Outer(ctx)[k] = ctx[k] /\ ctx[k] \in Frames
  BY <1>1, <1>3, OuterIs
<1>5. m # 0
  <2>1. 1 \in DOMAIN ctx
    BY ONLY <1>4
  <2>2. ctx[1].kind = "global"
    BY <1>2, <2>1 DEF StateInv, FrameInv
  <2>3. Len(ctx) # 1
    BY <1>1, <1>3, <2>2
  <2> QED BY <2>3
<1>6. tab.scope # <<>> /\ x.name \in AllNames
  <2>1. x.name \in Names \cup {Hidden}
    BY <1>3 DEF Frames
  <2>2. Len(tab.scope) # 0
    BY <1>3, <1>5
  <2>3. tab.scope # <<>>
    BY ONLY <2>2
  <2> QED BY <2>1, <2>3, Places
<1>7. MayEnter(tab, own, apart, x.name)
  BY <1>1, <1>3, <1>6 DEF MayEnter
<1>8. BackTo(ctx, h)
  <2> DEFINE o == Outer(ctx)
             y == ctx[m]
             g == AfterStruct(y)
  <2>0. m \in 1 .. m
    <3> HIDE DEF m
    <3> QED BY <1>4, <1>5
  <2>1. o \in Seq(Frames) /\ Len(o) = m /\ \A k \in 1 .. m : o[k] = ctx[k]
    BY <1>4
  <2>2. y \in Frames /\ o[m] = y
    BY <1>4, <2>0
  <2>3. /\ g \in Frames /\ g.split = TRUE /\ g.want \in {"none", "decl"}
        /\ g.kind = IF y.kind = "type" THEN "header" ELSE y.kind
    BY <2>2 DEF AfterStruct, Frames, Doings
  <2>4. h = [o EXCEPT ![m] = g]
    <3>1. h = [o EXCEPT ![m] = AfterStruct(o[m])]
      OBVIOUS
    <3> QED BY <2>2, <3>1
  <2>6. Len(ctx) - 1 = m /\ y = ctx[m]
    OBVIOUS
  <2> HIDE DEF o, g, h, m, y
  <2>7. /\ h \in Seq(Frames) /\ Len(h) = m /\ h[m] = g
        /\ \A k \in 1 .. m : k # m => h[k] = ctx[k]
    BY <2>0, <2>1, <2>3, <2>4
  <2>8. g.want # "free" /\ g.kind = "global" <=> y.kind = "global"
    BY <2>3
  <2>9. g.kind \in {"type", "header"} => y.kind \in {"type", "header"}
    BY <2>3
  <2>10. h[m].split /\ h[m].want # "free"
    BY <2>3, <2>7
  <2>11. h[m].kind = "global" <=> ctx[m].kind = "global"
    BY <2>3, <2>6, <2>7
  <2>12. h[m].kind \in {"type", "header"} => ctx[m].kind \in {"type", "header"}
    BY <2>6, <2>7, <2>9
  <2> QED BY <2>6, <2>7, <2>10, <2>11, <2>12 DEF BackTo
<1>9. ApartBecomes(tab, own, e, apart, apart')
  BY <1>1, <1>3 DEF ApartBecomes
<1> HIDE DEF e, h
<1>10. PICK f : Entered(tab, own, e, f, apart')
  BY <1>7, <1>9, StruEnters DEF e
<1>11. /\ TableInv(e, NULL, f, apart') /\ Len(e.scope) = Len(tab.scope)
       /\ e.scope[1].token # NULL /\ (e.n_token # NULL => f[e.n_token] = Len(tab.scope))
  BY <1>3, <1>6, <1>10 DEF Entered
<1>12. StateInv(e, NULL, h, apart', f)
  BY <1>1, <1>2, <1>8, <1>11, BackState
<1> QED BY <1>1, <1>12 DEF SymInv

LEMMA ScopeEndStep ==
  ASSUME NEW own, SymInv(own), ScopeEnd
  PROVE  SymInv(own)'
<1> DEFINE m == Len(ctx) - 1
           h == [k \in 1 .. m |-> IF k = m THEN [ctx[k] EXCEPT !.split = TRUE] ELSE ctx[k]]
<1>1. /\ ctx # <<>> /\ Last(ctx).want = "free" /\ token = NULL /\ ctx' = h
      /\ tab' = tab /\ token' = NULL /\ apart' = apart
  BY DEF ScopeEnd, LoopDone, Doing
<1>2. StateInv(tab, NULL, ctx, apart, own)
  BY <1>1 DEF SymInv
<1>3. /\ TableInv(tab, NULL, own, apart)
      /\ Len(ctx) \in Nat \ {0} /\ ctx \in Seq(Frames)
      /\ tab.scope # <<>> => tab.scope[1].token # NULL
      /\ Home(tab, own) = Len(tab.scope)
  BY <1>1, <1>2, FreeingState
<1>4. \A k \in DOMAIN ctx : ctx[k].want = "free" => k = Len(ctx)
  BY <1>2 DEF StateInv, FrameInv
<1>5. BackTo(ctx, h)
  <2>1. /\ m \in Nat /\ Len(ctx) = m + 1 /\ DOMAIN ctx = 1 .. m + 1
        /\ \A k \in 1 .. m : ctx[k] \in Frames /\ k \in DOMAIN ctx /\ k # Len(ctx)
    BY <1>1, <1>3, OuterIs
  <2>2. \A k \in 1 .. m : [ctx[k] EXCEPT !.split = TRUE] \in Frames
    BY <2>1 DEF Frames
  <2>3. /\ h \in Seq(Frames) /\ Len(h) = m
        /\ \A k \in 1 .. m : k # m => h[k] = ctx[k]
    BY <2>1, <2>2
  <2>4. Len(h) = Len(ctx) - 1
    BY <2>3
  <2>5. ASSUME h # <<>>
        PROVE  /\ m \in DOMAIN ctx /\ m # Len(ctx)
               /\ h[m].split = TRUE /\ h[m].kind = ctx[m].kind /\ h[m].want = ctx[m].want
    <3>1. m \in 1 .. m
      <4>1. m # 0
        <5> HIDE DEF h, m
        <5> QED BY <2>3, <2>5
      <4> HIDE DEF m
      <4> QED BY <2>1, <4>1
    <3>2. \A k \in 1 .. m : k = m => h[k] = [ctx[k] EXCEPT !.split = TRUE]
      OBVIOUS
    <3> HIDE DEF h, m
    <3>3. h[m] = [ctx[m] EXCEPT !.split = TRUE] /\ ctx[m] \in Frames
      BY <2>1, <3>1, <3>2
    <3>4. m \in DOMAIN ctx /\ m # Len(ctx)
      BY <2>1, <3>1
    <3> QED BY <3>3, <3>4 DEF Frames
  <2> HIDE DEF h, m
  <2>6. h # <<>> => h[m].split /\ h[m].want # "free"
    BY <1>4, <2>5
  <2>7. h # <<>> => /\ h[m].kind = "global" <=> ctx[m].kind = "global"
                    /\ h[m].kind \in {"type", "header"} => ctx[m].kind \in {"type", "header"}
    BY <2>5
  <2> QED BY <2>3, <2>4, <2>6, <2>7 DEF BackTo
<1> HIDE DEF h
<1>6. tab.n_token # NULL => own[tab.n_token] = Len(tab.scope)
  BY <1>3 DEF Home
<1>7. StateInv(tab, NULL, h, apart, own)
  BY <1>1, <1>2, <1>3, <1>5, <1>6, BackState
<1> QED BY <1>1, <1>7 DEF SymInv

LEMMA SemanticStep ==
  ASSUME NEW own, SymInv(own), semantic
  PROVE  \E f : SymInv(f)'
<1> DEFINE a == addscope(tab)
           e == pro_func(a, BuiltIns[1])
           z == pro_func(e, BuiltIns[2])
           g == Frame("global", "none", Hidden)
<1>1. ctx = <<>> /\ tab.opened = 0 /\ tab' = z /\ ctx' = <<g>> /\ token' = token /\ apart' = apart
  BY DEF semantic
<1>2. TableInv(tab, token, own, apart) /\ FrameInv(tab, token, ctx)
  BY DEF SymInv, StateInv
<1>3. token = NULL /\ Len(tab.scope) = 0
  <2>1. Len(tab.scope) \in Nat
    BY <1>2, TableTypes DEF TableInv
  <2>2. Len(ctx) = 0
    BY <1>1
  <2>3. token = NULL /\ Len(ctx) = Len(tab.scope) + 0
    BY <1>1, <1>2 DEF FrameInv
  <2> QED BY <2>1, <2>2, <2>3
<1>4. SizeInv(tab) /\ ChainInv(tab, token, own) /\ tab \in Tables /\ tab.scope \in Seq(ScopeRec)
  BY <1>2, TableTypes DEF TableInv
<1>5. tab.scope = <<>> /\ tab.n_token = NULL /\ tab.tok = <<>> /\ apart = {}
  <2>1. tab.scope = <<>>
    BY <1>3, <1>4
  <2>2. tab.tok = <<>>
    BY <1>1, <1>2 DEF TableInv, NumInv
  <2>3. apart \subseteq DOMAIN tab.tok
    BY <1>2 DEF TableInv, ApartInv
  <2> QED BY <1>4, <2>1, <2>2, <2>3 DEF ChainInv
<1>6. tab.opened < MaxScopes
  BY <1>1, NamesAssumption DEF NamesAssumption
<1>7. /\ a.tok = <<>> /\ a.n_token = NULL
      /\ a.scope = Append(tab.scope, [token |-> NULL, num |-> tab.opened + 1])
  BY <1>4, <1>5, <1>6, AddFields
<1>8. Len(a.scope) = 1 /\ a.scope # <<>> /\ Len(a.tok) = 0
  BY <1>5, <1>7
<1>9. TableInv(a, NULL, own, apart)
  BY <1>1, <1>2, <1>3, <1>6, AddTable
<1>10. MayEnter(a, own, apart, BuiltIns[1])
  BY <1>8, <1>9, NamesAssumption, Places DEF MayEnter, NamesAssumption
<1> HIDE DEF a
<1>11. Home(a, own) = 1 /\ New(a) = 1
  BY <1>7, <1>8 DEF Home, New
<1>12. LiveIn(a) = {}
  BY <1>7 DEF LiveIn
<1>13. e = ensymbol(a, BuiltIns[1], "func")
  <2> DEFINE b == Bucket(BuiltIns[1])
  <2>1. b \in Buckets /\ SizeInv(a) /\ HashInv(a)
    BY <1>9, Places DEF TableInv
  <2> HIDE DEF b
  <2>2. Chain(a.next, a.next[b]) = {}
    BY <1>12, <2>1, BucketIs
  <2>3. ~LookAll(a, 1, BuiltIns[1])
    BY <2>2 DEF LookAll, b
  <2> QED BY <2>3 DEF pro_func
<1> HIDE DEF e
<1>14. ApartBecomes(a, own, e, apart, apart)
  BY <1>8, <1>11 DEF ApartBecomes
<1> DEFINE f == OwnWith(a, own)
<1>15. Entered(a, own, e, f, apart) /\ e.n_token # NULL /\ e.scope[1].token # NULL
  BY <1>7, <1>8, <1>10, <1>11, <1>12, <1>13, <1>14, Accepted
<1> HIDE DEF f
<1>16. /\ TableInv(e, NULL, f, apart) /\ Len(e.scope) = 1 /\ Len(e.tok) <= 1
       /\ f[e.n_token] = 1
  BY <1>8, <1>11, <1>15 DEF Entered
<1>17. e.scope # <<>> /\ Len(e.tok) < MaxSyms
  <2>1. e.scope # <<>>
    <3>1. Len(e.scope) = 1
      BY <1>16
    <3> QED BY ONLY <3>1
  <2>2. Len(e.tok) \in Nat
    BY <1>16, TableTypes DEF TableInv
  <2> QED BY <1>16, <2>1, <2>2, NamesAssumption DEF NamesAssumption
<1>18. MayEnter(e, f, apart, BuiltIns[2])
  BY <1>16, <1>17, Places DEF MayEnter
<1>19. Home(e, f) = 1
  BY <1>15, <1>16 DEF Home
<1>20. ApartBecomes(e, f, z, apart, apart)
  BY <1>16, <1>19 DEF ApartBecomes
<1>21. PICK w : Entered(e, f, z, w, apart)
  BY <1>18, <1>19, <1>20, FuncEnters
<1> HIDE DEF z
<1>22. /\ TableInv(z, NULL, w, apart) /\ Len(z.scope) = 1 /\ z.scope[1].token # NULL
       /\ z.n_token # NULL /\ w[z.n_token] = 1
  BY <1>15, <1>16, <1>19, <1>21 DEF Entered
<1>23. g \in Frames /\ g.kind = "global" /\ g.want = "none" /\ g.split = FALSE
  BY DEF g, Frame, Frames, Doings
<1> HIDE DEF g
<1> DEFINE h == <<g>>
<1>24. h \in Seq(Frames) /\ Len(h) = 1 /\ h[1] = g /\ h # <<>> /\ DOMAIN h = {1} /\ Last(h) = g
  BY <1>23 DEF Last
<1> HIDE DEF h
<1>25. FrameInv(z, NULL, h)
  <2>1. Len(h) = Len(z.scope) + 0
    BY <1>22, <1>24
  <2>2. \A k \in DOMAIN h : /\ k = 1 <=> h[k].kind = "global"
                            /\ h[k].kind \in {"type", "header"} => k = 2
                            /\ h[k].want = "free" => k = Len(h)
    BY <1>23, <1>24
  <2>3. Last(h).want # "free"
    BY <1>23, <1>24
  <2> QED BY <1>24, <2>1, <2>2, <2>3 DEF FrameInv
<1>26. TailInv(z, h, w)
  <2>1. w[z.n_token] = Len(z.scope)
    BY <1>22
  <2> QED BY <1>22, <2>1 DEF TailInv
<1>27. StateInv(z, NULL, h, apart, w)
  BY <1>22, <1>25, <1>26 DEF StateInv
<1>28. tab' = z /\ token' = NULL /\ ctx' = h /\ apart' = apart
  BY <1>1, <1>3 DEF h
<1> QED BY <1>27, <1>28 DEF SymInv

LEMMA StartState ==
  ASSUME Init
  PROVE  \E own : SymInv(own)
<1> DEFINE s == Empty
           own == [x \in {} |-> 0]
<1>1. tab = s /\ token = NULL /\ ctx = <<>> /\ apart = {}
  BY DEF Init
<1>2. /\ s.tok = <<>> /\ s.freed = {} /\ s.scope = <<>> /\ s.n_token = NULL /\ s.opened = 0
      /\ s.next = [p \in Sym \cup Buckets |-> NULL] /\ s.prev = [t \in Sym |-> NULL]
      /\ s.below = [t \in Sym |-> NULL]
      /\ s = [tok |-> s.tok, next |-> s.next, prev |-> s.prev, below |-> s.below,
              freed |-> s.freed, scope |-> s.scope, n_token |-> s.n_token, opened |-> s.opened]
  BY DEF Empty
<1>3. MaxSyms \in Nat /\ MaxScopes \in Nat
  BY NamesAssumption DEF NamesAssumption
<1> HIDE DEF s
<1>4. s \in Tables
  <2>1. s.opened \in 0 .. MaxScopes
    BY <1>2, <1>3
  <2>2. /\ s.tok \in Seq(TokRec) /\ s.next \in [Sym \cup Buckets -> Sym \cup {NULL}]
        /\ s.prev \in [Sym -> Sym \cup Buckets \cup {NULL}] /\ s.below \in [Sym -> Sym \cup {NULL}]
        /\ s.freed \in SUBSET Sym /\ s.scope \in Seq(ScopeRec) /\ s.n_token \in Sym \cup {NULL}
    BY <1>2
  <2> QED BY <1>2, <2>1, <2>2 DEF Tables
<1>5. Len(s.tok) = 0 /\ DOMAIN s.tok = {} /\ Len(s.scope) = 0 /\ DOMAIN s.scope = {} /\ LiveIn(s) = {}
  BY <1>2 DEF LiveIn
<1>6. SizeInv(s)
  BY <1>2, <1>3, <1>4, <1>5 DEF SizeInv
<1>7. HashInv(s)
  BY <1>2, <1>5 DEF HashInv
<1>8. own \in [LiveIn(s) -> 0 .. 0] /\ \A k : Members(own, k) = {}
  BY <1>5 DEF Members
<1> HIDE DEF own
<1>9. ChainInv(s, NULL, own)
  <2>1. \A k \in 0 .. Len(s.scope) : Linked(s.below, Start(s, NULL, k), Members(own, k))
    <3>1. \A k \in 0 .. Len(s.scope) : Start(s, NULL, k) = NULL
      BY <1>5 DEF Start
    <3> QED BY <1>8, <3>1 DEF Linked
  <2> QED BY <1>2, <1>5, <1>8, <2>1 DEF ChainInv
<1>10. NumInv(s, own) /\ ApartInv(s, own, {}) /\ Unique(s)
  BY <1>2, <1>5 DEF NumInv, ApartInv, Unique
<1>11. FrameInv(s, NULL, <<>>) /\ TailInv(s, <<>>, own)
  BY <1>2, <1>5 DEF FrameInv, TailInv
<1>12. StateInv(s, NULL, <<>>, {}, own)
  BY <1>6, <1>7, <1>9, <1>10, <1>11 DEF StateInv, TableInv
<1> QED BY <1>1, <1>12 DEF SymInv

(* Every step keeps the invariant, with another own. *)
LEMMA StepInv ==
  ASSUME NEW own, SymInv(own), [Next]_vars
  PROVE  \E f : SymInv(f)'
<1>1. CASE semantic
  BY <1>1, SemanticStep
<1>2. CASE FunctionBegin
  <2>1. /\ ctx # <<>> /\ Doing.want = "none" /\ Doing.kind = "global" /\ Push("type", "none", Hidden)
    BY <1>2 DEF FunctionBegin
  <2>2. StateInv(tab, token, ctx, apart, own) /\ Last(ctx).want # "free"
    BY <2>1 DEF SymInv, Doing
  <2>3. /\ Len(ctx) \in Nat \ {0} /\ ctx \in Seq(Frames) /\ Last(ctx) = ctx[Len(ctx)]
    BY <2>1, <2>2, ReadingState
  <2>4. Len(ctx) = 1
    <3>1. Len(ctx) \in DOMAIN ctx
      BY <2>3
    <3>2. FrameInv(tab, token, ctx)
      BY <2>2 DEF StateInv
    <3>3. ctx[Len(ctx)].kind = "global"
      BY <2>1, <2>3 DEF Doing
    <3> QED BY <3>1, <3>2, <3>3 DEF FrameInv
  <2>5. Doing.want # "free"
    BY <2>1
  <2>6. SymInv(own)'
    BY <2>1, <2>4, <2>5, PushStep DEF Doings
  <2> QED BY <2>6
<1>3. CASE BlockBegin
  <2>1. /\ ctx # <<>> /\ Doing.want # "free" /\ Push("block", "none", Hidden)
    BY <1>3 DEF BlockBegin
  <2>2. SymInv(own)'
    BY <2>1, PushStep DEF Doings
  <2> QED BY <2>2
<1>4. CASE delscope
  BY <1>4, DelscopeStep
<1>5. CASE FreeToken
  BY <1>5, FreeTokenStep
<1>6. CASE StructEnd
  BY <1>6, StructEndStep
<1>7. CASE ScopeEnd
  <2>1. SymInv(own)'
    BY <1>7, ScopeEndStep
  <2> QED BY <2>1
<1>8. ASSUME NEW name \in Names, deal_vardec(name) \/ FunctionName(name)
      PROVE  \E f : SymInv(f)'
  BY <1>8, VardecStep, FunctionNameStep
<1>9. ASSUME NEW name \in Names \cup {Hidden}, StructBegin(name)
      PROVE  \E f : SymInv(f)'
  <2>1. /\ ctx # <<>> /\ Doing.want # "free" /\ Push("struct", "field", name)
    BY <1>9 DEF StructBegin, Reading
  <2>2. SymInv(own)'
    BY <2>1, PushStep DEF Doings
  <2> QED BY <2>2
<1>10. CASE UNCHANGED vars
  <2>1. tab' = tab /\ token' = token /\ ctx' = ctx /\ apart' = apart
    BY <1>10 DEF vars
  <2>2. SymInv(own)'
    BY <2>1 DEF SymInv
  <2> QED BY <2>2
<1> QED BY <1>1, <1>2, <1>3, <1>4, <1>5, <1>6, <1>7, <1>8, <1>9, <1>10 DEF Next

(* Some own describes the chains of the table. *)
Described == \E own : SymInv(own)

(* The inductive invariant: every live symbol is in one chain, the links of  *)
(* ensymbol, delscope and its loop agree with it, and n_token stands at its  *)
(* end, in every state of the walk of semantic.c.                            *)
THEOREM SymInvariant == Spec => []Described
<1>1. Init => Described
  BY StartState DEF Described
<1>2. Described /\ [Next]_vars => Described'
  BY StepInv DEF Described
<1> QED BY <1>1, <1>2, PTL DEF Spec

(* What loops along the chains of the scopes meet. *)
LEMMA ChainsAre ==
  ASSUME NEW own, SymInv(own)
  PROVE  /\ own \in [Live -> 0 .. Len(tab.scope)] /\ DOMAIN tab.scope = 1 .. Len(tab.scope)
         /\ Len(tab.scope) \in Nat /\ ToFree = Members(own, 0)
         /\ \A k \in DOMAIN tab.scope : Chain(tab.below, tab.scope[k].token) = Members(own, k)
<1>1. SizeInv(tab) /\ ChainInv(tab, token, own)
  BY DEF SymInv, StateInv, TableInv
<1>2. Live = LiveIn(tab)
  BY DEF Live, LiveIn
<1>3. DOMAIN tab.scope = 1 .. Len(tab.scope) /\ Len(tab.scope) \in Nat
  BY <1>1, TableTypes
<1>4. \A k \in 0 .. Len(tab.scope) : Chain(tab.below, Start(tab, token, k)) = Members(own, k)
  <2> SUFFICES ASSUME NEW k \in 0 .. Len(tab.scope)
               PROVE  Chain(tab.below, Start(tab, token, k)) = Members(own, k)
    OBVIOUS
  <2> DEFINE p == Start(tab, token, k)
             C == Members(own, k)
  <2>1. Linked(tab.below, p, C)
    BY <1>1 DEF ChainInv
  <2> HIDE DEF p, C
  <2>2. Chain(tab.below, p) = C
    BY <2>1, ChainIs
  <2> QED BY <2>2 DEF p, C
<1>5. ToFree = Members(own, 0)
  <2>1. 0 \in 0 .. Len(tab.scope) /\ Start(tab, token, 0) = token
    BY <1>3 DEF Start
  <2> QED BY <1>4, <2>1 DEF ToFree
<1>6. ASSUME NEW k \in DOMAIN tab.scope
      PROVE  Chain(tab.below, tab.scope[k].token) = Members(own, k)
  <2>1. k \in 0 .. Len(tab.scope) /\ Start(tab, token, k) = tab.scope[k].token
    BY <1>3 DEF Start
  <2> QED BY <1>4, <2>1
<1>7. own \in [Live -> 0 .. Len(tab.scope)]
  BY <1>1, <1>2 DEF ChainInv
<1> QED BY <1>3, <1>5, <1>6, <1>7

(* The table has its type, semantic.c has one handler for each scope that    *)
(* addscope has opened and delscope has not closed, and one more while       *)
(* delscope's loop runs.                                                     *)
THEOREM SymTypeOK == Spec => []TypeOK
<1>1. ASSUME NEW own, SymInv(own) PROVE TypeOK
  <2>1. SizeInv(tab) /\ FrameInv(tab, token, ctx) /\ ChainInv(tab, token, own)
    BY <1>1 DEF SymInv, StateInv, TableInv
  <2>2. /\ tab.tok \in Seq(TokRec) /\ tab.next \in [Sym \cup Buckets -> Sym \cup {NULL}]
        /\ tab.prev \in [Sym -> Sym \cup Buckets \cup {NULL}] /\ tab.below \in [Sym -> Sym \cup {NULL}]
        /\ tab.scope \in Seq(ScopeRec) /\ tab.n_token \in Sym \cup {NULL}
        /\ tab.opened \in 0 .. MaxScopes /\ Len(tab.tok) <= MaxSyms /\ LiveIn(tab) \subseteq Sym
    BY <2>1, TableTypes
  <2>3. tab.freed \subseteq DOMAIN tab.tok
    BY <2>1 DEF SizeInv
  <2>4. token \in Sym \cup {NULL}
    <3>1. Len(tab.scope) \in Nat
      BY <2>2
    <3>2. Linked(tab.below, token, Members(own, 0))
      BY <2>1, <3>1 DEF ChainInv, Start
    <3> QED BY <3>2 DEF Linked
  <2>5. Len(ctx) = Len(tab.scope) + IF ctx = <<>> \/ Reading THEN 0 ELSE 1
    BY <2>1 DEF FrameInv, Reading, Doing
  <2>6. ASSUME NEW k \in DOMAIN ctx
        PROVE  /\ ctx[k].kind \in Doings /\ (k = 1 <=> ctx[k].kind = "global")
               /\ ctx[k].want = "free" => k = Len(ctx)
    <3>1. ctx \in Seq(Frames)
      BY <2>1 DEF FrameInv
    <3>2. ctx[k] \in Frames
      BY <3>1
    <3>3. ctx[k].kind \in Doings
      BY <3>2 DEF Frames
    <3> QED BY <2>1, <3>3 DEF FrameInv
  <2> QED BY <2>2, <2>3, <2>4, <2>5, <2>6 DEF TypeOK, TokRec, ScopeRec
<1>2. Described => TypeOK
  BY <1>1 DEF Described
<1> QED BY <1>2, SymInvariant, PTL

(* Nothing reachable has been freed and nothing live is lost: ensymbol and   *)
(* delscope keep the buckets and the chains of the scopes exact.             *)
THEOREM SymTableSound == Spec => []TableSound
<1>1. ASSUME NEW own, SymInv(own) PROVE TableSound
  <2>1. SizeInv(tab) /\ HashInv(tab) /\ ChainInv(tab, token, own) /\ Live = LiveIn(tab)
    BY <1>1 DEF SymInv, StateInv, TableInv, Live, LiveIn
  <2>2. /\ own \in [Live -> 0 .. Len(tab.scope)] /\ DOMAIN tab.scope = 1 .. Len(tab.scope)
        /\ Len(tab.scope) \in Nat /\ ToFree = Members(own, 0)
        /\ \A k \in DOMAIN tab.scope : Chain(tab.below, tab.scope[k].token) = Members(own, k)
    BY <1>1, ChainsAre
  <2>3. ASSUME NEW x \in AllNames
        PROVE  Chain(tab.next, tab.next[Bucket(x)])
                 = {t \in Live : Bucket(tab.tok[t].name) = Bucket(x)}
    <3> DEFINE b == Bucket(x)
    <3>1. b \in Buckets
      BY Places
    <3> HIDE DEF b
    <3>2. Chain(tab.next, tab.next[b]) = {t \in LiveIn(tab) : Bucket(tab.tok[t].name) = b}
      BY <2>1, <3>1, BucketIs
    <3> QED BY <2>1, <3>2 DEF b
  <2>4. \A p \in Live \cup Buckets : tab.next[p] # NULL => tab.prev[tab.next[p]] = p
    BY <2>1 DEF HashInv
  <2>5. UNION {Chain(tab.below, tab.scope[k].token) : k \in DOMAIN tab.scope} = Live \ ToFree
    <3>1. ASSUME NEW k \in DOMAIN tab.scope
          PROVE  Chain(tab.below, tab.scope[k].token) \subseteq Live \ ToFree
      <4>1. k # 0
        BY <2>2
      <4>2. Members(own, k) \subseteq Live \ Members(own, 0)
        BY <2>2, <4>1 DEF Members
      <4> QED BY <2>2, <4>2
    <3>2. ASSUME NEW t \in Live \ ToFree
          PROVE  own[t] \in DOMAIN tab.scope /\ t \in Chain(tab.below, tab.scope[own[t]].token)
      BY <2>2 DEF Members
    <3> QED BY <3>1, <3>2
  <2>6. ToFree \subseteq Live
    BY <2>2 DEF Members
  <2>7. ASSUME NEW j \in DOMAIN tab.scope, NEW k \in DOMAIN tab.scope, j # k
        PROVE  Chain(tab.below, tab.scope[j].token) \cap Chain(tab.below, tab.scope[k].token) = {}
    <3>1. Members(own, j) \cap Members(own, k) = {}
      BY <2>7 DEF Members
    <3> QED BY <2>2, <3>1
  <2>8. tab.n_token # NULL => tab.n_token \in Live \ ToFree /\ tab.below[tab.n_token] = NULL
    BY <2>1, <2>2 DEF ChainInv, Members
  <2> QED BY <2>3, <2>4, <2>5, <2>6, <2>7, <2>8 DEF TableSound
<1>2. Described => TableSound
  BY <1>1 DEF Described
<1> QED BY <1>2, SymInvariant, PTL

(* delscope frees no symbol whose own scope is still open. *)
THEOREM SymNoEarlyFree == Spec => []NoEarlyFree
<1>1. ASSUME NEW own, SymInv(own) PROVE NoEarlyFree
  BY <1>1 DEF SymInv, StateInv, TableInv, NumInv, NoEarlyFree, IsOpen
<1>2. Described => NoEarlyFree
  BY <1>1 DEF Described
<1> QED BY <1>2, SymInvariant, PTL

(* What is declared behind a nested scope goes when its scope is closed: the *)
(* end of the outer chain, where delscope puts n_token, is the right place.  *)
THEOREM SymSplitScopesEnd == Spec => []SplitScopesEnd
<1>1. ASSUME NEW own, SymInv(own) PROVE SplitScopesEnd
  <2>1. ApartInv(tab, own, apart) /\ Live = LiveIn(tab)
    BY <1>1 DEF SymInv, StateInv, TableInv, Live, LiveIn
  <2>2. /\ own \in [Live -> 0 .. Len(tab.scope)] /\ DOMAIN tab.scope = 1 .. Len(tab.scope)
        /\ Len(tab.scope) \in Nat /\ ToFree = Members(own, 0)
    BY <1>1, ChainsAre
  <2>3. ASSUME NEW t \in (apart \cap Live) \ ToFree PROVE IsOpen(tab.tok[t].num)
    <3>1. own[t] # 0 /\ own[t] \in DOMAIN tab.scope
      BY <2>2 DEF Members
    <3>2. tab.tok[t].num = tab.scope[own[t]].num
      BY <2>1, <3>1 DEF ApartInv
    <3> QED BY <3>1, <3>2 DEF IsOpen
  <2> QED BY <2>3 DEF SplitScopesEnd
<1>2. Described => SplitScopesEnd
  BY <1>1 DEF Described
<1> QED BY <1>2, SymInvariant, PTL

(* addscope leaves n_token alone: that is why a function that is entered     *)
(* after its scope has been opened outlives it.                              *)
THEOREM SymFunctionsStay == Spec => []FunctionsStay
<1>1. ASSUME NEW own, SymInv(own) PROVE FunctionsStay
  <2>1. ApartInv(tab, own, apart) /\ Live = LiveIn(tab)
    BY <1>1 DEF SymInv, StateInv, TableInv, Live, LiveIn
  <2>2. IsOpen(1) => tab.scope # <<>>
    BY DEF IsOpen
  <2> QED BY <2>1, <2>2 DEF FunctionsStay, ApartInv
<1>2. Described => FunctionsStay
  BY <1>1 DEF Described
<1> QED BY <1>2, SymInvariant, PTL

(* pro_vari and pro_func together: no two functions or global variables in   *)
(* the table have the same name.                                             *)
THEOREM SymGlobalsUnique == Spec => []GlobalsUnique
<1>1. ASSUME NEW own, SymInv(own) PROVE GlobalsUnique
  BY <1>1 DEF SymInv, StateInv, TableInv, Unique, GlobalIn, LiveIn, GlobalsUnique, IsGlobal, Live
<1>2. Described => GlobalsUnique
  BY <1>1 DEF Described
<1> QED BY <1>2, SymInvariant, PTL
=============================================================================

--------------------------- MODULE PacketsProofs ----------------------------
(* What the texts and packets of Packets come to, for buffers of every      *)
(* size and every text, list of modules and list of packets.                *)
EXTENDS Packets, FiniteSetTheorems, WellFoundedInduction, TLAPS

(* The least element of a set of numbers, and of two or three of them.      *)
LEMMA MinOfSet ==
    ASSUME NEW S \in SUBSET Nat, S # {}
    PROVE  Min(S) \in S /\ \A x \in S : Min(S) <= x
<1> DEFINE R == OpToRel(<, Nat)
<1>1. \A m, n \in Nat : m < n => <<m, n>> \in R
  BY DEF OpToRel
<1>2. IsWellFoundedOn(R, Nat)
  BY NatLessThanWellFounded
<1> HIDE DEF R
<1>3. \E n \in S : \A m \in S : ~ (<<m, n>> \in R)
  BY <1>2, WFMin, Zenon
<1>4. PICK n \in S : \A m \in S : ~ (<<m, n>> \in R)
  BY <1>3
<1>5. ASSUME NEW m \in S PROVE n <= m
  <2>1. m \in Nat /\ n \in Nat
    OBVIOUS
  <2>2. ~ (m < n)
    BY <1>1, <1>4, <2>1, Zenon
  <2> QED BY <2>1, <2>2
<1> QED BY <1>5 DEF Min

(* Min and Max pick the smaller and the larger of two numbers.              *)
LEMMA MinOfTwo ==
    ASSUME NEW a \in Int, NEW b \in Int
    PROVE  Min({a, b}) = IF a <= b THEN a ELSE b
<1> DEFINE m == IF a <= b THEN a ELSE b
<1>1. m \in {a, b} /\ \A x \in {a, b} : m <= x
  OBVIOUS
<1>2. \A n \in {a, b} : (\A x \in {a, b} : n <= x) => n = m
  OBVIOUS
<1> QED BY <1>1, <1>2 DEF Min

LEMMA MaxOfTwo ==
    ASSUME NEW a \in Int, NEW b \in Int
    PROVE  Max({a, b}) = IF a >= b THEN a ELSE b
<1> DEFINE m == IF a >= b THEN a ELSE b
<1>1. m \in {a, b} /\ \A x \in {a, b} : m >= x
  OBVIOUS
<1>2. \A n \in {a, b} : (\A x \in {a, b} : n >= x) => n = m
  OBVIOUS
<1> QED BY <1>1, <1>2 DEF Max

(* What is least of three numbers is their Min.                             *)
LEMMA MinOfThree ==
    ASSUME NEW a \in Int, NEW b \in Int, NEW c \in Int,
           NEW m \in {a, b, c}, m <= a, m <= b, m <= c
    PROVE  Min({a, b, c}) = m
<1>1. \A n \in {a, b, c} : (\A x \in {a, b, c} : n <= x) => n = m
  OBVIOUS
<1> QED BY <1>1 DEF Min

(* What a sequence over S holds is in S.                                    *)
LEMMA ElementIs ==
    ASSUME NEW S, NEW s \in Seq(S), NEW k \in DOMAIN s PROVE s[k] \in S
OBVIOUS

(* Induction up to a bound, about a set: there is no least exception.       *)
LEMMA Induction ==
    ASSUME NEW N \in Nat, NEW S, 0 \in S,
           \A n \in 0 .. N - 1 : n \in S => n + 1 \in S
    PROVE  \A n \in 0 .. N : n \in S
<1> DEFINE T == (0 .. N) \ S
<1>1. ASSUME T # {} PROVE FALSE
  <2>1. T \in SUBSET Nat
    OBVIOUS
  <2>2. PICK m \in T : \A x \in T : m <= x
    BY <1>1, <2>1, MinOfSet
  <2>3. m \in 1 .. N /\ m - 1 \in 0 .. N - 1 /\ m - 1 \notin T
    BY <2>2
  <2> QED BY <2>2, <2>3
<1> QED BY <1>1

(* A function defined by what each step makes of the value before exists.   *)
Steps(N, A) == [1 .. N -> [A -> A]]
Follow(f, N, base, step) ==
    f[0] = base /\ \A n \in 1 .. N : f[n] = step[n][f[n - 1]]

(* Such a function exists: the table grows by one step at a time.           *)
LEMMA Recursion ==
    ASSUME NEW N \in Nat, NEW A, NEW base \in A, NEW step \in Steps(N, A)
    PROVE  \E f \in [0 .. N -> A] : Follow(f, N, base, step)
<1> USE DEF Steps, Follow
<1> DEFINE Defines(f, n) ==
              f[0] = base /\ \A k \in 1 .. n : f[k] = step[k][f[k - 1]]
           S == {n \in 0 .. N : \E f \in [0 .. n -> A] : Defines(f, n)}
<1>1. 0 \in S
  <2> DEFINE g == [k \in 0 .. 0 |-> base]
  <2>1. g \in [0 .. 0 -> A] /\ Defines(g, 0)
    OBVIOUS
  <2> HIDE DEF g
  <2>2. 0 \in 0 .. N
    OBVIOUS
  <2> QED BY <2>1, <2>2, Zenon
<1>2. ASSUME NEW n \in 0 .. N - 1, n \in S PROVE n + 1 \in S
  <2>1. PICK f \in [0 .. n -> A] : Defines(f, n)
    BY <1>2
  <2> DEFINE g == [k \in 0 .. n + 1 |->
                     IF k = n + 1 THEN step[n + 1][f[n]] ELSE f[k]]
  <2>2. step[n + 1] \in [A -> A] /\ f[n] \in A
    OBVIOUS
  <2>3. g \in [0 .. n + 1 -> A]
    BY <2>2
  <2>4. g[0] = base
    BY <2>1
  <2>5. ASSUME NEW k \in 1 .. n + 1 PROVE g[k] = step[k][g[k - 1]]
    BY <2>1
  <2> HIDE DEF g
  <2>6. Defines(g, n + 1)
    BY <2>4, <2>5
  <2> QED BY <2>3, <2>6
<1> HIDE DEF S
<1>3. \A n \in 0 .. N - 1 : n \in S => n + 1 \in S
  BY <1>2
<1>4. \A n \in 0 .. N : n \in S
  BY <1>1, <1>3, Induction, Zenon
<1>5. N \in S
  BY <1>4
<1> QED BY <1>5 DEF S

-----------------------------------------------------------------------------
(* strlen: up to the first NUL, or the end of the buffer.                   *)
LEMMA StrLenIs ==
    ASSUME NEW s \in Seq(Chars), NEW i \in 1 .. Len(s)
    PROVE  /\ StrLen(s, i) \in Nat /\ i + StrLen(s, i) <= Len(s) + 1
           /\ \A k \in i .. i + StrLen(s, i) - 1 : s[k] # NUL
           /\ i + StrLen(s, i) <= Len(s) => s[i + StrLen(s, i)] = NUL
<1> DEFINE ends == {k \in i .. Len(s) : s[k] = NUL} \cup {Len(s) + 1}
<1>1. ends \in SUBSET Nat /\ ends # {}
  OBVIOUS
<1>2. Min(ends) \in ends /\ \A x \in ends : Min(ends) <= x
  BY <1>1, MinOfSet
<1> DEFINE e == Min(ends)
<1>3. StrLen(s, i) = e - i
  BY DEF StrLen
<1>4. e \in i .. Len(s) + 1 /\ (e <= Len(s) => s[e] = NUL)
  BY <1>2
<1>5. \A k \in i .. e - 1 : s[k] # NUL
  BY <1>2, <1>4
<1> HIDE DEF e
<1> QED BY <1>3, <1>4, <1>5

(* Behind the buffer there is nothing but empty texts.                      *)
LEMMA StrLenBehind ==
    ASSUME NEW s \in Seq(Chars), NEW i \in Nat, i > Len(s)
    PROVE  StrLen(s, i) = 0
BY DEF StrLen

(* A text that has no NUL before one, and ends there, is that long.         *)
LEMMA StrLenUnique ==
    ASSUME NEW s \in Seq(Chars), NEW i \in 1 .. Len(s), NEW n \in Nat,
           i + n <= Len(s), s[i + n] = NUL, \A k \in i .. i + n - 1 : s[k] # NUL
    PROVE  StrLen(s, i) = n
<1> DEFINE l == StrLen(s, i)
<1>1. /\ l \in Nat /\ i + l <= Len(s) + 1
      /\ \A k \in i .. i + l - 1 : s[k] # NUL
      /\ i + l <= Len(s) => s[i + l] = NUL
  BY StrLenIs
<1> HIDE DEF l
<1>2. ~ (n < l)
  BY <1>1
<1>3. ~ (l < n)
  BY <1>1
<1> QED BY <1>1, <1>2, <1>3 DEF l

-----------------------------------------------------------------------------
(* The exception handler of the IOP.                                        *)

Found(mods, epc, found) ==
    LET in == {k \in DOMAIN mods : Inside(mods[k], epc)}
        behind == {k \in DOMAIN mods : epc = mods[k].start + mods[k].size}
    IN
    /\ found.module = 0 => in = {} /\ found.r_epc = epc
    /\ found.module # 0 => epc = mods[found.module].start + found.r_epc
    /\ in # {} /\ behind = {} => found.module = Min(in)

(* The code's test takes an address of the module or the one just behind.   *)
LEMMA HoldsIs ==
    ASSUME NEW m \in [start : Nat, size : Nat], NEW epc \in Nat
    PROVE  /\ m.start \in Nat
           /\ Holds(m, epc) <=> Inside(m, epc) \/ epc = m.start + m.size
<1>1. m.start \in Nat /\ m.size \in Nat
  OBVIOUS
<1> QED BY <1>1 DEF Inside, Holds

(* The search finds what ModuleFound asks of it, for one list and           *)
(* address.                                                                 *)
LEMMA FindModuleIs ==
    ASSUME NEW mods \in Seq([start : Nat, size : Nat]), NEW epc \in Nat
    PROVE  Found(mods, epc, FindModule(mods, epc))
<1> DEFINE holds == {k \in DOMAIN mods : Holds(mods[k], epc)}
           in == {k \in DOMAIN mods : Inside(mods[k], epc)}
           behind == {k \in DOMAIN mods : epc = mods[k].start + mods[k].size}
           found == FindModule(mods, epc)
<1>1. ASSUME NEW k \in DOMAIN mods
      PROVE  /\ mods[k].start \in Nat
             /\ Holds(mods[k], epc)
                  <=> \/ Inside(mods[k], epc)
                      \/ epc = mods[k].start + mods[k].size
  <2>1. mods[k] \in [start : Nat, size : Nat]
    BY ElementIs, Zenon
  <2> QED BY <2>1, HoldsIs, Zenon
<1>2. holds = in \cup behind
  BY <1>1, Zenon
<1>3. CASE holds = {}
  <2>1. found = [module |-> 0, r_epc |-> epc]
    BY <1>3 DEF FindModule
  <2>2. in = {}
    BY <1>2, <1>3
  <2> HIDE DEF found
  <2> QED BY <2>1, <2>2 DEF Found, found
<1>4. CASE holds # {}
  <2> DEFINE m == Min(holds)
  <2>1. found = [module |-> m, r_epc |-> epc - mods[m].start]
    BY <1>4 DEF FindModule
  <2>2. holds \in SUBSET Nat
    OBVIOUS
  <2>3. m \in DOMAIN mods /\ m # 0
    <3>1. m \in holds
      BY <1>4, <2>2, MinOfSet
    <3> QED BY <3>1
  <2>4. behind = {} => m = Min(in)
    BY <1>2
  <2>5. mods[m].start \in Nat
    BY <1>1, <2>3
  <2> HIDE DEF m, found
  <2>6. found.module = m /\ epc = mods[m].start + found.r_epc
    BY <2>1, <2>5
  <2> QED BY <2>3, <2>4, <2>6 DEF Found, found
<1> QED BY <1>3, <1>4

(* An address inside a module is reported with the module, whatever modules *)
(* there are and wherever they lie.                                         *)
THEOREM ModuleAlwaysFound == Spec => []ModuleFound
<1>1. Init => ModuleFound
  BY DEF Init, Nothing, ModuleFound
<1>2. ModuleFound /\ [Next]_vars => ModuleFound'
  <2> SUFFICES ASSUME ModuleFound, [Next]_vars PROVE ModuleFound'
    OBVIOUS
  <2>1. CASE Locate
    <3>1. PICK mods \in ModuleLists, epc \in Epcs :
             /\ job' = [kind |-> "locate", mods |-> mods, epc |-> epc]
             /\ done' = FindModule(mods, epc)
      BY <2>1 DEF Locate
    <3>2. mods \in Seq([start : Nat, size : Nat]) /\ epc \in Nat
      BY PacketsAssumption
    <3>3. job'.mods = mods /\ job'.epc = epc
      BY <3>1
    <3> QED BY <3>1, <3>2, <3>3, FindModuleIs DEF Found, ModuleFound
  <2>2. CASE Configure \/ ExecEE \/ ExecIop \/ NameModule \/ SendPackets
    <3>1. job'.kind # "locate"
      BY <2>2 DEF Configure, ExecEE, ExecIop, NameModule, SendPackets
    <3> QED BY <3>1 DEF ModuleFound
  <2>3. CASE UNCHANGED vars
    BY <2>3 DEF vars, ModuleFound
  <2> QED BY <2>1, <2>2, <2>3 DEF Next
<1> QED BY <1>1, <1>2, PTL DEF Spec

(* The copy of a name, for one name and one limit: its field is filled,     *)
(* it ends, and it is as long as it may be.                                 *)
LEMMA CopyNameIs ==
    ASSUME NEW src \in Seq(Chars), NEW limit \in Nat,
           NEW copy, copy = CopyName(src, limit)
    PROVE  /\ Len(copy.name) = NameBytes
           /\ copy.name[copy.length + 1] = NUL
           /\ SubSeq(copy.name, 1, copy.length) = SubSeq(src, 1, copy.length)
           /\ copy.length = Min({limit, NameBytes - 1, StrLen(src, 1)})
<1> DEFINE l == StrLen(src, 1)
           n == Min({NameLimit(limit), l})
<1>1. l \in Nat /\ l <= Len(src)
  BY StrLenIs, StrLenBehind
<1>2. NameLimit(limit) = IF limit <= NameBytes - 1 THEN limit ELSE NameBytes - 1
  BY PacketsAssumption DEF NameLimit
<1>3. /\ n \in Nat /\ n \in {limit, NameBytes - 1, l}
      /\ n <= limit /\ n <= NameBytes - 1 /\ n <= l
  BY <1>1, <1>2, MinOfTwo, PacketsAssumption
<1>4. n = Min({limit, NameBytes - 1, l})
  BY <1>1, <1>3, MinOfThree, PacketsAssumption
<1> HIDE DEF l, n
<1>5. Max({NameBytes, n + 1}) = NameBytes
  BY <1>3, MaxOfTwo, PacketsAssumption
<1>6. copy = [length |-> n,
              name |-> [k \in 1 .. NameBytes |->
                          IF k <= n THEN src[k]
                          ELSE IF k = n + 1 THEN NUL ELSE "?"]]
  BY <1>5 DEF CopyName, n, l
<1>7. Len(copy.name) = NameBytes /\ copy.name[n + 1] = NUL
  BY <1>3, <1>6, PacketsAssumption
<1>8. \A k \in 1 .. n : copy.name[k] = src[k]
  BY <1>3, <1>6, PacketsAssumption
<1>9. SubSeq(copy.name, 1, n) = SubSeq(src, 1, n)
  BY <1>1, <1>3, <1>8
<1>10. copy.length = n
  BY <1>6
<1> QED BY <1>4, <1>7, <1>9, <1>10 DEF l

(* The name of a module ends inside its field, whatever lies in memory      *)
(* where the name should be.                                                *)
THEOREM NameAlwaysEnds == Spec => []NameEnds
<1>1. Init => NameEnds
  BY DEF Init, Nothing, NameEnds
<1>2. NameEnds /\ [Next]_vars => NameEnds'
  <2> SUFFICES ASSUME NameEnds, [Next]_vars PROVE NameEnds'
    OBVIOUS
  <2>1. CASE NameModule
    <3>1. PICK src \in Names, limit \in 0 .. 2 * NameBytes :
             /\ job' = [kind |-> "name", src |-> src, limit |-> limit]
             /\ done' = CopyName(src, limit)
      BY <2>1 DEF NameModule
    <3>2. src \in Seq(Chars) /\ limit \in Nat
      BY PacketsAssumption
    <3>3. job'.src = src /\ job'.limit = limit
      BY <3>1
    <3> QED BY <3>1, <3>2, <3>3, CopyNameIs DEF NameEnds
  <2>2. CASE Configure \/ ExecEE \/ ExecIop \/ Locate \/ SendPackets
    <3>1. job'.kind # "name"
      BY <2>2 DEF Configure, ExecEE, ExecIop, Locate, SendPackets
    <3> QED BY <3>1 DEF NameEnds
  <2>3. CASE UNCHANGED vars
    BY <2>3 DEF vars, NameEnds
  <2> QED BY <2>1, <2>2, <2>3 DEF Next
<1> QED BY <1>1, <1>2, PTL DEF Spec

-----------------------------------------------------------------------------
(* pkoSendSifCmd.  The packets are counted as they are sent; what the       *)
(* mailbox holds of the last one depends on nothing before it.              *)

Unsent == [n |-> 0, data |-> [k \in 0 .. BufPairs - 1 |-> 0],
           mailbox |-> [k \in 0 .. BufPairs - 1 |-> 0]]
Buffers == [n : Nat, data : [0 .. BufPairs - 1 -> Nat],
            mailbox : [0 .. BufPairs - 1 -> Nat]]
SentFrom(list, f) ==
    [m \in 0 .. Len(list) |-> IF m = 0 THEN Unsent
                              ELSE SendSifCmd(f[m - 1], list[m])]

(* A cell of a buffer, and a buffer all of whose cells are filled.          *)
LEMMA CellIs ==
    ASSUME NEW D, NEW S, NEW f \in [D -> S], NEW k \in D
    PROVE  f[k] \in S
  OBVIOUS

LEMMA FilledIs ==
    ASSUME NEW D, NEW S, NEW f, f = [k \in D |-> f[k]], \A k \in D : f[k] \in S
    PROVE  f \in [D -> S]
  OBVIOUS

(* Sending a packet leaves two buffers full of packet numbers.              *)
LEMMA SendKeeps ==
    ASSUME NEW acc \in Buffers, NEW p
    PROVE  SendSifCmd(acc, p) \in Buffers
<1> DEFINE len == Min({p.size, BufPairs})
           cells == 0 .. BufPairs - 1
           slots == 0 .. BufPairs - 1
           n == acc.n + 1
           data == [k \in cells |-> IF k < len + 2 THEN n ELSE acc.data[k]]
           mailbox == [k \in slots |->
                         IF k < DmaLen(len) THEN data[k] ELSE acc.mailbox[k]]
<1>1. /\ acc.n \in Nat /\ acc.data \in [cells -> Nat]
      /\ acc.mailbox \in [slots -> Nat]
  BY DEF Buffers
<1>2. n \in Nat
  BY ONLY <1>1
<1>3. \A k \in slots : k \in cells
  BY DEF BufPairs
<1>4. SendSifCmd(acc, p) = [n |-> n, data |-> data, mailbox |-> mailbox]
  BY Zenon DEF SendSifCmd
<1> HIDE DEF len, n, cells, slots
<1>5. data = [k \in cells |-> data[k]]
  BY Zenon
<1>6. \A k \in cells : data[k] \in {n, acc.data[k]}
  BY Zenon
<1> HIDE DEF data
<1>7. \A k \in slots : mailbox[k] \in {data[k], acc.mailbox[k]}
  BY Zenon
<1>8. mailbox = [k \in slots |-> mailbox[k]]
  BY Zenon
<1> HIDE DEF mailbox
<1>9. data \in [cells -> Nat]
  <2>1. \A k \in cells : acc.data[k] \in Nat
    BY <1>1, CellIs, Zenon
  <2>2. \A k \in cells : data[k] \in Nat
    BY <1>2, <1>6, <2>1, Zenon
  <2> QED BY <1>5, <2>2, FilledIs, Zenon
<1>10. mailbox \in [slots -> Nat]
  <2>1. \A k \in slots : acc.mailbox[k] \in Nat /\ data[k] \in Nat
    BY <1>1, <1>3, <1>9, CellIs, Zenon
  <2>2. \A k \in slots : mailbox[k] \in Nat
    BY <1>7, <2>1, Zenon
  <2> QED BY <1>8, <2>2, FilledIs, Zenon
<1> QED BY ONLY <1>2, <1>4, <1>9, <1>10 DEF Buffers, cells, slots

(* SendAll is the last value of its recursion: the function it defines      *)
(* exists.                                                                  *)
LEMMA SendAllIs ==
    ASSUME NEW list, Len(list) \in Nat
    PROVE  \E f : f = SentFrom(list, f) /\ SendAll(list) = f[Len(list)]
<1> DEFINE N == Len(list)
           step == [m \in 1 .. N |-> [acc \in Buffers |->
                      SendSifCmd(acc, list[m])]]
<1>1. Unsent \in Buffers
  BY DEF Unsent, Buffers
<1>2. step \in Steps(N, Buffers)
  BY SendKeeps DEF Steps
<1>3. \A m \in 1 .. N, acc \in Buffers : step[m][acc] = SendSifCmd(acc, list[m])
  OBVIOUS
<1> HIDE DEF step
<1>4. PICK g \in [0 .. N -> Buffers] : Follow(g, N, Unsent, step)
  BY <1>1, <1>2, Recursion
<1>5. ASSUME NEW m \in 1 .. N PROVE g[m] = SendSifCmd(g[m - 1], list[m])
  <2>1. g[m - 1] \in Buffers
    OBVIOUS
  <2> QED BY <1>3, <1>4, <2>1, Zenon DEF Follow
<1>6. g = SentFrom(list, g)
  BY <1>4, <1>5 DEF SentFrom, Follow
<1> DEFINE sent == CHOOSE f : f = SentFrom(list, f)
<1>7. sent = SentFrom(list, sent)
  BY <1>6, Zenon
<1>8. SendAll(list) = sent[N]
  BY DEF SendAll, SentFrom, Unsent
<1> QED BY <1>7, <1>8

(* Sending a packet counts it.                                             *)
LEMMA SendCounts ==
    ASSUME NEW acc, NEW p
    PROVE  SendSifCmd(acc, p).n = acc.n + 1
<1> DEFINE N == acc.n + 1
<1>1. \E data, mailbox :
        SendSifCmd(acc, p) = [n |-> N, data |-> data, mailbox |-> mailbox]
  BY Zenon DEF SendSifCmd
<1> HIDE DEF N
<1>2. SendSifCmd(acc, p).n = N
  BY ONLY <1>1
<1> QED BY <1>2, Zenon DEF N

(* The n-th packet sent is number n.                                        *)
LEMMA SentCounts ==
    ASSUME NEW list, Len(list) \in Nat, NEW f, f = SentFrom(list, f)
    PROVE  \A m \in 0 .. Len(list) : f[m].n = m
<1> DEFINE S == {m \in 0 .. Len(list) : f[m].n = m}
<1>1. f[0] = Unsent
  BY DEF SentFrom
<1>2. 0 \in S
  BY <1>1 DEF Unsent
<1>3. ASSUME NEW m \in 0 .. Len(list) - 1, m \in S PROVE m + 1 \in S
  <2>1. f[m + 1] = SendSifCmd(f[m], list[m + 1])
    <3>1. m + 1 \in 0 .. Len(list) /\ m + 1 # 0 /\ (m + 1) - 1 = m
      OBVIOUS
    <3>2. f[m + 1] = IF m + 1 = 0 THEN Unsent
                     ELSE SendSifCmd(f[(m + 1) - 1], list[m + 1])
      <4>1. \A j \in 0 .. Len(list) :
              f[j] = IF j = 0 THEN Unsent ELSE SendSifCmd(f[j - 1], list[j])
        BY Zenon DEF SentFrom
      <4> QED BY ONLY <3>1, <4>1, Zenon
    <3> QED BY ONLY <3>1, <3>2, Zenon
  <2>2. f[m + 1].n = f[m].n + 1
    BY <2>1, SendCounts, Zenon
  <2> QED BY <1>3, <2>2
<1>4. \A m \in 0 .. Len(list) : m \in S
  <2> HIDE DEF S
  <2> QED BY <1>2, <1>3, Induction
<1> QED BY <1>4

(* Rounding up to the DMA's unit loses nothing, and adds less than a unit.  *)
LEMMA DmaLenIs ==
    ASSUME NEW len \in Nat
    PROVE  DmaLen(len) \in Nat /\ len <= DmaLen(len) /\ DmaLen(len) < len + Align
BY DEF DmaLen, Align

(* The last packet lies in the mailbox as far as its transfer goes, and the *)
(* two pairs behind it that belong to it.                                   *)
LEMMA LastArrives ==
    ASSUME NEW list \in Seq(Sendable), list # <<>>
    PROVE  LET size == Last(list).size
           IN  \A k \in 0 .. size + 1 : k < DmaLen(size) =>
                  SendAll(list).mailbox[k] = Len(list)
<1> DEFINE N == Len(list)
           size == Last(list).size
<1>1. N \in Nat /\ N >= 1 /\ Last(list) = list[N]
  BY DEF Last
<1>2. size \in 3 .. BufPairs
  <2>1. N \in DOMAIN list
    BY <1>1
  <2>2. list[N] \in Sendable
    BY <2>1, ElementIs, Zenon
  <2> QED BY <1>1, <2>2 DEF Sendable
<1> HIDE DEF size
<1>3. Min({size, BufPairs}) = size
  BY <1>2, MinOfTwo DEF BufPairs
<1>4. PICK f : f = SentFrom(list, f) /\ SendAll(list) = f[N]
  BY <1>1, SendAllIs
<1>5. f[N] = SendSifCmd(f[N - 1], list[N]) /\ f[N - 1].n = N - 1
  BY <1>1, <1>4, SentCounts DEF SentFrom
<1> SUFFICES ASSUME NEW k \in 0 .. size + 1, k < DmaLen(size)
             PROVE  SendAll(list).mailbox[k] = N
  BY DEF size
<1>6. k \in 0 .. BufPairs - 1 /\ k < size + 2
  BY <1>2 DEF BufPairs, DmaLen, Align
<1>7. f[N].mailbox[k] = N - 1 + 1
  <2>1. size = list[N].size
    BY <1>1 DEF size
  <2>2. SendSifCmd(f[N - 1], list[N]).mailbox[k] = f[N - 1].n + 1
    BY <1>3, <1>6, <2>1, Zenon DEF SendSifCmd
  <2> QED BY <1>5, <2>2
<1> QED BY <1>1, <1>4, <1>7

(* A name arrives up to its end, whatever was sent before its packet and    *)
(* of whatever length, a packet's own length included, with the exceptions  *)
(* NameArrives makes.                                                       *)
THEOREM NameAlwaysArrives == Spec => []NameArrives
<1>1. Init => NameArrives
  BY DEF Init, Nothing, NameArrives
<1>2. NameArrives /\ [Next]_vars => NameArrives'
  <2> SUFFICES ASSUME NameArrives, [Next]_vars PROVE NameArrives'
    OBVIOUS
  <2>1. CASE SendPackets
    <3>1. PICK list \in SendLists :
             /\ job' = [kind |-> "send", list |-> list]
             /\ done' = SendAll(list).mailbox
      BY <2>1 DEF SendPackets
    <3>2. job'.list = list
      BY <3>1
    <3>3. /\ list \in Seq(Sendable) /\ list # <<>>
          /\ \A m \in DOMAIN list : list[m].length <= Shape[list[m].kind].room
      BY SendListsAssumption
    <3> DEFINE p == Last(list)
               s == Shape[p.kind]
               end == s.name + p.length
    <3>4. p \in Sendable /\ p.length <= s.room
      <4>1. Len(list) \in DOMAIN list /\ p = list[Len(list)]
        BY <3>3 DEF Last
      <4> HIDE DEF p
      <4> QED BY <3>3, <4>1, ElementIs
    <3>5. /\ p.kind \in DOMAIN Shape /\ p.length \in Nat
          /\ p.size \in 3 .. BufPairs
      BY <3>4 DEF Sendable
    <3> HIDE DEF p
    <3>6. ASSUME IF p.size = s.size
                 THEN ~ (p.kind = "memio" /\ p.length = s.room)
                 ELSE end + 2 <= p.size,
                 NEW k \in 0 .. end + 1
          PROVE  k \in 0 .. p.size + 1 /\ k < DmaLen(p.size)
      <4>1. end \in Nat
        BY <3>5 DEF Shape
      <4>2. CASE p.size = s.size
        BY <3>4, <3>5, <3>6, <4>2 DEF Shape, DmaLen, Align
      <4>3. CASE p.size # s.size
        BY <3>5, <3>6, <4>1, <4>3, DmaLenIs
      <4> QED BY <4>2, <4>3
    <3>7. \A k \in 0 .. p.size + 1 :
             k < DmaLen(p.size) => done'[k] = Len(list)
      BY <3>1, <3>3, LastArrives DEF p
    <3> QED BY <3>2, <3>6, <3>7 DEF NameArrives, p
  <2>2. CASE Configure \/ ExecEE \/ ExecIop \/ Locate \/ NameModule
    <3>1. job'.kind # "send"
      BY <2>2 DEF Configure, ExecEE, ExecIop, Locate, NameModule
    <3> QED BY <3>1 DEF NameArrives
  <2>3. CASE UNCHANGED vars
    BY <2>3 DEF vars, NameArrives
  <2> QED BY <2>1, <2>2, <2>3 DEF Next
<1> QED BY <1>1, <1>2, PTL DEF Spec

-----------------------------------------------------------------------------
(* The texts of a packet, whose last byte is NUL: they are numbered by how  *)
(* many start before them.                                                  *)
Buffer == [1 .. PathLen -> Chars]
Before(S, s) == {x \in S : x < s}

(* The starts of a packet's texts: its first byte, and what is behind a     *)
(* NUL; a finite set of places in the packet.                               *)
LEMMA StartsAre ==
    ASSUME NEW t
    PROVE  /\ Starts(t) \in SUBSET (1 .. PathLen) /\ 1 \in Starts(t)
           /\ IsFiniteSet(Starts(t)) /\ Cardinality(Starts(t)) \in Nat \ {0}
           /\ \A a \in 2 .. PathLen : a \in Starts(t) <=> t[a - 1] = NUL
<1> DEFINE S == Starts(t)
<1>1. PathLen \in Nat \ {0}
  BY PacketsAssumption
<1>2. S \in SUBSET (1 .. PathLen) /\ 1 \in S
  BY <1>1 DEF Starts
<1>3. \A a \in 2 .. PathLen : a \in S <=> t[a - 1] = NUL
  BY <1>1 DEF Starts
<1> HIDE DEF S
<1>4. IsFiniteSet(1 .. PathLen)
  BY <1>1, FS_Interval
<1>5. IsFiniteSet(S) /\ Cardinality(S) \in Nat
  BY <1>2, <1>4, FS_Subset, FS_CardinalityType
<1>6. Cardinality(S) # 0
  BY <1>2, <1>5, FS_EmptySet
<1> QED BY <1>2, <1>3, <1>5, <1>6 DEF S

(* How many elements lie before one of a finite set: fewer than it has.     *)
LEMMA BeforeCounts ==
    ASSUME NEW S \in SUBSET Nat, IsFiniteSet(S), NEW s \in Nat
    PROVE  /\ IsFiniteSet(Before(S, s))
           /\ Cardinality(Before(S, s)) \in Nat
           /\ Cardinality(Before(S, s)) <= Cardinality(S)
           /\ s \in S => Cardinality(Before(S, s)) < Cardinality(S)
<1>1. Before(S, s) \in SUBSET S
  BY DEF Before
<1>2. /\ IsFiniteSet(Before(S, s))
      /\ Cardinality(Before(S, s)) <= Cardinality(S)
      /\ Cardinality(S) = Cardinality(Before(S, s)) => S = Before(S, s)
  BY <1>1, FS_Subset
<1>3. Cardinality(Before(S, s)) \in Nat /\ Cardinality(S) \in Nat
  BY <1>2, FS_CardinalityType
<1>4. s \in S => S # Before(S, s)
  BY DEF Before
<1> QED BY <1>2, <1>3, <1>4

(* No two elements of a set of numbers have as many before them.            *)
LEMMA NthIs ==
    ASSUME NEW S \in SUBSET Nat, IsFiniteSet(S), NEW s \in S, NEW n \in Nat,
           Cardinality(Before(S, s)) = n - 1
    PROVE  Nth(S, n) = s
<1>1. ASSUME NEW a \in S, NEW b \in S, a < b
      PROVE  Cardinality(Before(S, a)) < Cardinality(Before(S, b))
  <2> DEFINE T == Before(S, b)
  <2>1. T \in SUBSET Nat /\ IsFiniteSet(T) /\ a \in T
    BY <1>1, BeforeCounts DEF Before
  <2>2. Before(T, a) = Before(S, a)
    <3>1. \A x \in S : x < a => x < b
      BY <1>1
    <3> QED BY <3>1, Zenon DEF Before
  <2> HIDE DEF T
  <2>3. Cardinality(Before(T, a)) < Cardinality(T)
    BY <2>1, BeforeCounts
  <2> QED BY <2>2, <2>3 DEF T
<1>2. ASSUME NEW a \in S, Cardinality(Before(S, a)) = n - 1 PROVE a = s
  <2>1. a \in Nat /\ s \in Nat
    OBVIOUS
  <2>2. ~ (a < s) /\ ~ (s < a)
    BY <1>1, <1>2, BeforeCounts
  <2> QED BY <2>1, <2>2
<1>3. Nth(S, n) = CHOOSE a \in S : Cardinality(Before(S, a)) = n - 1
  BY DEF Nth, Before
<1> QED BY <1>2, <1>3

(* The text behind the one at a starts where a plus its length and its      *)
(* NUL ends, and has one start more before it.                              *)
LEMMA NextStart ==
    ASSUME NEW t \in Buffer, t[PathLen] = NUL, NEW a \in Starts(t), NEW b,
           b = a + StrLen(t, a) + 1
    PROVE  /\ b \in 1 .. PathLen + 1
           /\ b <= PathLen => b \in Starts(t)
           /\ Cardinality(Before(Starts(t), b)) =
                Cardinality(Before(Starts(t), a)) + 1
<1> DEFINE S == Starts(t)
           l == StrLen(t, a)
<1>1. PathLen \in Nat \ {0}
  BY PacketsAssumption
<1>2. t \in Seq(Chars) /\ Len(t) = PathLen
  BY <1>1 DEF Buffer
<1>3. /\ S \in SUBSET (1 .. PathLen) /\ IsFiniteSet(S)
      /\ \A x \in 2 .. PathLen : x \in S <=> t[x - 1] = NUL
  BY StartsAre
<1>4. a \in 1 .. PathLen
  BY <1>3
<1>5. /\ l \in Nat /\ a + l <= PathLen + 1
      /\ \A k \in a .. a + l - 1 : t[k] # NUL
      /\ a + l <= PathLen => t[a + l] = NUL
  BY <1>2, <1>4, StrLenIs
<1> HIDE DEF l, S
<1>6. a + l <= PathLen
  BY <1>1, <1>4, <1>5
<1>7. b \in a + 1 .. PathLen + 1 /\ b - 1 = a + l
  BY <1>1, <1>4, <1>5, <1>6 DEF l
<1>8. b <= PathLen => b \in S
  BY <1>1, <1>3, <1>4, <1>5, <1>6, <1>7
<1>9. ASSUME NEW x \in S PROVE x < b <=> x < a \/ x = a
  <2>1. x \in 1 .. PathLen
    BY <1>3
  <2>2. ASSUME a < x, x < b PROVE FALSE
    <3>1. x - 1 \in a .. a + l - 1 /\ x \in 2 .. PathLen
      BY <1>4, <1>5, <1>7, <2>1, <2>2
    <3> QED BY <1>3, <1>5, <3>1
  <2> QED BY <1>4, <1>7, <2>1, <2>2
<1>10. Before(S, b) = Before(S, a) \cup {a}
  BY <1>9 DEF Before, S
<1>11. a \notin Before(S, a) /\ IsFiniteSet(Before(S, a))
  BY <1>3, <1>4, BeforeCounts DEF Before
<1>12. Cardinality(Before(S, b)) = Cardinality(Before(S, a)) + 1
  BY <1>10, <1>11, FS_AddElement
<1> QED BY <1>1, <1>4, <1>7, <1>8, <1>12 DEF S

(* Where a walk from text to text is after i - 1 steps.                     *)
At(t, a, i) ==
    LET n == Cardinality(Starts(t)) IN
    IF a <= PathLen
    THEN a \in Starts(t) /\ Cardinality(Before(Starts(t), a)) = i - 1 /\ i <= n
    ELSE n <= i - 1 /\ (n = i - 1 => a = PathLen + 1)

(* One step of the walk goes from the i-th text to the next, or from the    *)
(* end of the packet further behind it.                                     *)
LEMMA AtNext ==
    ASSUME NEW t \in Buffer, t[PathLen] = NUL, NEW a \in Nat \ {0},
           NEW i \in Nat \ {0}, At(t, a, i)
    PROVE  /\ a + StrLen(t, a) + 1 \in Nat \ {0}
           /\ At(t, a + StrLen(t, a) + 1, i + 1)
<1> DEFINE S == Starts(t)
           n == Cardinality(S)
           b == a + StrLen(t, a) + 1
<1>1. PathLen \in Nat \ {0}
  BY PacketsAssumption
<1>2. S \in SUBSET (1 .. PathLen) /\ IsFiniteSet(S) /\ n \in Nat
  BY StartsAre
<1>3. CASE a <= PathLen
  <2>1. a \in S /\ Cardinality(Before(S, a)) = i - 1
    BY <1>3 DEF At
  <2>2. /\ b \in 1 .. PathLen + 1
        /\ b <= PathLen => b \in S
        /\ Cardinality(Before(S, b)) = i
    BY <2>1, NextStart
  <2> HIDE DEF b, S
  <2>3. CASE b <= PathLen
    <3>1. Cardinality(Before(S, b)) < n
      BY <1>2, <2>2, <2>3, BeforeCounts
    <3>2. At(t, b, i + 1)
      BY <1>2, <2>2, <2>3, <3>1 DEF At, S
    <3> QED BY <2>2, <3>2 DEF b
  <2>4. CASE b > PathLen
    <3>1. b = PathLen + 1
      BY <1>1, <2>2, <2>4
    <3>2. Before(S, b) = S
      <4>1. \A x \in S : x < b
        BY <1>1, <1>2, <3>1
      <4> QED BY <4>1, Zenon DEF Before
    <3>3. At(t, b, i + 1)
      BY <1>1, <1>2, <2>2, <3>1, <3>2 DEF At, S
    <3> QED BY <2>2, <3>3 DEF b
  <2> QED BY <1>1, <2>2, <2>3, <2>4
<1>4. CASE a > PathLen
  <2>1. t \in Seq(Chars) /\ Len(t) = PathLen
    BY <1>1 DEF Buffer
  <2>2. b = a + 1
    BY <1>4, <2>1, StrLenBehind
  <2>3. n <= i - 1
    BY <1>1, <1>4 DEF At
  <2> HIDE DEF b
  <2>4. At(t, b, i + 1)
    BY <1>1, <1>2, <1>4, <2>2, <2>3 DEF At
  <2> QED BY <2>2, <2>4 DEF b
<1> QED BY <1>1, <1>3, <1>4

(* A walk from the first text is at the i-th text after i - 1 steps.        *)
LEMMA Walk ==
    ASSUME NEW t \in Buffer, t[PathLen] = NUL, NEW N \in Nat, NEW p, p[1] = 1,
           \A i \in 1 .. N : p[i + 1] = p[i] + StrLen(t, p[i]) + 1
    PROVE  \A i \in 1 .. N + 1 : At(t, p[i], i)
<1> DEFINE G == {i \in 0 .. N : p[i + 1] \in Nat \ {0} /\ At(t, p[i + 1], i + 1)}
<1>1. 0 \in G
  <2>1. /\ 1 \in Starts(t) /\ Starts(t) \in SUBSET (1 .. PathLen)
        /\ Cardinality(Starts(t)) \in Nat \ {0}
    BY StartsAre
  <2>2. Before(Starts(t), 1) = {}
    BY <2>1 DEF Before
  <2>3. Cardinality(Before(Starts(t), 1)) = 0
    BY <2>2, FS_EmptySet
  <2>4. At(t, 1, 1)
    BY <2>1, <2>3, PacketsAssumption DEF At
  <2> QED BY <2>4
<1>2. ASSUME NEW i \in 0 .. N - 1, i \in G PROVE i + 1 \in G
  <2>1. p[i + 1] \in Nat \ {0} /\ At(t, p[i + 1], i + 1)
    BY <1>2
  <2>2. p[i + 1 + 1] = p[i + 1] + StrLen(t, p[i + 1]) + 1
    OBVIOUS
  <2>3. p[i + 1 + 1] \in Nat \ {0} /\ At(t, p[i + 1 + 1], i + 1 + 1)
    BY <2>1, <2>2, AtNext
  <2> QED BY <2>3
<1>3. \A i \in 0 .. N : i \in G
  <2> HIDE DEF G
  <2> QED BY <1>1, <1>2, Induction
<1>4. ASSUME NEW i \in 1 .. N + 1 PROVE At(t, p[i], i)
  <2>1. i - 1 \in 0 .. N /\ i - 1 + 1 = i
    OBVIOUS
  <2> QED BY <1>3, <2>1
<1> QED BY <1>4

(* The NUL the code stores in the last byte changes no other.               *)
LEMMA CutIs ==
    ASSUME NEW argv \in Buffer, PathLen \in Nat \ {0}, NEW t,
           t = [argv EXCEPT ![PathLen] = NUL]
    PROVE  /\ t \in Buffer /\ t[PathLen] = NUL
           /\ \A k \in 1 .. PathLen - 1 : t[k] = argv[k]
<1>1. NUL \in Chars
  BY CharsAssumption
<1>2. PathLen \in 1 .. PathLen /\ \A k \in 1 .. PathLen - 1 : k # PathLen
  OBVIOUS
<1>3. t[PathLen] = NUL /\ \A k \in 1 .. PathLen - 1 : t[k] = argv[k]
  BY <1>2 DEF Buffer
<1>4. t \in Buffer
  BY <1>1, Zenon DEF Buffer
<1> QED BY <1>3, <1>4

(* makeArgs of one packet: its loop ends at the number it was told, at      *)
(* MAX_ARGS or at the end of the packet, whichever is first.                *)
LEMMA MakeArgsIs ==
    ASSUME NEW argc \in Int, NEW argv \in Buffer
    PROVE  LET starts == Starts(argv)
               n == Min({Max({argc, 1}), MaxArgs, Cardinality(starts)})
           IN  MakeArgs(argc, argv)
                 = [argc |-> n, argv |-> [i \in 1 .. n |-> Nth(starts, i)]]
<1> DEFINE t == [argv EXCEPT ![PathLen] = NUL]
           S == Starts(argv)
           K == Cardinality(S)
           count == IF argc > MaxArgs THEN MaxArgs ELSE argc
           n == Min({Max({argc, 1}), MaxArgs, K})
           N == PathLen + MaxArgs - 1
           ArgsOf(f) == [i \in 1 .. PathLen + MaxArgs |->
                           IF i = 1 THEN 1
                           ELSE f[i - 1] + StrLen(t, f[i - 1]) + 1]
           args == CHOOSE f : f = ArgsOf(f)
           Ends(m) == /\ ~ MoreArgs(m, args[m + 1], count)
                      /\ \A k \in 1 .. m - 1 : MoreArgs(k, args[k + 1], count)
           last == CHOOSE m \in DOMAIN args : Ends(m)
<1>1. PathLen \in Nat \ {0} /\ MaxArgs \in Nat \ {0}
  BY PacketsAssumption
<1>2. /\ t \in Buffer /\ t[PathLen] = NUL
      /\ \A k \in 1 .. PathLen - 1 : t[k] = argv[k]
  BY <1>1, CutIs
<1>3. Starts(t) = S
  BY <1>1, <1>2 DEF Starts
<1>4. MakeArgs(argc, argv)
        = [argc |-> last, argv |-> [i \in 1 .. last |-> args[i]]]
  BY DEF MakeArgs
<1> HIDE DEF t
<1>5. args = ArgsOf(args)
  <2> DEFINE step == [i \in 1 .. N |-> [a \in Nat \ {0} |-> a + StrLen(t, a) + 1]]
  <2>1. t \in Seq(Chars)
    BY <1>1, <1>2 DEF Buffer
  <2>2. \A a \in Nat \ {0} : StrLen(t, a) \in Nat
    BY <2>1, StrLenIs, StrLenBehind
  <2>3. step \in Steps(N, Nat \ {0})
    BY <2>2 DEF Steps
  <2>4. N \in Nat
    BY <1>1
  <2>5. PICK g \in [0 .. N -> Nat \ {0}] : Follow(g, N, 1, step)
    <3> DEFINE A == Nat \ {0}
    <3>1. 1 \in A /\ step \in Steps(N, A)
      BY <2>3
    <3> HIDE DEF step, N, A
    <3>2. \E g \in [0 .. N -> A] : Follow(g, N, 1, step)
      BY <2>4, <3>1, Recursion
    <3> QED BY <3>2 DEF A
  <2> DEFINE f == [i \in 1 .. PathLen + MaxArgs |-> g[i - 1]]
  <2>6. ASSUME NEW i \in 2 .. PathLen + MaxArgs
        PROVE  f[i] = f[i - 1] + StrLen(t, f[i - 1]) + 1
    <3>1. /\ i - 1 \in 1 .. N /\ g[i - 2] \in Nat \ {0}
          /\ f[i] = g[i - 1] /\ f[i - 1] = g[i - 2]
      BY <1>1
    <3>2. g[i - 1] = step[i - 1][g[i - 2]]
      BY <2>5, <3>1 DEF Follow
    <3> QED BY <3>1, <3>2
  <2>7. f[1] = 1
    BY <1>1, <2>5 DEF Follow
  <2>8. f = [i \in 1 .. PathLen + MaxArgs |-> f[i]]
    OBVIOUS
  <2> HIDE DEF f
  <2>9. f = ArgsOf(f)
    BY <2>6, <2>7, <2>8
  <2> QED BY <2>9
<1> HIDE DEF args
<1>6. DOMAIN args = 1 .. PathLen + MaxArgs
  BY <1>5
<1>7. ASSUME NEW i \in 1 .. PathLen + MaxArgs PROVE At(t, args[i], i)
  <2>1. args[1] = 1
    BY <1>1, <1>5
  <2>2. \A k \in 1 .. N : args[k + 1] = args[k] + StrLen(t, args[k]) + 1
    BY <1>1, <1>5
  <2>3. N \in Nat /\ i \in 1 .. N + 1
    BY <1>1
  <2> HIDE DEF N
  <2> QED BY <1>2, <2>1, <2>2, <2>3, Walk
<1>8. /\ S \in SUBSET (1 .. PathLen) /\ IsFiniteSet(S)
      /\ K \in Nat \ {0} /\ K <= PathLen
  <2>1. S \in SUBSET (1 .. PathLen) /\ IsFiniteSet(S) /\ K \in Nat \ {0}
    BY StartsAre
  <2>2. IsFiniteSet(1 .. PathLen) /\ Cardinality(1 .. PathLen) = PathLen
    BY <1>1, FS_Interval
  <2> HIDE DEF S
  <2>3. K <= Cardinality(1 .. PathLen)
    BY <2>1, <2>2, FS_Subset
  <2> QED BY <2>1, <2>2, <2>3
<1> HIDE DEF S
<1>9. ASSUME NEW i \in 1 .. PathLen + MaxArgs
      PROVE  /\ args[i] <= PathLen <=> i <= K
             /\ i <= K => Nth(S, i) = args[i]
  <2>1. At(t, args[i], i)
    BY <1>7
  <2>2. args[i] <= PathLen <=> i <= K
    BY <1>3, <1>8, <2>1 DEF At
  <2>3. i <= K => args[i] \in S /\ Cardinality(Before(S, args[i])) = i - 1
    BY <1>3, <2>1, <2>2 DEF At
  <2>4. S \in SUBSET Nat /\ i \in Nat
    BY <1>8
  <2>5. i <= K => Nth(S, i) = args[i]
    BY <1>8, <2>3, <2>4, NthIs
  <2> QED BY <2>2, <2>5
<1>10. /\ n \in Nat \ {0} /\ n <= K /\ n <= MaxArgs
       /\ n <= count \/ n = 1
       /\ n >= count \/ n = K
  <2>1. Max({argc, 1}) = IF argc >= 1 THEN argc ELSE 1
    BY MaxOfTwo
  <2> DEFINE top == Max({argc, 1})
  <2>2. \E m \in {top, MaxArgs, K} : m <= top /\ m <= MaxArgs /\ m <= K
    BY <1>1, <1>8, <2>1
  <2>3. n \in {top, MaxArgs, K} /\ n <= top /\ n <= MaxArgs /\ n <= K
    BY <1>1, <1>8, <2>1, <2>2, MinOfThree
  <2> HIDE DEF n, K
  <2> QED BY <1>1, <1>8, <2>1, <2>3
<1> HIDE DEF n, K, count
<1>11. count \in Int
  BY <1>1 DEF count
<1>12. n \in DOMAIN args /\ Ends(n)
  <2>1. n \in 1 .. PathLen + MaxArgs
    BY <1>1, <1>10
  <2>2. ASSUME n < count PROVE ~ (args[n + 1] <= PathLen)
    <3>1. n = K /\ n + 1 \in 1 .. PathLen + MaxArgs
      BY <1>1, <1>8, <1>10, <1>11, <2>2
    <3> QED BY <1>9, <1>10, <3>1
  <2>3. ASSUME NEW k \in 1 .. n - 1 PROVE MoreArgs(k, args[k + 1], count)
    <3>1. k < count /\ k + 1 <= K /\ k + 1 \in 1 .. PathLen + MaxArgs
      BY <1>1, <1>8, <1>10, <1>11
    <3> QED BY <1>9, <3>1 DEF MoreArgs
  <2> QED BY <1>6, <2>1, <2>2, <2>3 DEF MoreArgs
<1>13. last = n
  <2>1. ASSUME NEW m \in DOMAIN args, Ends(m) PROVE m = n
    <3>1. m \in Nat \ {0}
      BY <1>6
    <3>2. ~ (m < n)
      BY <1>10, <1>12, <2>1, <3>1
    <3>3. ~ (n < m)
      BY <1>10, <1>12, <2>1, <3>1
    <3> QED BY <1>10, <3>1, <3>2, <3>3
  <2> HIDE DEF Ends
  <2> QED BY <1>12, <2>1
<1>14. \A i \in 1 .. n : args[i] = Nth(S, i)
  BY <1>1, <1>8, <1>9, <1>10
<1> HIDE DEF last
<1>15. MakeArgs(argc, argv)
         = [argc |-> n, argv |-> [i \in 1 .. n |-> Nth(S, i)]]
  BY <1>4, <1>13, <1>14
<1> QED BY <1>15 DEF n, S, K

(* A user program gets the texts of its packet and no others, for every     *)
(* packet and every number it claims to hold.                               *)
THEOREM ArgsAlwaysSplit == Spec => []ArgsSplit
<1>1. Init => ArgsSplit
  BY DEF Init, Nothing, ArgsSplit
<1>2. ArgsSplit /\ [Next]_vars => ArgsSplit'
  <2> SUFFICES ASSUME ArgsSplit, [Next]_vars PROVE ArgsSplit'
    OBVIOUS
  <2>1. CASE ExecEE
    <3>1. PICK argc \in Argcs, argv \in Argvs :
             /\ job' = [kind |-> "execee", argc |-> argc, argv |-> argv]
             /\ done' = MakeArgs(argc, argv)
      BY <2>1 DEF ExecEE
    <3>2. argc \in Int /\ argv \in Buffer
      BY PacketsAssumption DEF Buffer
    <3>3. job'.argc = argc /\ job'.argv = argv
      BY <3>1
    <3> QED BY <3>1, <3>2, <3>3, MakeArgsIs DEF ArgsSplit
  <2>2. CASE Configure \/ ExecIop \/ Locate \/ NameModule \/ SendPackets
    <3>1. job'.kind # "execee"
      BY <2>2 DEF Configure, ExecIop, Locate, NameModule, SendPackets
    <3> QED BY <3>1 DEF ArgsSplit
  <2>3. CASE UNCHANGED vars
    BY <2>3 DEF vars, ArgsSplit
  <2> QED BY <2>1, <2>2, <2>3 DEF Next
<1> QED BY <1>1, <1>2, PTL DEF Spec

(* pkoExecIop of one packet: its loop of argc - 1 strlens ends at the       *)
(* text behind the last argument.                                           *)
LEMMA IopArgsIs ==
    ASSUME NEW argv \in Buffer, NEW argc \in 2 .. Cardinality(Starts(argv)),
           argc < Word
    PROVE  LET starts == Starts(argv)
               n == Cardinality(starts)
               got == IopArgs(argc, argv)
           IN  /\ got.args = Nth(starts, 2)
               /\ got.args + got.arglen =
                    IF argc < n THEN Nth(starts, argc + 1) ELSE PathLen + 1
<1> DEFINE t == [argv EXCEPT ![PathLen] = NUL]
           S == Starts(argv)
           K == Cardinality(S)
           first == StrLen(t, 1) + 2
           LenOf(f) == [i \in 0 .. Word |->
                          IF i = 0 THEN 0
                          ELSE f[i - 1] + StrLen(t, first + f[i - 1]) + 1]
           len == CHOOSE f : f = LenOf(f)
<1>1. PathLen \in Nat \ {0} /\ Word \in Nat \ {0}
  BY PacketsAssumption
<1>2. /\ t \in Buffer /\ t[PathLen] = NUL
      /\ \A k \in 1 .. PathLen - 1 : t[k] = argv[k]
  BY <1>1, CutIs
<1>3. Starts(t) = S
  BY <1>1, <1>2 DEF Starts
<1>4. S \in SUBSET Nat /\ IsFiniteSet(S) /\ K \in Nat
  BY StartsAre
<1>5. IopArgCount(argc) = argc - 1
  BY <1>1, <1>4 DEF IopArgCount
<1>6. IopArgs(argc, argv) = [args |-> first, arglen |-> len[argc - 1]]
  BY <1>5 DEF IopArgs
<1> HIDE DEF t, S
<1>7. t \in Seq(Chars) /\ Len(t) = PathLen
  BY <1>1, <1>2 DEF Buffer
<1>8. \A a \in Nat \ {0} : StrLen(t, a) \in Nat
  BY <1>7, StrLenIs, StrLenBehind
<1>9. first \in Nat \ {0}
  BY <1>8
<1> HIDE DEF first
<1>10. len = LenOf(len)
  <2> DEFINE step == [i \in 1 .. Word |-> [l \in Nat |->
                        l + StrLen(t, first + l) + 1]]
  <2>1. \A l \in Nat : StrLen(t, first + l) \in Nat
    BY <1>8, <1>9
  <2>2. step \in Steps(Word, Nat)
    BY <2>1 DEF Steps
  <2>3. PICK g \in [0 .. Word -> Nat] : Follow(g, Word, 0, step)
    <3> HIDE DEF step
    <3> QED BY <1>1, <2>2, Recursion
  <2>4. ASSUME NEW i \in 1 .. Word
        PROVE  g[i] = g[i - 1] + StrLen(t, first + g[i - 1]) + 1
    <3>1. \A l \in Nat : step[i][l] = l + StrLen(t, first + l) + 1
      OBVIOUS
    <3> HIDE DEF step
    <3>2. g[i] = step[i][g[i - 1]]
      BY <2>3 DEF Follow
    <3>3. g[i - 1] \in Nat
      BY <1>1, <2>3
    <3> QED BY <3>1, <3>2, <3>3
  <2>5. g = LenOf(g)
    BY <2>3, <2>4 DEF Follow
  <2> QED BY <2>5
<1> HIDE DEF len
<1>11. len[0] = 0
  BY <1>1, <1>10
<1>12. \A i \in 1 .. Word :
          len[i] = len[i - 1] + StrLen(t, first + len[i - 1]) + 1
  BY <1>1, <1>10
<1>13. \A i \in 0 .. Word : len[i] \in Nat
  <2> DEFINE G == {i \in 0 .. Word : len[i] \in Nat}
  <2>1. 0 \in G
    BY <1>1, <1>11
  <2>2. ASSUME NEW i \in 0 .. Word - 1, i \in G PROVE i + 1 \in G
    <3>1. len[i] \in Nat /\ StrLen(t, first + len[i]) \in Nat
      BY <1>8, <1>9, <2>2
    <3>2. len[i + 1] = len[i] + StrLen(t, first + len[i]) + 1
      BY <1>1, <1>12
    <3> QED BY <1>1, <3>1, <3>2
  <2>3. \A i \in 0 .. Word : i \in G
    <3> HIDE DEF G
    <3> QED BY <1>1, <2>1, <2>2, Induction
  <2> QED BY <2>3
<1> DEFINE p == [i \in 1 .. Word + 2 |-> IF i = 1 THEN 1 ELSE first + len[i - 2]]
<1>14. \A i \in 1 .. Word + 2 : At(t, p[i], i)
  <2>1. p[1] = 1
    BY <1>1
  <2>2. ASSUME NEW i \in 1 .. Word + 1
        PROVE  p[i + 1] = p[i] + StrLen(t, p[i]) + 1
    <3>1. CASE i = 1
      <4>1. p[2] = first + 0 /\ p[1] = 1
        BY <1>1, <1>11
      <4>2. first = StrLen(t, 1) + 2 /\ StrLen(t, 1) \in Nat
        BY <1>8 DEF first
      <4> HIDE DEF p
      <4> QED BY <3>1, <4>1, <4>2
    <3>2. CASE i # 1
      <4>1. i - 1 \in 1 .. Word /\ i - 2 \in 0 .. Word
        BY <1>1, <3>2
      <4>2. p[i + 1] = first + len[i - 1] /\ p[i] = first + len[i - 2]
        BY <1>1, <3>2
      <4>3. len[i - 1] = len[i - 2] + StrLen(t, first + len[i - 2]) + 1
        BY <1>12, <4>1
      <4>4. len[i - 2] \in Nat /\ StrLen(t, first + len[i - 2]) \in Nat
        BY <1>8, <1>9, <1>13, <4>1
      <4> HIDE DEF p
      <4> QED BY <1>9, <4>2, <4>3, <4>4
    <3> QED BY <3>1, <3>2
  <2>3. Word + 1 \in Nat /\ 1 .. Word + 1 + 1 = 1 .. Word + 2
    BY <1>1
  <2> HIDE DEF p
  <2> QED BY <1>2, <2>1, <2>2, <2>3, Walk
<1>15. /\ p[2] = first /\ p[argc + 1] = first + len[argc - 1]
       /\ 2 \in 1 .. Word + 2 /\ argc + 1 \in 1 .. Word + 2
  BY <1>1, <1>4, <1>9, <1>11
<1> HIDE DEF p
<1>16. At(t, first, 2) /\ At(t, first + len[argc - 1], argc + 1)
  BY <1>14, <1>15
<1>17. argc \in Nat /\ 2 <= argc /\ argc <= K
  BY <1>4 DEF S
<1>18. first = Nth(S, 2)
  <2>1. first \in S /\ Cardinality(Before(S, first)) = 2 - 1
    BY <1>1, <1>3, <1>4, <1>9, <1>16, <1>17 DEF At
  <2> QED BY <1>4, <2>1, NthIs
<1> DEFINE e == first + len[argc - 1]
<1>19. e = IF argc < K THEN Nth(S, argc + 1) ELSE PathLen + 1
  <2>1. e \in Nat
    BY <1>1, <1>4, <1>9, <1>13, <1>17
  <2>2. At(t, e, argc + 1)
    BY <1>16
  <2> HIDE DEF e
  <2>3. CASE argc < K
    <3>1. e \in S /\ Cardinality(Before(S, e)) = argc + 1 - 1
      BY <1>1, <1>3, <1>4, <1>17, <2>1, <2>2, <2>3 DEF At
    <3>2. argc + 1 \in Nat
      BY <1>17
    <3>3. Nth(S, argc + 1) = e
      BY <1>4, <3>1, <3>2, NthIs
    <3> QED BY <2>3, <3>3
  <2>4. CASE ~ (argc < K)
    BY <1>1, <1>3, <1>4, <1>17, <2>1, <2>2, <2>4 DEF At
  <2> QED BY <2>3, <2>4
<1> QED BY <1>6, <1>18, <1>19 DEF S

(* A module gets the bytes of its arguments, for every packet that holds as *)
(* many texts as it claims.                                                 *)
THEOREM IopArgsAlwaysSplit == Spec => []IopArgsSplit
<1>1. Init => IopArgsSplit
  BY DEF Init, Nothing, IopArgsSplit
<1>2. IopArgsSplit /\ [Next]_vars => IopArgsSplit'
  <2> SUFFICES ASSUME IopArgsSplit, [Next]_vars PROVE IopArgsSplit'
    OBVIOUS
  <2>1. CASE ExecIop
    <3>1. PICK argc \in Argcs \cap 0 .. Word - 1, argv \in Argvs :
             /\ job' = [kind |-> "execiop", argc |-> argc, argv |-> argv]
             /\ done' = IopArgs(argc, argv)
      BY <2>1 DEF ExecIop
    <3>2. argc < Word /\ argv \in Buffer
      BY PacketsAssumption DEF Buffer
    <3>3. job'.argc = argc /\ job'.argv = argv
      BY <3>1
    <3> QED BY <3>1, <3>2, <3>3, IopArgsIs DEF IopArgsSplit
  <2>2. CASE Configure \/ ExecEE \/ Locate \/ NameModule \/ SendPackets
    <3>1. job'.kind # "execiop"
      BY <2>2 DEF Configure, ExecEE, Locate, NameModule, SendPackets
    <3> QED BY <3>1 DEF IopArgsSplit
  <2>3. CASE UNCHANGED vars
    BY <2>3 DEF vars, IopArgsSplit
  <2> QED BY <2>1, <2>2, <2>3 DEF Next
<1> QED BY <1>1, <1>2, PTL DEF Spec

-----------------------------------------------------------------------------
(* getIpConfig.                                                             *)
Conf == [1 .. ConfLen -> Chars]

(* A field is copied, cut to what strncpy takes, and its terminator follows *)
(* it, because the rest of the buffer is empty.                             *)
Taken(cut, i) ==
    IF StrLen(cut, i) <= Field THEN StrLen(cut, i) ELSE Field
Copied(conf, cut, i, n, new) ==
    /\ n \in 0 .. Field
    /\ NextField([conf |-> conf, i |-> i], cut)
         = [conf |-> new, i |-> i + n + 1]
    /\ \A k \in 1 .. i - 1 : new[k] = conf[k]
    /\ \A k \in i .. i + n - 1 : new[k] = cut[k]
    /\ \A k \in i + n .. ConfLen : new[k] = NUL

(* One round of getIpConfig: a field is copied into an empty rest.          *)
LEMMA NextFieldIs ==
    ASSUME NEW conf \in Conf, NEW cut \in Conf, NEW i \in 1 .. ConfLen,
           i + Field <= ConfLen, \A k \in i .. ConfLen : conf[k] = NUL
    PROVE  \E new \in Conf : Copied(conf, cut, i, Taken(cut, i), new)
<1> DEFINE n == Taken(cut, i)
           l == StrLen(cut, i)
           new == CopyField(conf, cut, i)
<1>1. ConfLen \in Nat /\ Field \in Nat \ {0}
  BY PacketsAssumption
<1>2. cut \in Seq(Chars) /\ Len(cut) = ConfLen
  BY <1>1 DEF Conf
<1>3. /\ l \in Nat /\ i + l <= ConfLen + 1
      /\ \A k \in i .. i + l - 1 : cut[k] # NUL
  BY <1>2, StrLenIs
<1>4. \A k \in 1 .. ConfLen : conf[k] \in Chars /\ cut[k] \in Chars
  BY DEF Conf
<1>5. new = [k \in 1 .. ConfLen |->
               IF k < i \/ k >= i + Field THEN conf[k]
               ELSE IF k < i + l THEN cut[k] ELSE NUL]
  BY DEF CopyField, Conf
<1> HIDE DEF new, l
<1>6. n \in 0 .. Field /\ n <= l /\ (n = l \/ n = Field)
  BY <1>1, <1>3 DEF l, Taken
<1> HIDE DEF n
<1>7. new \in Conf
  <2>1. ASSUME NEW k \in 1 .. ConfLen PROVE new[k] \in Chars
    BY <1>4, <1>5, CharsAssumption
  <2> QED BY <1>5, <2>1 DEF Conf
<1>8. \A k \in 1 .. i - 1 : new[k] = conf[k]
  BY <1>1, <1>5
<1>9. \A k \in i .. i + n - 1 : new[k] = cut[k]
  BY <1>1, <1>3, <1>5, <1>6
<1>10. \A k \in i + n .. ConfLen : new[k] = NUL
  BY <1>1, <1>3, <1>5, <1>6
<1>11. StrLen(new, i) = n
  <2>1. new \in Seq(Chars) /\ Len(new) = ConfLen
    BY <1>1, <1>7 DEF Conf
  <2>2. new[i + n] = NUL /\ i + n <= ConfLen
    BY <1>1, <1>6, <1>10
  <2>3. \A k \in i .. i + n - 1 : new[k] # NUL
    BY <1>1, <1>3, <1>6, <1>9
  <2>4. i \in 1 .. Len(new) /\ n \in Nat
    BY <1>6, <2>1
  <2> QED BY <2>1, <2>2, <2>3, <2>4, StrLenUnique
<1>12. NextField([conf |-> conf, i |-> i], cut) = [conf |-> new, i |-> i + n + 1]
  BY <1>11 DEF NextField, new
<1>13. Copied(conf, cut, i, n, new)
  BY <1>6, <1>8, <1>9, <1>10, <1>12 DEF Copied
<1> QED BY <1>7, <1>13 DEF n

(* Three fields and their terminators fit; the buffer is empty at first.    *)
LEMMA Fields ==
    /\ ConfLen \in Nat /\ Field \in Nat \ {0} /\ 3 * Field + 3 <= ConfLen
    /\ Zeros(ConfLen) \in Conf
    /\ \A k \in 1 .. ConfLen : Zeros(ConfLen)[k] = NUL
BY PacketsAssumption, CharsAssumption DEF Zeros, Conf

(* The three of them, one behind the other.                                 *)
ThreeCopied(cut, all, a, b, c) ==
    /\ all.i = a + b + c + 4 /\ all.conf \in Conf
    /\ a = Taken(cut, 1) /\ b = Taken(cut, a + 2) /\ c = Taken(cut, a + b + 3)
    /\ \A k \in 1 .. a + b + c + 3 :
         all.conf[k] = IF k \in {a + 1, a + b + 2, a + b + c + 3}
                       THEN NUL ELSE cut[k]

(* Three rounds copy three fields; the index moves past each terminator.    *)
LEMMA ThreeFields ==
    ASSUME NEW cut \in Conf, NEW all,
           all = NextField(NextField(NextField(
                   [conf |-> Zeros(ConfLen), i |-> 1], cut), cut), cut)
    PROVE  \E a, b, c \in 0 .. Field : ThreeCopied(cut, all, a, b, c)
<1> DEFINE a == Taken(cut, 1)
           b == Taken(cut, a + 2)
           c == Taken(cut, a + b + 3)
           zero == [conf |-> Zeros(ConfLen), i |-> 1]
<1> USE Fields
<1>1. PICK one \in Conf : Copied(Zeros(ConfLen), cut, 1, a, one)
  <2>1. 1 \in 1 .. ConfLen /\ 1 + Field <= ConfLen
    OBVIOUS
  <2> QED BY <2>1, NextFieldIs
<1> HIDE DEF a
<1>2. /\ a \in 0 .. Field
      /\ NextField(zero, cut) = [conf |-> one, i |-> a + 2]
      /\ \A k \in 1 .. a : one[k] = cut[k]
      /\ \A k \in a + 1 .. ConfLen : one[k] = NUL
  BY <1>1 DEF Copied
<1>3. PICK two \in Conf : Copied(one, cut, a + 2, b, two)
  <2>1. a + 2 \in 1 .. ConfLen /\ a + 2 + Field <= ConfLen
    BY <1>2
  <2>2. \A k \in a + 2 .. ConfLen : one[k] = NUL
    BY <1>2
  <2> QED BY <2>1, <2>2, NextFieldIs
<1> HIDE DEF b
<1>4. /\ b \in 0 .. Field
      /\ NextField([conf |-> one, i |-> a + 2], cut)
           = [conf |-> two, i |-> a + b + 3]
      /\ \A k \in 1 .. a + 1 : two[k] = one[k]
      /\ \A k \in a + 2 .. a + b + 1 : two[k] = cut[k]
      /\ \A k \in a + b + 2 .. ConfLen : two[k] = NUL
  BY <1>2, <1>3 DEF Copied
<1>5. PICK three \in Conf : Copied(two, cut, a + b + 3, c, three)
  <2>1. a + b + 3 \in 1 .. ConfLen /\ a + b + 3 + Field <= ConfLen
    BY <1>2, <1>4
  <2>2. \A k \in a + b + 3 .. ConfLen : two[k] = NUL
    BY <1>2, <1>4
  <2> QED BY <2>1, <2>2, NextFieldIs
<1> HIDE DEF c
<1>6. /\ c \in 0 .. Field
      /\ NextField([conf |-> two, i |-> a + b + 3], cut)
           = [conf |-> three, i |-> a + b + c + 4]
      /\ \A k \in 1 .. a + b + 2 : three[k] = two[k]
      /\ \A k \in a + b + 3 .. a + b + c + 2 : three[k] = cut[k]
      /\ \A k \in a + b + c + 3 .. ConfLen : three[k] = NUL
  BY <1>2, <1>4, <1>5 DEF Copied
<1>7. all.i = a + b + c + 4 /\ all.conf = three
  BY <1>2, <1>4, <1>6
<1>8. ASSUME NEW k \in 1 .. a + b + c + 3
      PROVE  three[k] = IF k \in {a + 1, a + b + 2, a + b + c + 3}
                        THEN NUL ELSE cut[k]
  <2>1. a \in Nat /\ b \in Nat /\ c \in Nat /\ k \in 1 .. ConfLen
    BY <1>2, <1>4, <1>6
  <2>2. CASE k <= a
    BY <1>2, <1>4, <1>6, <2>1, <2>2
  <2>3. CASE k = a + 1
    BY <1>2, <1>4, <1>6, <2>1, <2>3
  <2>4. CASE k \in a + 2 .. a + b + 1
    BY <1>4, <1>6, <2>1, <2>4
  <2>5. CASE k = a + b + 2
    BY <1>4, <1>6, <2>1, <2>5
  <2>6. CASE k \in a + b + 3 .. a + b + c + 2
    BY <1>6, <2>1, <2>6
  <2>7. CASE k = a + b + c + 3
    BY <1>6, <2>1, <2>7
  <2> QED BY <2>1, <2>2, <2>3, <2>4, <2>5, <2>6, <2>7
<1>9. ThreeCopied(cut, all, a, b, c)
  BY <1>7, <1>8 DEF ThreeCopied, a, b, c
<1> QED BY <1>2, <1>4, <1>6, <1>9

(* What lies where in two sequences put together.                           *)
LEMMA ConcatIs ==
    ASSUME NEW S, NEW s \in Seq(S), NEW t \in Seq(S)
    PROVE  /\ s \o t \in Seq(S) /\ Len(s \o t) = Len(s) + Len(t)
           /\ \A k \in 1 .. Len(s) + Len(t) :
                (s \o t)[k] = IF k <= Len(s) THEN s[k] ELSE t[k - Len(s)]
OBVIOUS

(* A text of one character, and a text with it behind.                      *)
Filled(t, S, z, m) ==
    t \in Seq(S) /\ Len(t) = m /\ \A k \in 1 .. m : t[k] = z

Extended(r, s, S, z, m) ==
    /\ r \in Seq(S) /\ Len(r) = Len(s) + m
    /\ \A k \in 1 .. Len(s) + m :
         r[k] = IF k <= Len(s) THEN s[k] ELSE z

(* Repeat(z, m) holds m times z.                                            *)
LEMMA RepeatIs ==
    ASSUME NEW S, NEW z \in S, NEW m \in Nat
    PROVE  Filled(Repeat(z, m), S, z, m)
BY DEF Repeat, Filled

(* A text with a text of one character behind it.                           *)
LEMMA ExtendedIs ==
    ASSUME NEW S, NEW s \in Seq(S), NEW z, NEW m \in Nat, NEW t,
           Filled(t, S, z, m)
    PROVE  Extended(s \o t, s, S, z, m)
<1>0. t \in Seq(S) /\ Len(t) = m /\ \A k \in 1 .. m : t[k] = z
  BY DEF Filled
<1>1. ASSUME NEW k \in 1 .. Len(s) + m
      PROVE  (s \o t)[k] = IF k <= Len(s) THEN s[k] ELSE z
  <2>1. (s \o t)[k] = IF k <= Len(s) THEN s[k] ELSE t[k - Len(s)]
    BY <1>0, ConcatIs
  <2>2. k > Len(s) => k - Len(s) \in 1 .. m
    OBVIOUS
  <2> QED BY <1>0, <2>1, <2>2
<1> QED BY <1>0, <1>1, ConcatIs DEF Extended

(* Three words between separators, and what is behind them.                 *)
Joined(a, x, b, c, y) ==
    Repeat("a", a) \o <<x>> \o Repeat("a", b) \o <<x>> \o Repeat("a", c) \o y

JoinedText(t, S, a, x, b, c, y, n) ==
    /\ t \in Seq(S) /\ Len(t) = a + b + c + 2 + n
    /\ \A k \in 1 .. a + b + c + 2 + n :
         t[k] = IF k \in {a + 1, a + b + 2} THEN x
                ELSE IF k <= a + b + c + 2 THEN "a" ELSE y

(* Where the words and the separators of such a text lie.                   *)
LEMMA JoinedIs ==
    ASSUME NEW a \in Nat, NEW b \in Nat, NEW c \in Nat, NEW n \in Nat,
           NEW S, NEW x \in S, "a" \in S, NEW y, NEW Y, Filled(Y, S, y, n)
    PROVE  JoinedText(Joined(a, x, b, c, Y), S, a, x, b, c, y, n)
<1>1. \A m \in Nat : Filled(Repeat("a", m), S, "a", m)
  BY RepeatIs
<1>2. Filled(<<x>>, S, x, 1)
  BY DEF Filled
<1> DEFINE A == Repeat("a", a)
           B == Repeat("a", b)
           C == Repeat("a", c)
<1>3. /\ Filled(A, S, "a", a) /\ Filled(B, S, "a", b)
      /\ Filled(C, S, "a", c) /\ Filled(Y, S, y, n)
  BY <1>1
<1> DEFINE s1 == A \o <<x>>
           s2 == s1 \o B
           s3 == s2 \o <<x>>
           s4 == s3 \o C
           s5 == s4 \o Y
<1>4. Joined(a, x, b, c, Y) = s5
  BY DEF Joined
<1> HIDE DEF A, B, C
<1>10. A \in Seq(S) /\ Len(A) = a /\ \A k \in 1 .. a : A[k] = "a"
  BY <1>3 DEF Filled
<1>5. /\ s1 \in Seq(S) /\ Len(s1) = a + 1
      /\ \A k \in 1 .. a + 1 : s1[k] = IF k = a + 1 THEN x ELSE "a"
  <2>1. Extended(s1, A, S, x, 1)
    BY <1>10, <1>2, ExtendedIs
  <2> HIDE DEF s1
  <2> QED BY <1>10, <2>1 DEF Extended
<1> HIDE DEF s1
<1>6. /\ s2 \in Seq(S) /\ Len(s2) = a + b + 1
      /\ \A k \in 1 .. a + b + 1 : s2[k] = IF k = a + 1 THEN x ELSE "a"
  <2>1. Extended(s2, s1, S, "a", b)
    BY <1>5, <1>3, ExtendedIs
  <2> HIDE DEF s2
  <2> QED BY <1>5, <2>1 DEF Extended
<1> HIDE DEF s2
<1>7. /\ s3 \in Seq(S) /\ Len(s3) = a + b + 2
      /\ \A k \in 1 .. a + b + 2 :
           s3[k] = IF k \in {a + 1, a + b + 2} THEN x ELSE "a"
  <2>1. Extended(s3, s2, S, x, 1)
    BY <1>6, <1>2, ExtendedIs
  <2> HIDE DEF s3
  <2> QED BY <1>6, <2>1 DEF Extended
<1> HIDE DEF s3
<1>8. /\ s4 \in Seq(S) /\ Len(s4) = a + b + c + 2
      /\ \A k \in 1 .. a + b + c + 2 :
           s4[k] = IF k \in {a + 1, a + b + 2} THEN x ELSE "a"
  <2>1. Extended(s4, s3, S, "a", c)
    BY <1>7, <1>3, ExtendedIs
  <2> HIDE DEF s4
  <2> QED BY <1>7, <2>1 DEF Extended
<1> HIDE DEF s4
<1>9. /\ s5 \in Seq(S) /\ Len(s5) = a + b + c + 2 + n
      /\ \A k \in 1 .. a + b + c + 2 + n :
           s5[k] = IF k \in {a + 1, a + b + 2} THEN x
                   ELSE IF k <= a + b + c + 2 THEN "a" ELSE y
  <2>1. Extended(s5, s4, S, y, n)
    BY <1>8, <1>3, ExtendedIs
  <2> HIDE DEF s5
  <2> QED BY <1>8, <2>1 DEF Extended
<1> HIDE DEF s5
<1> QED BY <1>4, <1>9 DEF JoinedText

(* The file as it was read, and cut at its spaces.                          *)
Read(file) ==
    [k \in 1 .. ConfLen |->
       IF k <= Len(file) /\ k < ConfLen THEN file[k] ELSE NUL]
Cut(buf) ==
    [k \in 1 .. ConfLen |->
       IF k <= StrLen(buf, 1) /\ buf[k] = Space THEN NUL ELSE buf[k]]

(* The file's buffer, before and after it is cut, is a buffer.              *)
LEMMA CutTyped ==
    ASSUME NEW file \in Seq(Chars)
    PROVE  Read(file) \in Conf /\ Cut(Read(file)) \in Conf
<1>1. ASSUME NEW k \in 1 .. ConfLen PROVE Read(file)[k] \in Chars
  BY Fields, CharsAssumption DEF Read
<1>2. Read(file) \in Conf
  BY <1>1 DEF Read, Conf
<1>3. ASSUME NEW k \in 1 .. ConfLen PROVE Cut(Read(file))[k] \in Chars
  BY <1>1, CharsAssumption DEF Cut
<1> QED BY <1>2, <1>3 DEF Cut, Conf

(* getIpConfig is three rounds on the file cut at its spaces.               *)
LEMMA GetIpConfigIs ==
    ASSUME NEW file \in Seq(Chars)
    PROVE  \E all, a, b, c :
             /\ a \in 0 .. Field /\ b \in 0 .. Field /\ c \in 0 .. Field
             /\ ThreeCopied(Cut(Read(file)), all, a, b, c)
             /\ GetIpConfig(file)
                  = [if_conf |-> all.conf, if_conf_len |-> all.i - 1]
<1> DEFINE cut == Cut(Read(file))
           all == NextField(NextField(NextField(
                   [conf |-> Zeros(ConfLen), i |-> 1], cut), cut), cut)
<1>1. GetIpConfig(file) = [if_conf |-> all.conf, if_conf_len |-> all.i - 1]
  BY DEF GetIpConfig, Cut, Read
<1>2. cut \in Conf
  BY CutTyped
<1> HIDE DEF cut
<1>3. \E a, b, c \in 0 .. Field : ThreeCopied(cut, all, a, b, c)
  BY <1>2, ThreeFields
<1> HIDE DEF all
<1> QED BY <1>1, <1>3 DEF cut

(* Cut at its spaces, a file of three words is three texts of their         *)
(* lengths; the spaces behind the third are gone too.                       *)
LEMMA ThreeWordsCut ==
    ASSUME NEW a \in 1 .. Field, NEW b \in 1 .. Field, NEW c \in 1 .. Field,
           NEW n \in 0 .. 2, NEW file \in Seq(Chars),
           file = Joined(a, Space, b, c, Repeat(Space, n)),
           "a" \in Chars, NEW cut, cut = Cut(Read(file))
    PROVE  /\ \A k \in 1 .. a + b + c + 2 :
                cut[k] = IF k \in {a + 1, a + b + 2} THEN NUL ELSE "a"
           /\ StrLen(cut, 1) = a /\ StrLen(cut, a + 2) = b
           /\ StrLen(cut, a + b + 3) = c
<1> DEFINE buf == Read(file)
           e == a + b + c + 2
<1>1. /\ a \in Nat /\ b \in Nat /\ c \in Nat /\ n \in Nat
      /\ e \in Nat /\ e < ConfLen /\ e = a + b + c + 2 /\ ConfLen \in Nat
  BY Fields
<1>2. /\ Len(file) = e + n
      /\ \A k \in 1 .. e + n :
           file[k] = IF k \in {a + 1, a + b + 2} THEN Space
                     ELSE IF k <= e THEN "a" ELSE Space
  <2> DEFINE J == Joined(a, Space, b, c, Repeat(Space, n))
  <2>1. /\ Len(J) = a + b + c + 2 + n
        /\ \A k \in 1 .. a + b + c + 2 + n :
             J[k] = IF k \in {a + 1, a + b + 2} THEN Space
                    ELSE IF k <= a + b + c + 2 THEN "a" ELSE Space
    <3>1. Space \in Chars
      BY CharsAssumption
    <3>2. JoinedText(J, Chars, a, Space, b, c, Space, n)
      BY <1>1, <3>1, RepeatIs, JoinedIs
    <3> HIDE DEF J
    <3> QED BY <3>2 DEF JoinedText
  <2>2. file = J
    OBVIOUS
  <2> HIDE DEF J
  <2> QED BY <2>1, <2>2
<1>3. buf \in Seq(Chars) /\ Len(buf) = ConfLen
  BY CutTyped, Fields DEF Conf
<1>4. NUL # Space /\ NUL # "a" /\ Space # "a"
  BY DEF NUL, Space
<1> HIDE DEF e
<1> DEFINE Sp(k) == k \in {a + 1, a + b + 2}
<1>5. \A k \in 1 .. e : buf[k] = IF Sp(k) THEN Space ELSE "a"
  <2>1. ASSUME NEW k \in 1 .. e PROVE buf[k] = file[k]
    <3>1. k \in 1 .. ConfLen /\ k <= Len(file) /\ k < ConfLen
      BY <1>1, <1>2
    <3> QED BY <3>1, Zenon DEF Read
  <2>2. ASSUME NEW k \in 1 .. e PROVE file[k] = IF Sp(k) THEN Space ELSE "a"
    <3>1. k \in 1 .. e + n /\ k <= e
      BY <1>1
    <3> QED BY <1>2, <3>1, Zenon
  <2> QED BY <2>1, <2>2, Zenon
<1>6. buf[e + 1] \in {Space, NUL}
  <2>1. e + 1 \in 1 .. ConfLen
    BY <1>1
  <2>2. \/ e + 1 <= Len(file) /\ buf[e + 1] = file[e + 1]
        \/ buf[e + 1] = NUL
    BY <2>1, Zenon DEF Read
  <2>3. e + 1 <= Len(file) => file[e + 1] = Space
    <3>1. e + 1 <= Len(file) => e + 1 \in 1 .. e + n /\ ~(e + 1 <= e)
      BY <1>1, <1>2
    <3> QED BY <1>2, <3>1, Zenon
  <2> QED BY <2>2, <2>3, Zenon
<1> DEFINE l == StrLen(buf, 1)
<1>7. /\ l \in Nat /\ 1 + l <= ConfLen + 1
      /\ 1 + l <= ConfLen => buf[1 + l] = NUL
  BY <1>1, <1>3, StrLenIs
<1>8. /\ cut \in Conf
      /\ \A k \in 1 .. ConfLen :
           cut[k] = IF k <= l /\ buf[k] = Space THEN NUL ELSE buf[k]
  BY CutTyped DEF Cut
<1> HIDE DEF buf, l
<1>9. l >= e
  <2>1. ASSUME l < e PROVE FALSE
    <3>1. 1 + l \in 1 .. e /\ buf[1 + l] = NUL
      BY <1>1, <1>7, <2>1
    <3> QED BY <1>4, <1>5, <3>1
  <2> QED BY <1>1, <1>7, <2>1
<1>10. ASSUME NEW k \in 1 .. e
       PROVE  cut[k] = IF k \in {a + 1, a + b + 2} THEN NUL ELSE "a"
  <2>1. k \in 1 .. ConfLen /\ k <= l
    BY <1>1, <1>7, <1>9
  <2>2. cut[k] = IF buf[k] = Space THEN NUL ELSE buf[k]
    BY <1>8, <2>1
  <2> QED BY <1>4, <1>5, <2>2
<1>11. cut[e + 1] = NUL
  <2>0. e + 1 \in 1 .. ConfLen
    BY <1>1
  <2>1. CASE buf[e + 1] = NUL
    BY <1>4, <1>8, <2>0, <2>1
  <2>2. CASE buf[e + 1] = Space
    <3>1. l # e
      BY <1>1, <1>4, <1>7, <2>2
    <3>2. e + 1 <= l
      BY <1>1, <1>7, <1>9, <3>1
    <3> QED BY <1>8, <2>0, <2>2, <3>2
  <2> QED BY <1>6, <2>1, <2>2
<1>12. cut \in Seq(Chars) /\ Len(cut) = ConfLen
  BY <1>8, Fields DEF Conf
<1>13. StrLen(cut, 1) = a
  <2>1. /\ 1 \in 1 .. Len(cut) /\ 1 + a <= Len(cut) /\ cut[1 + a] = NUL
        /\ \A k \in 1 .. 1 + a - 1 : cut[k] # NUL
    BY <1>1, <1>4, <1>10, <1>12
  <2> QED BY <1>1, <1>12, <2>1, StrLenUnique
<1>14. StrLen(cut, a + 2) = b
  <2>1. /\ a + 2 \in 1 .. Len(cut) /\ a + 2 + b <= Len(cut)
        /\ cut[a + 2 + b] = NUL
        /\ \A k \in a + 2 .. a + 2 + b - 1 : cut[k] # NUL
    BY <1>1, <1>4, <1>10, <1>12
  <2> QED BY <1>1, <1>12, <2>1, StrLenUnique
<1>15. StrLen(cut, a + b + 3) = c
  <2>1. /\ a + b + 3 \in 1 .. Len(cut) /\ a + b + 3 + c <= Len(cut)
        /\ cut[a + b + 3 + c] = NUL
        /\ \A k \in a + b + 3 .. a + b + 3 + c - 1 : cut[k] # NUL
    BY <1>1, <1>4, <1>10, <1>11, <1>12
  <2> QED BY <1>1, <1>12, <2>1, StrLenUnique
<1> QED BY <1>1, <1>10, <1>13, <1>14, <1>15

(* A file of three words starts with a character of the first.              *)
LEMMA FirstIsA ==
    ASSUME NEW a \in 1 .. Field, NEW b \in 1 .. Field, NEW c \in 1 .. Field,
           NEW n \in 0 .. 2, NEW file \in Seq(Chars),
           file = Joined(a, Space, b, c, Repeat(Space, n))
    PROVE  "a" \in Chars
<1> DEFINE S == Chars \cup {"a"}
           J == Joined(a, Space, b, c, Repeat(Space, n))
<1>1. Space \in S /\ "a" \in S
  BY CharsAssumption
<1>2. a \in Nat \ {0} /\ b \in Nat /\ c \in Nat /\ n \in Nat
  BY Fields
<1> HIDE DEF S
<1>3. JoinedText(J, S, a, Space, b, c, Space, n)
  BY <1>1, <1>2, RepeatIs, JoinedIs
<1>4. file = J
  OBVIOUS
<1> HIDE DEF J
<1>5. 1 \in 1 .. Len(file) /\ file[1] = "a"
  BY <1>2, <1>3, <1>4 DEF JoinedText
<1> QED BY <1>5

(* Two sequences of one length that agree everywhere are the same.          *)
LEMMA SeqEqual ==
    ASSUME NEW S, NEW s \in Seq(S), NEW t \in Seq(S), Len(s) = Len(t),
           \A k \in 1 .. Len(s) : s[k] = t[k]
    PROVE  s = t
OBVIOUS

(* What ConfigParsed says of a file and of what was made of it.             *)
Parsed(file, made) ==
    /\ made.if_conf_len <= 3 * (Field + 1)
    /\ \A a, b, c \in 1 .. Field, n \in 0 .. 2 :
         file = Joined(a, Space, b, c, Repeat(Space, n))
         => /\ made.if_conf_len = a + b + c + 3
            /\ SubSeq(made.if_conf, 1, made.if_conf_len)
                 = Joined(a, NUL, b, c, <<NUL>>)

(* What ConfigParsed asks, of one file: the words are no longer than a      *)
(* field, so each round copies one of them whole.                           *)
LEMMA ParsedIs ==
    ASSUME NEW file \in Seq(Chars) PROVE Parsed(file, GetIpConfig(file))
<1> DEFINE cut == Cut(Read(file))
           made == GetIpConfig(file)
<1>1. PICK all, i, j, l :
         /\ i \in 0 .. Field /\ j \in 0 .. Field /\ l \in 0 .. Field
         /\ ThreeCopied(cut, all, i, j, l)
         /\ made = [if_conf |-> all.conf, if_conf_len |-> all.i - 1]
  BY GetIpConfigIs
<1>2. /\ made.if_conf = all.conf /\ made.if_conf_len = all.i - 1
      /\ all.i = i + j + l + 4 /\ all.conf \in Conf
      /\ i = Taken(cut, 1) /\ j = Taken(cut, i + 2)
      /\ l = Taken(cut, i + j + 3)
      /\ \A k \in 1 .. i + j + l + 3 :
           all.conf[k] = IF k \in {i + 1, i + j + 2, i + j + l + 3}
                         THEN NUL ELSE cut[k]
  BY <1>1 DEF ThreeCopied
<1> HIDE DEF made
<1>3. made.if_conf_len = i + j + l + 3 /\ i + j + l + 3 <= 3 * (Field + 1)
  BY <1>1, <1>2, Fields
<1>4. ASSUME NEW a \in 1 .. Field, NEW b \in 1 .. Field,
             NEW c \in 1 .. Field, NEW n \in 0 .. 2,
             file = Joined(a, Space, b, c, Repeat(Space, n))
      PROVE  /\ made.if_conf_len = a + b + c + 3
             /\ SubSeq(made.if_conf, 1, made.if_conf_len)
                  = Joined(a, NUL, b, c, <<NUL>>)
  <2> DEFINE e == a + b + c + 3
             J == Joined(a, NUL, b, c, <<NUL>>)
  <2>1. "a" \in Chars
    BY <1>4, FirstIsA
  <2>2. /\ \A k \in 1 .. a + b + c + 2 :
             cut[k] = IF k \in {a + 1, a + b + 2} THEN NUL ELSE "a"
        /\ StrLen(cut, 1) = a /\ StrLen(cut, a + 2) = b
        /\ StrLen(cut, a + b + 3) = c
    BY <1>4, <2>1, ThreeWordsCut
  <2> HIDE DEF cut
  <2>3. i = a /\ j = b /\ l = c
    BY <1>2, <2>2 DEF Taken
  <2>4. made.if_conf_len = e
    BY <1>3, <2>3
  <2>5. JoinedText(J, Chars, a, NUL, b, c, NUL, 1)
    <3>1. Filled(<<NUL>>, Chars, NUL, 1) /\ NUL \in Chars
      BY CharsAssumption DEF Filled
    <3>2. a \in Nat /\ b \in Nat /\ c \in Nat
      OBVIOUS
    <3> QED BY <2>1, <3>1, <3>2, JoinedIs
  <2> HIDE DEF J
  <2>6. /\ J \in Seq(Chars) /\ Len(J) = e
        /\ \A k \in 1 .. e :
             J[k] = IF k \in {a + 1, a + b + 2} THEN NUL
                    ELSE IF k <= a + b + c + 2 THEN "a" ELSE NUL
    BY <2>5 DEF JoinedText
  <2>7. ASSUME NEW k \in 1 .. e PROVE all.conf[k] = J[k]
    <3>1. all.conf[k] = IF k \in {a + 1, a + b + 2, a + b + c + 3}
                        THEN NUL ELSE cut[k]
      BY <1>2, <2>3
    <3>2. CASE k <= a + b + c + 2
      <4>1. k \in 1 .. a + b + c + 2 /\ k # a + b + c + 3
        BY <3>2
      <4>2. cut[k] = IF k \in {a + 1, a + b + 2} THEN NUL ELSE "a"
        BY <2>2, <4>1, Zenon
      <4>3. J[k] = IF k \in {a + 1, a + b + 2} THEN NUL ELSE "a"
        BY <2>6, <3>2, Zenon
      <4> QED BY <3>1, <4>1, <4>2, <4>3, Zenon
    <3>3. CASE k = e
      BY <2>6, <3>1, <3>3
    <3> QED BY <3>2, <3>3
  <2>8. SubSeq(all.conf, 1, e) = J
    <3>1. /\ all.conf \in Seq(Chars) /\ Len(all.conf) = ConfLen
          /\ e \in 0 .. ConfLen
      <4>1. all.conf \in Seq(Chars) /\ Len(all.conf) = ConfLen
        <5>1. all.conf \in [1 .. ConfLen -> Chars]
          BY <1>2, Zenon DEF Conf
        <5> QED BY ONLY <5>1, Fields
      <4>2. e \in 0 .. ConfLen
        BY Fields
      <4> QED BY <4>1, <4>2
    <3> DEFINE T == SubSeq(all.conf, 1, e)
    <3>2. T \in Seq(Chars) /\ Len(T) = e
          /\ \A k \in 1 .. e : T[k] = all.conf[k]
      BY <3>1
    <3> HIDE DEF T, e
    <3>3. \A k \in 1 .. e : T[k] = J[k]
      BY <2>7, <3>2
    <3>4. T = J
      BY <2>6, <3>2, <3>3, SeqEqual
    <3> QED BY <3>4 DEF T
  <2> QED BY <1>2, <2>4, <2>8 DEF J
<1> QED BY <1>3, <1>4 DEF Parsed, made

(* Three fields with a space between them are kept as three texts, one      *)
(* behind the other; whatever the file says, they fit the buffer.           *)
THEOREM ConfigAlwaysParsed == Spec => []ConfigParsed
<1>1. Init => ConfigParsed
  BY DEF Init, Nothing, ConfigParsed
<1>2. ConfigParsed /\ [Next]_vars => ConfigParsed'
  <2> SUFFICES ASSUME ConfigParsed, [Next]_vars PROVE ConfigParsed'
    OBVIOUS
  <2>1. CASE Configure
    <3>1. PICK file \in Texts :
             /\ job' = [kind |-> "config", file |-> file]
             /\ done' = GetIpConfig(file)
      BY <2>1 DEF Configure
    <3>2. file \in Seq(Chars)
      BY PacketsAssumption
    <3>3. job'.file = file /\ job'.kind = "config"
      BY <3>1
    <3>4. Parsed(job'.file, done')
      BY <3>1, <3>2, <3>3, ParsedIs
    <3> QED BY <3>4 DEF Parsed, Joined, ConfigParsed
  <2>2. CASE ExecEE \/ ExecIop \/ Locate \/ NameModule \/ SendPackets
    <3>1. job'.kind # "config"
      BY <2>2 DEF ExecEE, ExecIop, Locate, NameModule, SendPackets
    <3> QED BY <3>1 DEF ConfigParsed
  <2>3. CASE UNCHANGED vars
    <3>1. job' = job /\ done' = done
      BY <2>3 DEF vars
    <3>2. job.kind = "config" => Parsed(job.file, done)
      BY Zenon DEF ConfigParsed, Parsed, Joined
    <3>3. job'.kind = "config" => Parsed(job'.file, done')
      BY <3>1, <3>2, Zenon
    <3> QED BY <3>3, Zenon DEF ConfigParsed, Parsed, Joined
  <2> QED BY <2>1, <2>2, <2>3 DEF Next
<1> QED BY <1>1, <1>2, PTL DEF Spec
=============================================================================

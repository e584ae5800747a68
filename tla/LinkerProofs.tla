----------------------------- MODULE LinkerProofs -----------------------------
(***************************************************************************)
(* One process that runs programs inside one another keeps the table of    *)
(* modules right, for any heap, any number of programs and wherever the    *)
(* table moves.  With two processes it is not right (README, Runs).        *)
(***************************************************************************)
EXTENDS Linker, TLAPS

Alone == \A p, q \in Procs : p = q

Lots == {"null", "allocated", "filled"}
Names == Procs \X Nat

Modules == [text : Areas \cup {NoArea}, lot : Lots, owner : Names]
Addresses == [buffer : Nat, index : Nat]
Frames == [phase : Phases, ref : Addresses, text : Areas \cup {NoArea}, r9 : Names \cup {<<>>}]

Types ==
    /\ modules \in Seq(Modules)
    /\ buffer \in Nat /\ capacity \in Nat
    /\ stack \in [Procs -> Seq(Frames)]
    /\ resolver \in BOOLEAN /\ faulted \in BOOLEAN

(* What the d-th exec of a process can rely on: its entry of the table.     *)
EntryOf(p, d, f) ==
    f.phase # "native" =>
        /\ f.ref.index \in DOMAIN modules
        /\ modules[f.ref.index].owner = <<p, d>>
        /\ modules[f.ref.index].text = f.text
        /\ f.phase # "running" => f.ref.buffer = buffer
        /\ f.text = NoArea <=> f.phase = "text"
        /\ f.phase = "running" =>
            /\ modules[f.ref.index].lot = "filled"
            /\ f.r9 = <<p, d>>
            /\ resolver

Entries == \A p \in Procs : \A d \in DOMAIN stack[p] : EntryOf(p, d, stack[p][d])

(* Only the innermost exec may still be loading.                            *)
OuterRun ==
    \A p \in Procs : \A d \in DOMAIN stack[p] :
        d < Len(stack[p]) => stack[p][d].phase \in {"running", "native"}

(* Entries stand in the order of the execs: erasing one moves none that is  *)
(* still needed, which is why positions stay right when addresses do not.   *)
InOrder ==
    \A p \in Procs : \A d, e \in DOMAIN stack[p] :
        d < e /\ stack[p][d].phase # "native" /\ stack[p][e].phase # "native" =>
            stack[p][d].ref.index < stack[p][e].ref.index

(* No two programs share their text.                                        *)
OwnText ==
    \A i, j \in DOMAIN modules :
        modules[i].text = modules[j].text /\ modules[i].text # NoArea => i = j

(* exec publishes get_lot_at before it does anything else.                  *)
Published == \A p \in Procs : stack[p] # <<>> => resolver

LInv == Types /\ Published /\ Entries /\ OuterRun /\ InOrder /\ OwnText

AInv == Alone /\ LInv

-----------------------------------------------------------------------------

(* What RemoveAt leaves, element by element.                                *)
LEMMA Removed ==
    ASSUME NEW S, NEW s \in Seq(S), NEW i \in DOMAIN s
    PROVE  /\ RemoveAt(s, i) \in Seq(S)
           /\ Len(RemoveAt(s, i)) = Len(s) - 1
           /\ \A j \in 1 .. i - 1 : RemoveAt(s, i)[j] = s[j]
           /\ \A j \in i .. Len(s) - 1 : RemoveAt(s, i)[j] = s[j + 1]
<1> DEFINE a == SubSeq(s, 1, i - 1)  b == SubSeq(s, i + 1, Len(s))
<1>1. a \in Seq(S) /\ Len(a) = i - 1 /\ \A j \in 1 .. i - 1 : a[j] = s[j]
  OBVIOUS
<1>2. b \in Seq(S) /\ Len(b) = Len(s) - i /\ \A j \in 1 .. Len(s) - i : b[j] = s[i + j]
  OBVIOUS
<1>3. RemoveAt(s, i) = a \o b
  BY DEF RemoveAt
<1> HIDE DEF a, b
<1>4. a \o b \in Seq(S) /\ Len(a \o b) = Len(s) - 1
  BY <1>1, <1>2
<1>5. \A j \in 1 .. i - 1 : (a \o b)[j] = s[j]
  BY <1>1, <1>2
<1>6. \A j \in i .. Len(s) - 1 : (a \o b)[j] = s[j + 1]
  BY <1>1, <1>2
<1> QED
  BY <1>3, <1>4, <1>5, <1>6

(* What Pop leaves.                                                         *)
LEMMA Popped ==
    ASSUME Types, NEW p \in Procs, stack[p] # <<>>, Pop(p)
    PROVE  /\ stack' \in [Procs -> Seq(Frames)]
           /\ Len(stack'[p]) = Len(stack[p]) - 1
           /\ \A d \in 1 .. Len(stack[p]) - 1 : stack'[p][d] = stack[p][d]
<1> DEFINE s == stack[p]
<1>1. s \in Seq(Frames) /\ Len(s) > 0
  BY DEF Types
<1>2. Front(s) \in Seq(Frames) /\ Len(Front(s)) = Len(s) - 1
      /\ \A d \in 1 .. Len(s) - 1 : Front(s)[d] = s[d]
  BY <1>1 DEF Front
<1>3. stack' = [stack EXCEPT ![p] = Front(s)]
  BY DEF Pop
<1> QED
  BY <1>2, <1>3 DEF Types

(* What a new exec leaves.                                                  *)
LEMMA Pushed ==
    ASSUME Types, NEW p \in Procs, NEW f \in Frames,
           stack' = [stack EXCEPT ![p] = Append(@, f)]
    PROVE  /\ stack' \in [Procs -> Seq(Frames)]
           /\ Len(stack'[p]) = Len(stack[p]) + 1
           /\ stack'[p][Len(stack[p]) + 1] = f
           /\ \A d \in 1 .. Len(stack[p]) : stack'[p][d] = stack[p][d]
<1> DEFINE s == stack[p]  t == Append(s, f)
<1>1. s \in Seq(Frames)
  BY DEF Types
<1>2. t \in Seq(Frames) /\ Len(t) = Len(s) + 1 /\ t[Len(s) + 1] = f
      /\ \A d \in 1 .. Len(s) : t[d] = s[d]
  BY <1>1
<1>3. stack' = [stack EXCEPT ![p] = t]
  OBVIOUS
<1> HIDE DEF t
<1> QED
  BY <1>2, <1>3 DEF Types

(* What a step of the innermost exec leaves.                                *)
LEMMA TopSet ==
    ASSUME Types, NEW p \in Procs, stack[p] # <<>>, NEW f \in Frames, SetTop(p, f)
    PROVE  /\ stack' \in [Procs -> Seq(Frames)]
           /\ Len(stack'[p]) = Len(stack[p])
           /\ stack'[p][Len(stack[p])] = f
           /\ \A d \in 1 .. Len(stack[p]) - 1 : stack'[p][d] = stack[p][d]
<1> DEFINE s == stack[p]  t == [s EXCEPT ![Len(s)] = f]
<1>1. s \in Seq(Frames) /\ Len(s) > 0
  BY DEF Types
<1>2. t \in Seq(Frames) /\ Len(t) = Len(s) /\ t[Len(s)] = f
      /\ \A d \in 1 .. Len(s) - 1 : t[d] = s[d]
  BY <1>1
<1>3. stack' = [stack EXCEPT ![p] = t]
  BY DEF SetTop, Depth
<1> HIDE DEF t
<1> QED
  BY <1>2, <1>3 DEF Types

(* A step of the innermost exec f of the only process, to g, that changes   *)
(* nothing but its own entry of the table, to m.                            *)
LEMMA TopStep ==
    ASSUME Alone, LInv, NEW p \in Procs, stack[p] # <<>>,
           NEW f, f = Top(p), f.phase # "native",
           NEW g \in Frames, g.ref = f.ref, SetTop(p, g),
           NEW m \in Modules, modules' = [modules EXCEPT ![f.ref.index] = m],
           m.owner = modules[f.ref.index].owner, m.text = g.text,
           m.text = f.text \/ m.text \notin Used,
           UNCHANGED <<buffer, capacity, resolver, faulted>>,
           g.phase # "native",
           g.phase # "running" => g.ref.buffer = buffer,
           g.text = NoArea <=> g.phase = "text",
           g.phase = "running" =>
                m.lot = "filled" /\ g.r9 = <<p, Len(stack[p])>> /\ resolver
    PROVE  LInv'
<1> DEFINE s == stack[p]  n == Len(s)  k == f.ref.index
<1>1. s \in Seq(Frames) /\ n \in Nat /\ n > 0 /\ DOMAIN s = 1 .. n /\ f = s[n]
  BY SMTT(60) DEF LInv, Types, Top, Depth
<1>2. /\ k \in DOMAIN modules /\ modules[k].owner = <<p, n>> /\ modules[k].text = f.text
  BY <1>1 DEF LInv, Entries, EntryOf
<1>3. modules \in Seq(Modules)
  BY DEF LInv, Types
<1>4. /\ modules' \in Seq(Modules) /\ DOMAIN modules' = DOMAIN modules
      /\ modules'[k] = m
      /\ \A j \in DOMAIN modules : j # k => modules'[j] = modules[j]
  BY <1>2, <1>3
<1>5. /\ stack' \in [Procs -> Seq(Frames)] /\ Len(stack'[p]) = n /\ stack'[p][n] = g
      /\ \A d \in 1 .. n - 1 : stack'[p][d] = s[d]
  BY TopSet DEF LInv
<1>6. DOMAIN stack'[p] = 1 .. n
  BY <1>5
<1>7. Types'
  BY SMTT(60), <1>4, <1>5 DEF LInv, Types
<1>8. ASSUME NEW d \in 1 .. n - 1, s[d].phase # "native" PROVE s[d].ref.index # k
  <2>1. d \in DOMAIN s /\ n \in DOMAIN s /\ d < n
    BY <1>1
  <2> QED
    BY <2>1, <1>1, <1>8 DEF LInv, InOrder, Entries, EntryOf
<1>13. Published'
  BY <1>5 DEF LInv, Published, Alone
<1>9. Entries'
  <2> SUFFICES ASSUME NEW d \in 1 .. n PROVE EntryOf(p, d, stack[p][d])'
    BY <1>6 DEF Entries, Alone
  <2>1. CASE d = n
    BY <2>1, <1>2, <1>4, <1>5 DEF EntryOf
  <2>2. CASE d # n
    <3>1. d \in 1 .. n - 1 /\ d \in DOMAIN s
      BY <2>2, <1>1
    <3>2. EntryOf(p, d, s[d]) /\ stack'[p][d] = s[d]
      BY <3>1, <1>5 DEF LInv, Entries
    <3> HIDE DEF s, k
    <3> QED
      BY <3>1, <3>2, <1>4, <1>8 DEF EntryOf
  <2> QED
    BY <2>1, <2>2
<1>10. OuterRun'
  BY <1>1, <1>5, <1>6 DEF LInv, OuterRun, Alone
<1>11. InOrder'
  <2>1. \A d \in 1 .. n : stack'[p][d].ref = s[d].ref
            /\ (stack'[p][d].phase = "native" <=> s[d].phase = "native")
    BY <1>1, <1>5
  <2>2. \A d, e \in 1 .. n : d < e /\ s[d].phase # "native" /\ s[e].phase # "native" =>
            s[d].ref.index < s[e].ref.index
    BY <1>1 DEF LInv, InOrder
  <2> HIDE DEF s, n
  <2>3. \A d, e \in 1 .. n : d < e /\ stack'[p][d].phase # "native" /\ stack'[p][e].phase # "native" =>
            stack'[p][d].ref.index < stack'[p][e].ref.index
    BY <2>1, <2>2
  <2> QED
    BY <2>3, <1>6 DEF InOrder, Alone
<1>12. OwnText'
  <2> SUFFICES ASSUME NEW i \in DOMAIN modules, NEW j \in DOMAIN modules,
                      modules'[i].text = modules'[j].text, modules'[i].text # NoArea
               PROVE  i = j
    BY <1>4 DEF OwnText
  <2>1. \A h \in DOMAIN modules : h # k /\ modules[h].text = m.text /\ m.text # NoArea => FALSE
    BY <1>2 DEF LInv, OwnText, Used
  <2> QED
    BY <2>1, <1>4 DEF LInv, OwnText
<1> QED
  BY <1>7, <1>9, <1>10, <1>11, <1>12, <1>13 DEF LInv

(* A loading exec can still reach its entry: nobody else moves the table.   *)
LEMMA Reached ==
    ASSUME LInv, NEW p \in Procs, NEW phase, InPhase(p, phase), phase # "native"
    PROVE  /\ stack[p] # <<>> /\ Top(p) \in Frames /\ Top(p).phase = phase /\ ~faulted
           /\ Len(stack[p]) \in DOMAIN stack[p]
           /\ Top(p).ref.index \in DOMAIN modules
           /\ modules[Top(p).ref.index] \in Modules
           /\ modules[Top(p).ref.index].owner = <<p, Len(stack[p])>>
           /\ modules[Top(p).ref.index].text = Top(p).text
           /\ phase # "running" => Deref(Top(p).ref) = Top(p).ref.index
           /\ Top(p).ref.buffer # buffer => Deref(Top(p).ref) = 0
           /\ Top(p).ref.buffer = buffer => Deref(Top(p).ref) = Top(p).ref.index
<1>1. stack[p] # <<>> /\ stack[p] \in Seq(Frames) /\ Top(p).phase = phase /\ ~faulted
  BY DEF InPhase, LInv, Types
<1>2. Len(stack[p]) \in DOMAIN stack[p] /\ Top(p) = stack[p][Len(stack[p])] /\ Top(p) \in Frames
  BY <1>1 DEF Top, Depth
<1>3. EntryOf(p, Len(stack[p]), Top(p))
  BY <1>2 DEF LInv, Entries
<1>4. modules \in Seq(Modules)
  BY DEF LInv, Types
<1> QED
  BY <1>1, <1>2, <1>3, <1>4 DEF EntryOf, Deref

(* The program gets its text.                                               *)
LEMMA CopyTextStep ==
    ASSUME Alone, LInv, NEW p \in Procs, CopyText(p) PROVE LInv'
<1> DEFINE f == Top(p)  k == f.ref.index
<1>1. InPhase(p, "text")
  BY DEF CopyText
<1>2. /\ stack[p] # <<>> /\ f \in Frames /\ f.phase = "text"
      /\ k \in DOMAIN modules /\ modules[k] \in Modules /\ Deref(f.ref) = k
      /\ Len(stack[p]) \in DOMAIN stack[p]
  BY <1>1, Reached
<1>3. PICK a \in Areas \ Used :
        /\ SetTop(p, [f EXCEPT !.phase = "lot", !.text = a])
        /\ SetModule(f.ref, [modules[k] EXCEPT !.text = a])
  BY <1>2 DEF CopyText
<1> DEFINE g == [f EXCEPT !.phase = "lot", !.text = a]
           m == [modules[k] EXCEPT !.text = a]
<1>4. /\ g \in Frames /\ g.ref = f.ref /\ g.phase = "lot" /\ g.text = a
  BY <1>2 DEF Frames, Phases
<1>5. m \in Modules /\ m.owner = modules[k].owner /\ m.text = a
  BY <1>2 DEF Modules
<1>6. k # 0
  BY <1>2 DEF LInv, Types
<1>7. modules' = [modules EXCEPT ![k] = m]
  BY <1>2, <1>3, <1>6 DEF SetModule
<1>8. f.ref.buffer = buffer
  BY <1>2 DEF LInv, Entries, EntryOf, Top, Depth
<1>9. a # NoArea /\ UNCHANGED <<buffer, capacity, resolver, faulted>>
  BY LinkerAssumption DEF CopyText
<1>10. SetTop(p, g)
  BY <1>3
<1> HIDE DEF f, g, m, k
<1> QED
  BY <1>2, <1>4, <1>5, <1>7, <1>8, <1>9, <1>10, TopStep DEF f, k

(* It gets its offset table.                                                *)
LEMMA AllocateLotStep ==
    ASSUME Alone, LInv, NEW p \in Procs, AllocateLot(p) PROVE LInv'
<1> DEFINE f == Top(p)  k == f.ref.index
<1>1. InPhase(p, "lot")
  BY DEF AllocateLot
<1>2. /\ stack[p] # <<>> /\ f \in Frames /\ f.phase = "lot"
      /\ k \in DOMAIN modules /\ modules[k] \in Modules /\ Deref(f.ref) = k
      /\ modules[k].owner = <<p, Len(stack[p])>> /\ modules[k].text = f.text
      /\ Len(stack[p]) \in DOMAIN stack[p]
  BY <1>1, Reached
<1>3. k # 0
  BY <1>2 DEF LInv, Types
<1> DEFINE g == [f EXCEPT !.phase = "relocate"]
           m == [modules[k] EXCEPT !.lot = "allocated"]
<1>4. g \in Frames /\ g.ref = f.ref /\ g.phase = "relocate" /\ g.text = f.text
  BY <1>2 DEF Frames, Phases, Modules
<1>5. m \in Modules /\ m.owner = modules[k].owner /\ m.text = f.text /\ m.lot = "allocated"
  BY <1>2 DEF Modules, Lots
<1>6. modules' = [modules EXCEPT ![k] = m]
  BY <1>2, <1>3 DEF AllocateLot, SetModule
<1>7. SetTop(p, g)
  BY SMTT(60), <1>2, <1>3 DEF AllocateLot
<1>8. f.ref.buffer = buffer /\ f.text # NoArea
  BY <1>2 DEF LInv, Entries, EntryOf, Top, Depth
<1>9. UNCHANGED <<buffer, capacity, resolver, faulted>>
  BY DEF AllocateLot
<1> HIDE DEF f, g, m, k
<1> QED
  BY <1>2, <1>4, <1>5, <1>6, <1>7, <1>8, <1>9, TopStep DEF f, k

(* The offset table is filled and the program entered.                      *)
LEMMA RelocateStep ==
    ASSUME Alone, LInv, NEW p \in Procs, Relocate(p) PROVE LInv'
<1> DEFINE f == Top(p)  k == f.ref.index
<1>1. InPhase(p, "relocate")
  BY DEF Relocate
<1>2. /\ stack[p] # <<>> /\ f \in Frames /\ f.phase = "relocate"
      /\ k \in DOMAIN modules /\ modules[k] \in Modules /\ Deref(f.ref) = k
      /\ modules[k].owner = <<p, Len(stack[p])>> /\ modules[k].text = f.text
      /\ Len(stack[p]) \in DOMAIN stack[p]
  BY <1>1, Reached
<1>3. k # 0
  BY <1>2 DEF LInv, Types
<1> DEFINE g == [f EXCEPT !.phase = "running", !.r9 = modules[k].owner]
           m == [modules[k] EXCEPT !.lot = "filled"]
<1>4. g \in Frames /\ g.ref = f.ref /\ g.phase = "running" /\ g.text = f.text /\ g.r9 = <<p, Len(stack[p])>>
  BY <1>2 DEF Frames, Phases, Modules
<1>5. m \in Modules /\ m.owner = modules[k].owner /\ m.text = f.text /\ m.lot = "filled"
  BY <1>2 DEF Modules, Lots
<1>6. modules' = [modules EXCEPT ![k] = m]
  BY <1>2, <1>3 DEF Relocate, SetModule
<1>7. SetTop(p, g)
  BY SMTT(60), <1>2, <1>3 DEF Relocate, Execute
<1>8. f.ref.buffer = buffer /\ f.text # NoArea
  BY <1>2 DEF LInv, Entries, EntryOf, Top, Depth
<1>9. UNCHANGED <<buffer, capacity, resolver, faulted>>
  BY DEF Relocate
<1>10. resolver
  BY SMTT(60), <1>2 DEF LInv, Published
<1> HIDE DEF f, g, m, k
<1> QED
  BY <1>2, <1>4, <1>5, <1>6, <1>7, <1>8, <1>9, <1>10, TopStep DEF f, k

(* Who asks for the offset table of its text finds the entry of its own:    *)
(* nobody else has this text.                                               *)
LEMMA OwnLot ==
    ASSUME LInv, NEW p \in Procs, NEW d \in DOMAIN stack[p], stack[p][d].phase = "running"
    PROVE  /\ Holders(stack[p][d].text) = {stack[p][d].ref.index}
           /\ LotAt(stack[p][d].text) = <<p, d>>
<1> DEFINE f == stack[p][d]  k == f.ref.index
<1>1. k \in DOMAIN modules /\ modules[k].owner = <<p, d>> /\ modules[k].text = f.text
      /\ f.text # NoArea
  BY DEF LInv, Entries, EntryOf
<1>2. Holders(f.text) = {k}
  BY <1>1 DEF Holders, LInv, OwnText
<1>3. LotAt(f.text) = modules[CHOOSE i \in {k} : \A j \in {k} : i <= j].owner
  BY <1>2 DEF LotAt
<1>4. k <= k
  BY <1>1 DEF LInv, Types
<1>5. (CHOOSE i \in {k} : \A j \in {k} : i <= j) = k
  BY <1>4
<1> QED
  BY <1>1, <1>2, <1>3, <1>5

(* The program asks for its offset table and gets its own.                  *)
LEMMA CallWrappedStep ==
    ASSUME Alone, LInv, NEW p \in Procs, CallWrapped(p) PROVE LInv'
<1> DEFINE f == Top(p)  k == f.ref.index  n == Len(stack[p])
<1>1. InPhase(p, "running") /\ resolver
  BY DEF CallWrapped
<1>2. /\ stack[p] # <<>> /\ f \in Frames /\ f.phase = "running"
      /\ k \in DOMAIN modules /\ modules[k] \in Modules
      /\ modules[k].owner = <<p, n>> /\ modules[k].text = f.text
      /\ n \in DOMAIN stack[p] /\ f = stack[p][n]
  BY <1>1, Reached DEF Top, Depth
<1>3. LotAt(f.text) = <<p, n>>
  BY <1>2, OwnLot
<1> DEFINE g == [f EXCEPT !.r9 = LotAt(f.text)]
<1>4. n \in Nat
  BY <1>2 DEF LInv, Types
<1>5. g \in Frames /\ g.ref = f.ref /\ g.phase = "running" /\ g.text = f.text
      /\ g.r9 = <<p, n>>
  BY SMTT(60), <1>2, <1>3, <1>4 DEF Frames, Names
<1>6. f.text # NoArea /\ modules[k].lot = "filled"
  BY <1>2 DEF LInv, Entries, EntryOf
<1>7. modules' = [modules EXCEPT ![k] = modules[k]]
  BY <1>2 DEF CallWrapped, LInv, Types
<1>8. SetTop(p, g) /\ UNCHANGED <<buffer, capacity, resolver, faulted>>
  BY DEF CallWrapped
<1> HIDE DEF f, g, k
<1> QED
  BY <1>1, <1>2, <1>5, <1>6, <1>7, <1>8, TopStep DEF f, k

(* Who may exec has only programs that run.                                 *)
LEMMA AllRun ==
    ASSUME LInv, NEW p \in Procs, MayExec(p)
    PROVE  \A d \in DOMAIN stack[p] : stack[p][d].phase \in {"running", "native"}
<1>1. stack[p] \in Seq(Frames)
  BY DEF LInv, Types
<1>2. CASE stack[p] = <<>>
  BY <1>2
<1>3. CASE stack[p] # <<>>
  <2>1. stack[p][Len(stack[p])].phase \in {"running", "native"}
    BY <1>3 DEF MayExec, InPhase, Top, Depth
  <2>2. \A d \in DOMAIN stack[p] : d < Len(stack[p]) => stack[p][d].phase \in {"running", "native"}
    BY DEF LInv, OuterRun
  <2> QED
    BY <1>1, <2>1, <2>2
<1> QED
  BY <1>2, <1>3

(* A new exec, of a module or of a function, and what it leaves alone.      *)
LEMMA ExecNativeStep ==
    ASSUME Alone, LInv, NEW p \in Procs, ExecNative(p) PROVE LInv'
<1> DEFINE s == stack[p]  n == Len(s)  f == Frame("native", NullRef)
<1>1. s \in Seq(Frames) /\ n \in Nat /\ DOMAIN s = 1 .. n
  BY DEF LInv, Types
<1>2. f \in Frames /\ f.phase = "native"
  BY DEF Frame, Frames, NullRef, Phases, Addresses
<1>3. /\ stack' \in [Procs -> Seq(Frames)] /\ Len(stack'[p]) = n + 1 /\ stack'[p][n + 1] = f
      /\ \A d \in 1 .. n : stack'[p][d] = s[d]
  <2> HIDE DEF f
  <2>1. stack' = [stack EXCEPT ![p] = Append(@, f)]
    BY DEF ExecNative, PublishResolver, f
  <2> QED
    BY <1>2, <2>1, Pushed DEF LInv
<1> HIDE DEF f
<1>4. DOMAIN stack'[p] = 1 .. n + 1
  BY <1>3
<1>5. \A d \in 1 .. n : s[d].phase \in {"running", "native"}
  BY <1>1, AllRun DEF ExecNative, PublishResolver
<1>6. resolver' = TRUE /\ UNCHANGED <<modules, buffer, capacity, faulted>>
  BY DEF ExecNative, PublishResolver
<1>7. Types' /\ Published' /\ OwnText'
  BY <1>3, <1>6 DEF LInv, Types, Published, OwnText
<1>8. Entries'
  <2> SUFFICES ASSUME NEW d \in 1 .. n + 1 PROVE EntryOf(p, d, stack[p][d])'
    BY <1>4 DEF Entries, Alone
  <2>1. CASE d = n + 1
    BY <2>1, <1>2, <1>3 DEF EntryOf
  <2>2. CASE d # n + 1
    <3>1. d \in 1 .. n /\ d \in DOMAIN s
      BY <2>2, <1>1
    <3>2. EntryOf(p, d, s[d]) /\ stack'[p][d] = s[d]
      BY <3>1, <1>3 DEF LInv, Entries
    <3> HIDE DEF s
    <3> QED
      BY <3>2, <1>6 DEF EntryOf
  <2> QED
    BY <2>1, <2>2
<1>9. OuterRun'
  BY <1>1, <1>2, <1>3, <1>4, <1>5 DEF OuterRun, Alone
<1>10. InOrder'
  <2>1. \A d, e \in 1 .. n : d < e /\ s[d].phase # "native" /\ s[e].phase # "native" =>
            s[d].ref.index < s[e].ref.index
    BY <1>1 DEF LInv, InOrder
  <2> HIDE DEF s
  <2>2. \A d, e \in 1 .. n + 1 : d < e /\ stack'[p][d].phase # "native" /\ stack'[p][e].phase # "native" =>
            stack'[p][d].ref.index < stack'[p][e].ref.index
    BY <2>1, <1>1, <1>2, <1>3
  <2> QED
    BY <2>2, <1>4 DEF InOrder, Alone
<1> QED
  BY <1>7, <1>8, <1>9, <1>10 DEF LInv

(* A new entry stands behind those of the outer programs.                   *)
LEMMA ExecModuleStep ==
    ASSUME Alone, LInv, NEW p \in Procs, ExecModule(p) PROVE LInv'
<1> DEFINE s == stack[p]  n == Len(s)  k == Len(modules) + 1
           m == Module(p, n + 1)
           f == Frame("text", [buffer |-> buffer', index |-> k])
<1>1. s \in Seq(Frames) /\ n \in Nat /\ DOMAIN s = 1 .. n
  BY DEF LInv, Types
<1>2. m \in Modules /\ m.text = NoArea /\ m.owner = <<p, n + 1>>
  BY <1>1 DEF Module, Modules, Lots, Names
<1>3. modules \in Seq(Modules) /\ Len(modules) \in Nat
  BY DEF LInv, Types
<1>4. modules' = Append(modules, m)
  BY DEF ExecModule, PublishResolver, EmplaceBack, Depth
<1>5. /\ modules' \in Seq(Modules) /\ Len(modules') = k /\ DOMAIN modules' = 1 .. k
      /\ DOMAIN modules = 1 .. k - 1
      /\ modules'[k] = m /\ \A j \in 1 .. k - 1 : modules'[j] = modules[j]
  <2> HIDE DEF m
  <2> QED
    BY <1>2, <1>3, <1>4
<1>6. buffer' \in Nat /\ capacity' \in Nat /\ resolver' = TRUE /\ faulted' = faulted
  <2>1. CASE Len(modules) < capacity
    BY <2>1 DEF ExecModule, PublishResolver, EmplaceBack, LInv, Types
  <2>2. CASE ~(Len(modules) < capacity)
    <3>1. buffer' \in Buffers /\ capacity' = IF capacity = 0 THEN 1 ELSE 2 * capacity
      BY <2>2 DEF ExecModule, PublishResolver, EmplaceBack
    <3>2. capacity \in Nat
      BY DEF LInv, Types
    <3>3. capacity' \in Nat
      BY <3>1, <3>2
    <3>4. buffer' \in Nat
      BY <3>1, LinkerAssumption
    <3> QED
      BY <3>3, <3>4 DEF ExecModule, PublishResolver
  <2> QED
    BY <2>1, <2>2
<1>7. f \in Frames /\ f.phase = "text" /\ f.text = NoArea
      /\ f.ref.buffer = buffer' /\ f.ref.index = k
  BY <1>3, <1>6 DEF Frame, Frames, Phases, Addresses
<1>8. /\ stack' \in [Procs -> Seq(Frames)] /\ Len(stack'[p]) = n + 1 /\ stack'[p][n + 1] = f
      /\ \A d \in 1 .. n : stack'[p][d] = s[d]
  <2>1. stack' = [stack EXCEPT ![p] = Append(@, f)]
    BY <1>5 DEF ExecModule, PublishResolver
  <2> HIDE DEF f
  <2> QED
    BY <1>7, <2>1, Pushed DEF LInv
<1> HIDE DEF f, m
<1>9. DOMAIN stack'[p] = 1 .. n + 1
  BY <1>8
<1>10. \A d \in 1 .. n : s[d].phase \in {"running", "native"}
  BY <1>1, AllRun DEF ExecModule, PublishResolver
<1>11. Types' /\ Published'
  BY <1>5, <1>6, <1>8 DEF LInv, Types, Published
<1>12. Entries'
  <2> SUFFICES ASSUME NEW d \in 1 .. n + 1 PROVE EntryOf(p, d, stack[p][d])'
    BY <1>9 DEF Entries, Alone
  <2>1. CASE d = n + 1
    <3>1. k \in DOMAIN modules'
      BY <1>3, <1>5
    <3> QED
      BY <2>1, <3>1, <1>2, <1>5, <1>7, <1>8 DEF EntryOf
  <2>2. CASE d # n + 1
    <3>1. d \in 1 .. n /\ d \in DOMAIN s
      BY <2>2, <1>1
    <3>2. EntryOf(p, d, s[d]) /\ stack'[p][d] = s[d] /\ s[d].phase \in {"running", "native"}
      BY <3>1, <1>8, <1>10 DEF LInv, Entries
    <3>3. \A j \in DOMAIN modules : j \in DOMAIN modules' /\ modules'[j] = modules[j]
      BY <1>3, <1>5
    <3> HIDE DEF s
    <3> QED
      BY <3>2, <3>3, <1>6 DEF EntryOf
  <2> QED
    BY <2>1, <2>2
<1>13. OuterRun'
  BY <1>1, <1>8, <1>9, <1>10 DEF OuterRun, Alone
<1>14. InOrder'
  <2>1. \A d, e \in 1 .. n : d < e /\ s[d].phase # "native" /\ s[e].phase # "native" =>
            s[d].ref.index < s[e].ref.index
    BY <1>1 DEF LInv, InOrder
  <2>2. \A d \in 1 .. n : s[d].phase # "native" => s[d].ref.index < k
    BY <1>1, <1>3, <1>5 DEF LInv, Entries, EntryOf
  <2> HIDE DEF s
  <2>3. \A d, e \in 1 .. n + 1 : d < e /\ stack'[p][d].phase # "native" /\ stack'[p][e].phase # "native" =>
            stack'[p][d].ref.index < stack'[p][e].ref.index
    <3> SUFFICES ASSUME NEW d \in 1 .. n + 1, NEW e \in 1 .. n + 1, d < e,
                        stack'[p][d].phase # "native", stack'[p][e].phase # "native"
                 PROVE  stack'[p][d].ref.index < stack'[p][e].ref.index
      OBVIOUS
    <3>1. d \in 1 .. n /\ stack'[p][d] = s[d]
      BY <1>1, <1>8
    <3>2. CASE e = n + 1
      BY <3>1, <3>2, <2>2, <1>7, <1>8
    <3>3. CASE e # n + 1
      <4>1. e \in 1 .. n
        BY <3>3, <1>1
      <4>2. stack'[p][e] = s[e]
        BY <4>1, <1>8
      <4> QED
        BY <3>1, <4>1, <4>2, <2>1
    <3> QED
      BY <3>2, <3>3
  <2> QED
    BY <2>3, <1>9 DEF InOrder, Alone
<1>15. OwnText'
  BY <1>2, <1>3, <1>5 DEF LInv, OwnText
<1> QED
  BY <1>11, <1>12, <1>13, <1>14, <1>15 DEF LInv

(* The return of the innermost exec: what is left keeps its entries, which  *)
(* stand before the one that is erased.                                     *)
LEMMA PopStep ==
    ASSUME Alone, LInv, NEW p \in Procs, stack[p] # <<>>, Pop(p),
           NEW k, modules' = modules \/ (k \in DOMAIN modules /\ modules' = RemoveAt(modules, k)),
           \A d \in 1 .. Len(stack[p]) - 1 : modules' # modules /\ stack[p][d].phase # "native" =>
                stack[p][d].ref.index < k,
           UNCHANGED <<buffer, capacity, resolver, faulted>>
    PROVE  LInv'
<1> DEFINE s == stack[p]  n == Len(s)
<1>1. s \in Seq(Frames) /\ n \in Nat /\ n > 0 /\ DOMAIN s = 1 .. n
  BY DEF LInv, Types
<1>2. /\ stack' \in [Procs -> Seq(Frames)] /\ Len(stack'[p]) = n - 1
      /\ \A d \in 1 .. n - 1 : stack'[p][d] = s[d]
  BY Popped DEF LInv
<1>3. DOMAIN stack'[p] = 1 .. n - 1
  BY <1>1, <1>2
<1>4. \A d \in 1 .. n - 1 : d \in DOMAIN s /\ s[d].phase \in {"running", "native"}
  BY <1>1 DEF LInv, OuterRun
<1>5. modules \in Seq(Modules) /\ OwnText
  BY DEF LInv, Types
<1>6. modules' \in Seq(Modules) /\ OwnText'
  <2>1. CASE modules' = modules
    BY <2>1, <1>5 DEF OwnText
  <2>2. CASE k \in DOMAIN modules /\ modules' = RemoveAt(modules, k)
    <3> DEFINE Old(j) == IF j < k THEN j ELSE j + 1
    <3>1. /\ modules' \in Seq(Modules) /\ Len(modules') = Len(modules) - 1
          /\ \A j \in 1 .. k - 1 : modules'[j] = modules[j]
          /\ \A j \in k .. Len(modules) - 1 : modules'[j] = modules[j + 1]
      BY <2>2, <1>5, Removed
    <3>2. ASSUME NEW j \in DOMAIN modules'
          PROVE  Old(j) \in DOMAIN modules /\ modules'[j] = modules[Old(j)]
      <4>1. j \in 1 .. Len(modules) - 1 /\ k \in 1 .. Len(modules) /\ Len(modules) \in Nat
        BY <3>1, <2>2, <1>5
      <4>2. CASE j < k
        BY <4>1, <4>2, <3>1, <1>5
      <4>3. CASE ~(j < k)
        <5>1. j \in k .. Len(modules) - 1
          BY <4>1, <4>3
        <5> QED
          BY <4>1, <4>3, <5>1, <3>1, <1>5
      <4> QED
        BY <4>2, <4>3
    <3>3. ASSUME NEW i \in DOMAIN modules', NEW j \in DOMAIN modules',
                 modules'[i].text = modules'[j].text, modules'[i].text # NoArea
          PROVE  i = j
      <4>1. Old(i) = Old(j)
        BY <3>2, <3>3, <1>5 DEF OwnText
      <4>2. i \in Nat /\ j \in Nat /\ k \in Nat
        BY <3>1, <2>2, <1>5
      <4> QED
        BY <4>1, <4>2
    <3> QED
      BY <3>1, <3>3 DEF OwnText
  <2> QED
    BY <2>1, <2>2
<1>7. ASSUME NEW d \in 1 .. n - 1, s[d].phase # "native"
      PROVE  /\ s[d].ref.index \in DOMAIN modules'
             /\ modules'[s[d].ref.index] = modules[s[d].ref.index]
  <2>1. s[d].ref.index \in DOMAIN modules
    BY <1>4, <1>7 DEF LInv, Entries, EntryOf
  <2>2. CASE modules' = modules
    BY <2>1, <2>2
  <2>3. CASE modules' # modules
    <3>1. s[d].ref.index < k /\ k \in DOMAIN modules /\ modules' = RemoveAt(modules, k)
      BY <2>3, <1>7
    <3>2. modules' \in Seq(Modules) /\ Len(modules') = Len(modules) - 1
          /\ \A j \in 1 .. k - 1 : modules'[j] = modules[j]
      BY <3>1, <1>5, Removed
    <3> HIDE DEF s
    <3> QED
      BY <2>1, <3>1, <3>2, <1>5
  <2> QED
    BY <2>2, <2>3
<1>8. Types' /\ Published'
  BY <1>2, <1>6 DEF LInv, Types, Published, Alone
<1>9. Entries'
  <2> SUFFICES ASSUME NEW d \in 1 .. n - 1 PROVE EntryOf(p, d, stack[p][d])'
    BY <1>3 DEF Entries, Alone
  <2>1. EntryOf(p, d, s[d]) /\ stack'[p][d] = s[d] /\ s[d].phase \in {"running", "native"}
    BY <1>2, <1>4 DEF LInv, Entries
  <2>2. CASE s[d].phase = "native"
    BY <2>1, <2>2 DEF EntryOf
  <2>3. CASE s[d].phase # "native"
    <3>1. s[d].ref.index \in DOMAIN modules' /\ modules'[s[d].ref.index] = modules[s[d].ref.index]
      BY <2>3, <1>7
    <3> HIDE DEF s
    <3> QED
      BY <2>1, <2>3, <3>1 DEF EntryOf
  <2> QED
    BY <2>2, <2>3
<1>10. OuterRun'
  BY <1>2, <1>3, <1>4 DEF OuterRun, Alone
<1>11. InOrder'
  <2>1. \A d, e \in 1 .. n - 1 : d < e /\ s[d].phase # "native" /\ s[e].phase # "native" =>
            s[d].ref.index < s[e].ref.index
    BY <1>4 DEF LInv, InOrder
  <2> HIDE DEF s
  <2>2. \A d, e \in 1 .. n - 1 : d < e /\ stack'[p][d].phase # "native" /\ stack'[p][e].phase # "native" =>
            stack'[p][d].ref.index < stack'[p][e].ref.index
    BY <2>1, <1>2
  <2> QED
    BY <2>2, <1>3 DEF InOrder, Alone
<1> QED
  BY <1>6, <1>8, <1>9, <1>10, <1>11 DEF LInv

(* What the innermost program erases when it returns.                       *)
LEMMA FinishErases ==
    ASSUME LInv, NEW p \in Procs, Finish(p)
    PROVE  /\ stack[p] # <<>> /\ Pop(p)
           /\ Top(p).ref.index \in DOMAIN modules
           /\ modules[Top(p).ref.index].owner = <<p, Len(stack[p])>>
           /\ modules[Top(p).ref.index].text = Top(p).text
           /\ \/ modules' = modules /\ Top(p).ref.buffer # buffer
              \/ modules' = RemoveAt(modules, Top(p).ref.index)
<1> DEFINE f == Top(p)
<1>1. InPhase(p, "running") /\ Unload(f.ref) /\ Pop(p)
  BY DEF Finish
<1>2. /\ stack[p] # <<>>
      /\ f.ref.index \in DOMAIN modules
      /\ modules[f.ref.index].owner = <<p, Len(stack[p])>>
      /\ modules[f.ref.index].text = f.text
      /\ f.ref.buffer # buffer => Deref(f.ref) = 0
      /\ f.ref.buffer = buffer => Deref(f.ref) = f.ref.index
  BY <1>1, Reached
<1>3. f.ref.index # 0
  BY <1>2 DEF LInv, Types
<1> HIDE DEF f
<1>4. CASE f.ref.buffer = buffer
  BY <1>1, <1>2, <1>3, <1>4 DEF Unload, f
<1>5. CASE f.ref.buffer # buffer
  BY <1>1, <1>2, <1>5 DEF Unload, f
<1> QED
  BY <1>1, <1>2, <1>4, <1>5 DEF f

(* The innermost program returns.                                           *)
LEMMA FinishStep ==
    ASSUME Alone, LInv, NEW p \in Procs, Finish(p) PROVE LInv'
<1> DEFINE s == stack[p]  n == Len(s)  k == Top(p).ref.index
<1>1. s \in Seq(Frames) /\ n \in Nat /\ DOMAIN s = 1 .. n
  BY DEF LInv, Types
<1>2. /\ s # <<>> /\ Pop(p) /\ k \in DOMAIN modules
      /\ modules' = modules \/ modules' = RemoveAt(modules, k)
      /\ Top(p) = s[n] /\ s[n].phase = "running"
      /\ UNCHANGED <<buffer, capacity, resolver, faulted>>
  BY FinishErases DEF Finish, InPhase, Top, Depth
<1>3. n \in DOMAIN s
  BY <1>1, <1>2
<1>4. \A d \in 1 .. n - 1 : s[d].phase # "native" => s[d].ref.index < k
  BY <1>1, <1>2, <1>3 DEF LInv, InOrder
<1> HIDE DEF k
<1> QED
  BY <1>2, <1>4, PopStep

(* The innermost application returns.                                       *)
LEMMA FinishNativeStep ==
    ASSUME Alone, LInv, NEW p \in Procs, FinishNative(p) PROVE LInv'
<1>1. /\ stack[p] # <<>> /\ Pop(p) /\ modules' = modules
      /\ UNCHANGED <<buffer, capacity, resolver, faulted>>
  BY DEF FinishNative, InPhase
<1> QED
  BY <1>1, PopStep

(* What only stops the core or publishes get_lot_at.                        *)
LEMMA StillStep ==
    ASSUME LInv, UNCHANGED <<modules, buffer, capacity, stack>>,
           resolver' \in {TRUE, resolver}, faulted' \in BOOLEAN
    PROVE  LInv'
<1>1. resolver \in BOOLEAN /\ resolver' \in BOOLEAN /\ (resolver => resolver')
  BY DEF LInv, Types
<1>2. Types'
  BY <1>1 DEF LInv, Types
<1>3. Published'
  BY <1>1 DEF LInv, Published
<1>4. OuterRun' /\ InOrder' /\ OwnText'
  BY DEF LInv, OuterRun, InOrder, OwnText
<1>5. Entries'
  <2> SUFFICES ASSUME NEW p \in Procs, NEW d \in DOMAIN stack[p] PROVE EntryOf(p, d, stack[p][d])'
    BY DEF Entries
  <2> QED
    BY <1>1 DEF LInv, Entries, EntryOf
<1> QED
  BY <1>2, <1>3, <1>4, <1>5 DEF LInv

(* Before the first exec there is nothing to keep.                          *)
LEMMA LinkerStart == Init => LInv
<1> SUFFICES ASSUME Init PROVE LInv
  OBVIOUS
<1>1. modules = <<>> /\ DOMAIN modules = {}
  BY DEF Init
<1>2. \A p \in Procs : stack[p] = <<>> /\ DOMAIN stack[p] = {}
  BY DEF Init
<1>3. Types
  <2>1. <<>> \in Seq(Modules) /\ <<>> \in Seq(Frames)
    OBVIOUS
  <2> QED
    BY <2>1 DEF Init, Types
<1>4. Published /\ Entries /\ OuterRun /\ InOrder
  BY <1>2 DEF Published, Entries, OuterRun, InOrder
<1>5. OwnText
  BY <1>1 DEF OwnText
<1> QED
  BY <1>3, <1>4, <1>5 DEF LInv

(* Every step keeps the invariant.                                          *)
LEMMA LinkerStep == Alone /\ LInv /\ [Next]_vars => LInv'
<1> SUFFICES ASSUME Alone, LInv, [Next]_vars PROVE LInv'
  OBVIOUS
<1>1. CASE UNCHANGED vars
  <2>1. faulted \in BOOLEAN
    BY DEF LInv, Types
  <2> QED
    BY <1>1, <2>1, StillStep DEF vars
<1>2. ASSUME NEW p \in Procs, ExecNothing(p) \/ CallData(p) PROVE LInv'
  <2>1. /\ UNCHANGED <<modules, buffer, capacity, stack>>
        /\ resolver' = TRUE /\ faulted' \in BOOLEAN
    BY <1>2 DEF ExecNothing, PublishResolver, CallData, LInv, Types
  <2> QED
    BY <2>1, StillStep
<1>3. CASE Next
  BY <1>2, <1>3, ExecNativeStep, ExecModuleStep, CopyTextStep, AllocateLotStep, RelocateStep,
     CallWrappedStep, FinishStep, FinishNativeStep DEF Next
<1> QED
  BY <1>1, <1>3

(* The table as one process keeps it, wherever it moves.                    *)
THEOREM LinkerInductive == Alone /\ Spec => []AInv
<1>1. Alone /\ Init => AInv
  BY LinkerStart DEF AInv
<1>2. AInv /\ [Next]_vars => AInv'
  BY LinkerStep DEF AInv, Alone
<1> QED
  BY <1>1, <1>2, PTL DEF Spec

(* Every running program, however deep, finds its own offset table, filled, *)
(* in r9 and whenever it asks for it (dynamic_linker.cpp, spawn.cpp).       *)
THEOREM OwnTableIsSeen == Alone /\ Spec => []RunningSeesOwnLot
<1>1. AInv => RunningSeesOwnLot
  <2> SUFFICES ASSUME AInv, NEW p \in Procs, NEW d \in DOMAIN stack[p],
                      stack[p][d].phase = "running"
               PROVE  /\ resolver /\ stack[p][d].r9 = <<p, d>>
                      /\ LotAt(stack[p][d].text) = <<p, d>>
                      /\ \E i \in Holders(stack[p][d].text) : modules[i].lot = "filled"
    BY DEF RunningSeesOwnLot
  <2>1. EntryOf(p, d, stack[p][d])
    BY DEF AInv, LInv, Entries
  <2> QED
    BY <2>1, OwnLot DEF EntryOf, AInv
<1> QED
  BY <1>1, LinkerInductive, PTL

(* A return erases the entry of the program that returns, or, if the table  *)
(* has moved, none (dynamic_linker.cpp).                                    *)
THEOREM OwnEntryIsErased == Alone /\ Spec => ReturnUnloadsOwn
<1> DEFINE Erased(p) ==
        InPhase(p, "running") /\ Len(stack'[p]) < Depth(p) =>
            \/ \E i \in DOMAIN modules :
                /\ modules[i].owner = <<p, Depth(p)>>
                /\ modules[i].text = Top(p).text
                /\ modules' = RemoveAt(modules, i)
            \/ modules' = modules /\ Top(p).ref.buffer # buffer
<1>1. ASSUME AInv, [Next]_vars, NEW p \in Procs PROVE Erased(p)
  <2> SUFFICES ASSUME InPhase(p, "running"), Len(stack'[p]) < Len(stack[p])
               PROVE  Erased(p)
    BY DEF Depth
  <2>1. Alone /\ LInv
    BY <1>1 DEF AInv
  <2>2. Finish(p)
    <3>1. stack[p] # <<>> /\ stack[p] \in Seq(Frames) /\ Top(p).phase = "running"
      BY <2>1 DEF InPhase, LInv, Types
    <3>2. ~FinishNative(p)
      BY <3>1 DEF FinishNative, InPhase
    <3>3. stack' # stack
      BY <3>1
    <3>4. ASSUME NEW f, SetTop(p, f) PROVE FALSE
      <4>1. stack' = [stack EXCEPT ![p] = [stack[p] EXCEPT ![Len(stack[p])] = f]]
        BY <3>4 DEF SetTop, Depth
      <4>2. stack'[p] = [stack[p] EXCEPT ![Len(stack[p])] = f]
        BY <2>1, <4>1 DEF LInv, Types
      <4>3. Len(stack'[p]) = Len(stack[p])
        BY <4>2, <3>1
      <4> QED
        BY <4>3, <3>1
    <3>5. ASSUME NEW f, stack' = [stack EXCEPT ![p] = Append(@, f)] PROVE FALSE
      <4>1. stack'[p] = Append(stack[p], f)
        BY <2>1, <3>5 DEF LInv, Types
      <4>2. Len(stack'[p]) = Len(stack[p]) + 1
        BY <4>1, <3>1
      <4> QED
        BY <4>2, <3>1
    <3>6. ~ExecNothing(p) /\ ~CallData(p) /\ ~UNCHANGED vars
      BY <3>3 DEF ExecNothing, PublishResolver, CallData, vars
    <3>7. ~CopyText(p) /\ ~AllocateLot(p) /\ ~Relocate(p) /\ ~CallWrapped(p)
      BY <3>4 DEF CopyText, AllocateLot, Relocate, CallWrapped
    <3>8. ~ExecNative(p) /\ ~ExecModule(p)
      BY <3>5 DEF ExecNative, PublishResolver, ExecModule, PublishResolver
    <3>9. PICK q \in Procs :
            \/ ExecNothing(q) \/ ExecNative(q) \/ ExecModule(q)
            \/ CopyText(q) \/ AllocateLot(q) \/ Relocate(q)
            \/ CallData(q) \/ CallWrapped(q) \/ Finish(q) \/ FinishNative(q)
      BY <1>1, <3>6 DEF Next
    <3>10. q = p
      BY <2>1 DEF Alone
    <3> QED
      BY <3>2, <3>6, <3>7, <3>8, <3>9, <3>10
  <2> QED
    BY <2>1, <2>2, FinishErases DEF Depth
<1>2. AInv /\ [Next]_vars => \A p \in Procs : Erased(p)
  BY <1>1
<1>3. AInv /\ [Next]_vars => [\A p \in Procs : Erased(p)]_vars
  BY <1>2
<1> QED
  BY <1>3, LinkerInductive, PTL DEF Spec, ReturnUnloadsOwn
=============================================================================

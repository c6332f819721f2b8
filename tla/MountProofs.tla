---------------------------- MODULE MountProofs ----------------------------
(***************************************************************************)
(* Proofs about Mount: that the reference counts of vnodes are exact and   *)
(* nothing in use is torn down, however lookups, releases and chains of    *)
(* fat32_inactive interleave; that the device is held as long as the mount *)
(* is; that nothing is lost by an unmount; and that the layout computed by *)
(* fat32_read_boot is sound for every disk and every sector size.          *)
(*                                                                         *)
(* The inductive invariant says of every vnode what its count is made of,  *)
(* that a used vnode with count zero is being torn down by one thread, and *)
(* that the directories above a vnode come to an end: there is a rank that *)
(* grows upwards.  The last is what an unmount needs: without references   *)
(* from processes no vnode is left, as each would need one below it.       *)
(***************************************************************************)
EXTENDS Mount, FiniteSetTheorems, NatLemmas, TLAPS

----------------------------------------------------------------------------
(* The inductive invariant *)

OpType == [Thread -> [pc : {"idle", "device", "boot", "root", "inactive", "delete"},
                      v : Vnode \cup {NoVnode}]]

VnodeRec == [used : BOOLEAN, count : Nat, parent : Vnode \cup {NoVnode}, dirty : BOOLEAN]

\* t is in fat32_inactive or fat32_vnode_delete.
Dying(t) == op[t].pc \in {"inactive", "delete"}

\* Where fat32_mount has put the structure of disk and part
FsiOf(disk, part, state, root) ==
    [state |-> state, root |-> root, disk |-> disk,
     part |-> IF disk.direct THEN -1 ELSE part, layout |-> Layout(disk, part)]

FsiInv ==
    \/ fsi = NoFsi \/ fsi = MadeFsi
    \/ \E disk \in Disk, part \in Part :
         /\ BootUsable(disk, part)
         /\ \/ fsi = FsiOf(disk, part, "mounting", NoVnode)
            \/ \E v \in Vnode : fsi = FsiOf(disk, part, "live", v)

\* One thread at most is in fat32_mount, and it makes the mount.
MountInv ==
    /\ FsiInv
    /\ DeviceHeldByMount
    /\ \A t \in Thread : /\ op[t].pc = "boot" => fsi = MadeFsi
                         /\ op[t].pc = "root" => fsi.state = "mounting"
    /\ \A t, u \in Thread : Mounting(t) /\ Mounting(u) => t = u

\* What the vnodes fw hold of v, with references rf and mount references m
Below(fw, v) == {w \in Vnode : fw[w].used /\ fw[w].parent = v}

\* What mounts have of v: two references while they last, and one that nobody
\* gives back after that
Balance(v) == IF v = fsi.root THEN 2 ELSE IF v \in old THEN 1 ELSE 0

\* What the counts are made of, the leaked references of old roots included
AllCounts ==
    \A v \in Vnode : vp[v].used =>
        vp[v].count = refs[v] + Cardinality(Children(v)) + Balance(v)

\* The counts are exact, and nothing leads to a vnode that is not there.
RefsInv ==
    /\ AllCounts
    /\ \A v \in Vnode : ~vp[v].used =>
         vp[v] = Unused /\ refs[v] = 0 /\ v # fsi.root /\ v \notin old
    /\ \A v \in Vnode : vp[v].used /\ vp[v].parent # NoVnode => vp[vp[v].parent].used
    /\ fsi.root \notin old
    /\ \A v \in Vnode : vp[v].used => (vp[v].parent = NoVnode <=> v = fsi.root \/ v \in old)

\* A vnode without references is being torn down, by one thread.
DyingInv ==
    /\ \A t \in Thread : Dying(t) => op[t].v \in Vnode /\ vp[op[t].v].used /\ vp[op[t].v].count = 0
    /\ \A t, u \in Thread : Dying(t) /\ Dying(u) /\ op[t].v = op[u].v => t = u
    /\ \A v \in Vnode : vp[v].used /\ vp[v].count = 0 => \E t \in Thread : Dying(t) /\ op[t].v = v

\* Directories lie above what is in them.
Ranks(fw, r) ==
    \A v \in Vnode : fw[v].used /\ fw[v].parent # NoVnode => r[v] < r[fw[v].parent]

RankInv == \E r \in [Vnode -> Nat] : Ranks(vp, r)

\* Metadata is written before a vnode goes, or that has been tried.
CleanInv ==
    \A t \in Thread : op[t].pc = "delete" => ~vp[op[t].v].dirty \/ op[t].v \in failed

\* With no mount there is nothing but roots of earlier mounts.
GoneInv ==
    fsi.state # "live" => \A v \in Vnode : refs[v] = 0 /\ (v \notin old => ~vp[v].used)

Inv ==
    /\ TypeOK /\ MountInv /\ RefsInv /\ DyingInv /\ RankInv /\ CleanInv
    /\ ~UnmountBusy => GoneInv

----------------------------------------------------------------------------
(* Facts about the invariant *)

\* The vnodes below a vnode can be counted.
LEMMA BelowFinite ==
    ASSUME NEW fw, NEW v
    PROVE  /\ IsFiniteSet(Below(fw, v)) /\ Cardinality(Below(fw, v)) \in Nat
           /\ Cardinality(Below(fw, v)) = 0 <=> Below(fw, v) = {}
<1>1. IsFiniteSet(Below(fw, v))
  <2>1. Below(fw, v) \subseteq Vnode
      BY DEF Below
  <2> QED BY <2>1, MountAssumption, FS_Subset DEF MountAssumption
<1> QED BY <1>1, FS_CardinalityType, FS_EmptySet

\* The state, with its types
LEMMA Types ==
    ASSUME Inv
    PROVE  /\ vp \in [Vnode -> VnodeRec] /\ refs \in [Vnode -> Nat] /\ old \subseteq Vnode
           /\ op \in OpType
           /\ failed \subseteq Vnode
           /\ fsi.root \in Vnode \cup {NoVnode} /\ NoVnode \notin Vnode
           /\ fsi.state = "live" <=> fsi.root \in Vnode
           /\ \A v \in Vnode : /\ vp[v] \in VnodeRec /\ vp[v].count \in Nat
                               /\ vp[v].parent \in Vnode \cup {NoVnode}
                               /\ refs[v] \in Nat /\ Balance(v) \in Nat
                               /\ Children(v) = Below(vp, v)
<1>1. /\ vp \in [Vnode -> VnodeRec] /\ refs \in [Vnode -> Nat] /\ old \subseteq Vnode
      /\ op \in OpType
      /\ failed \subseteq Vnode
      /\ fsi.root \in Vnode \cup {NoVnode} /\ NoVnode \notin Vnode
    BY MountAssumption DEF Inv, TypeOK, VnodeRec, OpType, MountAssumption
<1>2. fsi.state = "live" <=> fsi.root \in Vnode
    BY <1>1 DEF Inv, MountInv, FsiInv, FsiOf, NoFsi, MadeFsi
<1>3. \A v \in Vnode : /\ vp[v] \in VnodeRec /\ vp[v].count \in Nat
                       /\ vp[v].parent \in Vnode \cup {NoVnode}
                       /\ refs[v] \in Nat /\ Balance(v) \in Nat
                       /\ Children(v) = Below(vp, v)
    BY <1>1 DEF VnodeRec, Balance, Children, Below
<1> QED BY <1>1, <1>2, <1>3

\* Where there is a reference there is a vnode that is not being torn down.
LEMMA Referred ==
    ASSUME Inv, NEW v \in Vnode, refs[v] > 0 \/ Children(v) # {} \/ v = fsi.root \/ v \in old
    PROVE  vp[v].used /\ vp[v].count > 0 /\ \A t \in Thread : Dying(t) => op[t].v # v
<1>1. vp[v].used
  <2>1. Children(v) # {} => vp[v].used
      BY Types DEF Children, Inv, RefsInv
  <2> QED BY <2>1, Types DEF Inv, RefsInv
<1>2. vp[v].count = refs[v] + Cardinality(Children(v)) + Balance(v)
    BY <1>1 DEF Inv, RefsInv, AllCounts
<1>3. /\ Cardinality(Children(v)) \in Nat
      /\ Children(v) # {} => Cardinality(Children(v)) > 0
    BY Types, BelowFinite
<1>4. v = fsi.root \/ v \in old => Balance(v) > 0
    BY DEF Balance
<1>5. vp[v].count > 0
    BY <1>2, <1>3, <1>4, Types
<1> QED BY <1>1, <1>5 DEF Inv, DyingInv

----------------------------------------------------------------------------
(* What changes of references do to the invariant *)

\* What the vnodes, counts and threads have to do with each other
VnodeInv == vp \in [Vnode -> VnodeRec] /\ RefsInv /\ DyingInv /\ RankInv

\* Only fv_flags of vnodes change, or nothing does.
LEMMA DirtyKeeps ==
    ASSUME Inv, vp' \in [Vnode -> VnodeRec], UNCHANGED refs,
           \A v \in Vnode : /\ vp'[v].used = vp[v].used /\ vp'[v].count = vp[v].count
                            /\ vp'[v].parent = vp[v].parent
                            /\ ~vp[v].used => vp'[v] = vp[v],
           fsi'.root = fsi.root, old' = old,
           \A t \in Thread : (Dying(t)' <=> Dying(t)) /\ (Dying(t) => op'[t].v = op[t].v)
    PROVE  VnodeInv'
<1>1. \A v \in Vnode : Children(v)' = Children(v) /\ Balance(v)' = Balance(v)
    BY DEF Children, Balance
<1>2. RefsInv'
    BY <1>1, Types DEF Inv, RefsInv, AllCounts
<1>3. DyingInv'
    BY Types DEF Inv, DyingInv
<1>4. RankInv'
    BY DEF Inv, RankInv, Ranks
<1> QED BY <1>2, <1>3, <1>4 DEF VnodeInv

\* A process gains a reference to a vnode that is referred to (VN_HOLD).
LEMMA HoldKeeps ==
    ASSUME Inv, NEW v \in Vnode, vp[v].used, vp[v].count > 0, vp' = Held(vp, v),
           refs' = [refs EXCEPT ![v] = @ + 1], UNCHANGED <<fsi, op, old>>
    PROVE  VnodeInv'
<1>0. \A u \in Vnode : /\ vp'[u] \in VnodeRec
                       /\ vp'[u].used = vp[u].used /\ vp'[u].parent = vp[u].parent
                       /\ vp'[u].count = IF u = v THEN vp[u].count + 1 ELSE vp[u].count
                       /\ u # v => vp'[u] = vp[u]
                       /\ refs'[u] = IF u = v THEN refs[u] + 1 ELSE refs[u]
    BY Types DEF Held, VnodeRec
<1>1. vp' \in [Vnode -> VnodeRec]
    BY <1>0, Types DEF Held
<1>2. \A u \in Vnode : Children(u)' = Children(u) /\ Balance(u)' = Balance(u)
    BY <1>0 DEF Children, Balance
<1>3. \A u \in Vnode : Cardinality(Children(u)) \in Nat
    BY Types, BelowFinite
<1>4. AllCounts'
    BY <1>0, <1>2, <1>3, Types DEF Inv, RefsInv, AllCounts
<1>5. RefsInv'
    BY <1>0, <1>4, Types DEF Inv, RefsInv
<1>6. DyingInv'
    BY <1>0, Types DEF Inv, DyingInv, Dying
<1>7. RankInv'
    BY <1>0 DEF Inv, RankInv, Ranks
<1> QED BY <1>1, <1>5, <1>6, <1>7 DEF VnodeInv

\* fat32_make_vnode: a new vnode w below v, with one reference of a process
LEMMA MakeKeeps ==
    ASSUME Inv, NEW v \in Vnode, vp[v].used, vp[v].count > 0, NEW w \in Spare, vp' = Made(w, v),
           refs' = [refs EXCEPT ![w] = @ + 1], UNCHANGED <<fsi, op, old>>
    PROVE  VnodeInv'
<1>0. w \in Vnode /\ ~vp[w].used /\ w # v /\ vp[w] = Unused /\ refs[w] = 0
      /\ w # fsi.root /\ w \notin old
    BY Types DEF Spare, Inv, RefsInv
<1>1. \A u \in Vnode : /\ u # w => /\ vp'[u].used = vp[u].used /\ vp'[u].parent = vp[u].parent
                                   /\ vp'[u].count = IF u = v THEN vp[u].count + 1 ELSE vp[u].count
                                   /\ refs'[u] = refs[u]
                       /\ u \notin {v, w} => vp'[u] = vp[u]
                       /\ vp'[u] \in VnodeRec
  <2>1. vp'[w] = [used |-> TRUE, count |-> 1, parent |-> v, dirty |-> FALSE]
      BY <1>0 DEF Made
  <2>2. vp'[v] = [vp[v] EXCEPT !.count = @ + 1]
      BY <1>0 DEF Made
  <2>3. \A u \in Vnode \ {v, w} : vp'[u] = vp[u]
      BY DEF Made
  <2>4. \A u \in Vnode \ {w} : refs'[u] = refs[u]
      BY Types
  <2>5. /\ vp'[v].used = vp[v].used /\ vp'[v].parent = vp[v].parent
        /\ vp'[v].count = vp[v].count + 1 /\ vp'[v] \in VnodeRec
    <3> DEFINE n == vp[v].count + 1
    <3>1. n \in Nat /\ vp'[v] = [vp[v] EXCEPT !.count = n] /\ vp[v] \in VnodeRec
        BY <2>2, Types
    <3>2. vp'[v].count = vp[v].count + 1
        BY <3>1 DEF VnodeRec
    <3> HIDE DEF n
    <3> QED BY <3>1, <3>2 DEF VnodeRec
  <2>6. vp'[w] \in VnodeRec
      BY <2>1 DEF VnodeRec
  <2> QED BY <1>0, <2>3, <2>4, <2>5, <2>6, Types
<1>2. vp'[w].used /\ vp'[w].parent = v /\ vp'[w].count = 1 /\ refs'[w] = 1
  <2>1. refs'[w] = 1
      BY <1>0, Types
  <2> QED BY <1>0, <2>1 DEF Made
<1>3. vp' \in [Vnode -> VnodeRec]
    BY <1>1 DEF Made
<1>4. \A u \in Vnode \ {v} : Children(u)' = Children(u)
    BY <1>0, <1>1, <1>2 DEF Children
<1>5. Children(v)' = Children(v) \cup {w} /\ w \notin Children(v)
    BY <1>0, <1>1, <1>2 DEF Children
<1>6. Children(w) = {} /\ Cardinality(Children(w)) = 0
  <2>1. Children(w) = {}
      BY <1>0, Types DEF Inv, RefsInv, Children
  <2> QED BY <2>1, FS_EmptySet
<1>7. \A u \in Vnode : Cardinality(Children(u)) \in Nat
    BY Types, BelowFinite
<1>8. Cardinality(Children(v)') = Cardinality(Children(v)) + 1
  <2>1. IsFiniteSet(Children(v))
      BY Types, BelowFinite
  <2> QED BY <1>5, <2>1, FS_AddElement
<1>9. \A u \in Vnode : Balance(u)' = Balance(u)
    BY DEF Balance
<1>10. Balance(w) = 0
    BY <1>0 DEF Balance
<1>11. ASSUME NEW u \in Vnode, vp'[u].used
       PROVE  vp'[u].count = refs'[u] + Cardinality(Children(u)') + Balance(u)'
  <2>1. CASE u = w
      BY <1>0, <1>2, <1>4, <1>6, <1>9, <1>10, <2>1
  <2>2. CASE u = v
    <3>1. vp[v].count = refs[v] + Cardinality(Children(v)) + Balance(v)
        BY DEF Inv, RefsInv, AllCounts
    <3> QED BY <1>0, <1>1, <1>7, <1>8, <1>9, <2>2, <3>1, Types
  <2>3. CASE u \notin {v, w}
    <3>1. vp[u].used
        BY <1>1, <1>11, <2>3
    <3>2. vp[u].count = refs[u] + Cardinality(Children(u)) + Balance(u)
        BY <3>1 DEF Inv, RefsInv, AllCounts
    <3> QED BY <1>1, <1>4, <1>9, <2>3, <3>2
  <2> QED BY <2>1, <2>2, <2>3
<1>12. AllCounts'
    BY <1>11 DEF AllCounts
<1>13. RefsInv'
    BY <1>0, <1>1, <1>2, <1>12, Types DEF Inv, RefsInv
<1>14. DyingInv'
    BY <1>0, <1>1, <1>2, Types DEF Inv, DyingInv, Dying
<1>15. RankInv'
  <2>1. PICK r \in [Vnode -> Nat] : Ranks(vp, r)
      BY DEF Inv, RankInv
  <2> DEFINE q == [u \in Vnode |-> IF u = w THEN 0 ELSE r[u] + 1]
  <2>2. q \in [Vnode -> Nat] /\ \A u \in Vnode : q[u] = IF u = w THEN 0 ELSE r[u] + 1
      OBVIOUS
  <2>3. ASSUME NEW u \in Vnode, vp'[u].used, vp'[u].parent # NoVnode PROVE q[u] < q[vp'[u].parent]
    <3>1. CASE u = w
        BY <1>0, <1>2, <2>2, <3>1
    <3>2. CASE u # w
      <4>1. vp[u].used /\ vp[u].parent \in Vnode /\ vp[u].parent # w /\ vp'[u].parent = vp[u].parent
          BY <1>1, <1>6, <2>3, <3>2, Types DEF Children
      <4>2. r[u] < r[vp[u].parent]
          BY <2>1, <2>3, <4>1 DEF Ranks
      <4> QED BY <2>2, <3>2, <4>1, <4>2
    <3> QED BY <3>1, <3>2
  <2> QED BY <2>2, <2>3 DEF RankInv, Ranks
<1> QED BY <1>3, <1>13, <1>14, <1>15 DEF VnodeInv

\* fat32_mount makes the root vnode, with two references.
LEMMA RootKeeps ==
    ASSUME Inv, NEW w \in Spare, vp' = Held(Made(w, NoVnode), w), fsi.root = NoVnode,
           fsi'.root = w, UNCHANGED <<refs, old>>,
           \A t \in Thread : (Dying(t)' <=> Dying(t)) /\ (Dying(t) => op'[t].v = op[t].v)
    PROVE  VnodeInv'
<1>0. /\ w \in Vnode /\ ~vp[w].used /\ vp[w] = Unused /\ refs[w] = 0 /\ w \notin old
      /\ NoVnode \notin Vnode
    BY Types DEF Spare, Inv, RefsInv
<1>1. vp'[w] = [used |-> TRUE, count |-> 2, parent |-> NoVnode, dirty |-> FALSE]
  <2> DEFINE one == [used |-> TRUE, count |-> 1, parent |-> NoVnode, dirty |-> FALSE]
             m == Made(w, NoVnode)
  <2>1. m[w] = one /\ w \in DOMAIN m
      BY <1>0 DEF Made
  <2> HIDE DEF m
  <2>2. vp'[w] = [m[w] EXCEPT !.count = m[w].count + 1]
      BY <2>1 DEF Held, m
  <2>3. m[w].count + 1 = 2
      BY <2>1
  <2>4. vp'[w] = [one EXCEPT !.count = 2]
      BY <2>1, <2>2, <2>3
  <2> QED BY <2>4
<1>2. \A u \in Vnode \ {w} : vp'[u] = vp[u]
    BY <1>0 DEF Held, Made
<1>3. vp' \in [Vnode -> VnodeRec]
  <2>1. vp'[w] \in VnodeRec
      BY <1>1 DEF VnodeRec
  <2> QED BY <1>2, <2>1, Types DEF Held, Made
<1>4. \A u \in Vnode : Children(u)' = Children(u)
    BY <1>0, <1>1, <1>2 DEF Children
<1>5. Cardinality(Children(w)) = 0
  <2>1. Children(w) = {}
      BY <1>0, Types DEF Inv, RefsInv, Children
  <2> QED BY <2>1, FS_EmptySet
<1>6. Balance(w)' = 2 /\ \A u \in Vnode \ {w} : Balance(u)' = Balance(u)
    BY <1>0 DEF Balance
<1>7. AllCounts'
  <2>1. ASSUME NEW u \in Vnode, vp'[u].used
        PROVE  vp'[u].count = refs'[u] + Cardinality(Children(u)') + Balance(u)'
    <3>1. CASE u = w
        BY <1>0, <1>1, <1>4, <1>5, <1>6, <3>1
    <3>2. CASE u # w
        BY <1>2, <1>4, <1>6, <2>1, <3>2 DEF Inv, RefsInv, AllCounts
    <3> QED BY <3>1, <3>2
  <2> QED BY <2>1 DEF AllCounts
<1>8. RefsInv'
    BY <1>0, <1>1, <1>2, <1>7, Types DEF Inv, RefsInv
<1>9. DyingInv'
    BY <1>0, <1>1, <1>2, Types DEF Inv, DyingInv
<1>10. RankInv'
    BY <1>1, <1>2 DEF Inv, RankInv, Ranks
<1> QED BY <1>3, <1>8, <1>9, <1>10 DEF VnodeInv

\* The vnodes fw, with one reference to v to be released by t (VN_RELE): the
\* invariant but for the count of v, and for what t was doing.
Releasing(t, fw, v) ==
    /\ fw \in [Vnode -> VnodeRec] /\ v \in Vnode /\ fw[v].used
    /\ \A u \in Vnode : fw[u].used =>
         fw[u].count = refs'[u] + Cardinality(Below(fw, u)) + Balance(u)'
                         + (IF u = v THEN 1 ELSE 0)
    /\ \A u \in Vnode : ~fw[u].used =>
         fw[u] = Unused /\ refs'[u] = 0 /\ u # fsi'.root /\ u \notin old'
    /\ \A u \in Vnode : fw[u].used /\ fw[u].parent # NoVnode => fw[fw[u].parent].used
    /\ fsi'.root \notin old'
    /\ \A u \in Vnode : fw[u].used => (fw[u].parent = NoVnode <=> u = fsi'.root \/ u \in old')
    /\ \A s \in Thread \ {t} : Dying(s) =>
         op[s].v \in Vnode /\ fw[op[s].v].used /\ fw[op[s].v].count = 0
    /\ \A u \in Vnode : fw[u].used /\ fw[u].count = 0 =>
         \E s \in Thread \ {t} : Dying(s) /\ op[s].v = u
    /\ \E r \in [Vnode -> Nat] : Ranks(fw, r)

\* VN_RELE brings the invariant back.
LEMMA ReleaseKeeps ==
    ASSUME Inv, NEW t \in Thread, NEW fw, NEW v, Releasing(t, fw, v), Release(t, fw, v),
           refs' \in [Vnode -> Nat]
    PROVE  /\ VnodeInv'
           /\ \A s \in Thread \ {t} : op'[s] = op[s]
           /\ op'[t].pc \in {"idle", "inactive"} /\ op'[t].v \in Vnode \cup {NoVnode}
           /\ op' \in OpType
<1>0. /\ fw \in [Vnode -> VnodeRec] /\ v \in Vnode /\ fw[v].used /\ fw[v] \in VnodeRec
      /\ fw[v].count \in Nat /\ NoVnode \notin Vnode
    BY Types DEF Releasing, VnodeRec
<1>1. /\ Cardinality(Below(fw, v)) \in Nat /\ refs'[v] \in Nat /\ Balance(v)' \in Nat
    BY <1>0, BelowFinite DEF Balance
<1>2. fw[v].count > 0
    BY <1>0, <1>1 DEF Releasing
<1>3. vp'[v] = [fw[v] EXCEPT !.count = @ - 1] /\ \A u \in Vnode \ {v} : vp'[u] = fw[u]
    BY <1>0 DEF Release
<1>4. /\ vp'[v] \in VnodeRec /\ vp'[v].count = fw[v].count - 1
      /\ vp'[v].used /\ vp'[v].parent = fw[v].parent
    BY <1>0, <1>2, <1>3 DEF VnodeRec
<1>5. vp' \in [Vnode -> VnodeRec]
    BY <1>0, <1>3, <1>4 DEF Release
<1>6. \A u \in Vnode : Children(u)' = Below(fw, u)
    BY <1>0, <1>3, <1>4 DEF Children, Below
<1>7. ASSUME NEW u \in Vnode, vp'[u].used
      PROVE  vp'[u].count = refs'[u] + Cardinality(Children(u)') + Balance(u)'
  <2>1. CASE u = v
      BY <1>0, <1>1, <1>4, <1>6, <2>1 DEF Releasing
  <2>2. CASE u # v
    <3>1. fw[u].count = refs'[u] + Cardinality(Below(fw, u)) + Balance(u)' + 0
        BY <1>3, <1>7, <2>2 DEF Releasing
    <3>2. Cardinality(Below(fw, u)) \in Nat /\ refs'[u] \in Nat /\ Balance(u)' \in Nat
        BY BelowFinite DEF Balance
    <3> QED BY <1>3, <1>6, <2>2, <3>1, <3>2
  <2> QED BY <2>1, <2>2
<1>8. AllCounts'
    BY <1>7 DEF AllCounts
<1>9. RefsInv'
  <2>1. ASSUME NEW u \in Vnode, ~vp'[u].used
        PROVE  vp'[u] = Unused /\ refs'[u] = 0 /\ u # fsi'.root /\ u \notin old'
      BY <1>3, <1>4, <2>1 DEF Releasing
  <2>2. ASSUME NEW u \in Vnode, vp'[u].used, vp'[u].parent # NoVnode PROVE vp'[vp'[u].parent].used
    <3>1. fw[u].used /\ vp'[u].parent = fw[u].parent /\ fw[u].parent \in Vnode \cup {NoVnode}
        BY <1>0, <1>3, <1>4, <2>2 DEF VnodeRec
    <3>2. fw[fw[u].parent].used
        BY <2>2, <3>1 DEF Releasing
    <3> QED BY <1>3, <1>4, <2>2, <3>1, <3>2
  <2>3. /\ fsi'.root \notin old'
        /\ \A u \in Vnode : vp'[u].used => (vp'[u].parent = NoVnode <=> u = fsi'.root \/ u \in old')
    <3>1. \A u \in Vnode : vp'[u].used = fw[u].used /\ vp'[u].parent = fw[u].parent
        BY <1>0, <1>3, <1>4
    <3> QED BY <3>1 DEF Releasing
  <2> QED BY <1>8, <2>1, <2>2, <2>3 DEF RefsInv
<1>10. /\ op' \in OpType
       /\ \A s \in Thread \ {t} : op'[s] = op[s]
       /\ op'[t] = IF fw[v].count = 1 THEN [pc |-> "inactive", v |-> v]
                   ELSE [pc |-> "idle", v |-> NoVnode]
    BY <1>0, Types DEF Release, Go, OpType
<1>11. DyingInv'
  <2>1. ASSUME NEW s \in Thread, Dying(s)'
        PROVE  /\ op'[s].v \in Vnode /\ vp'[op'[s].v].used /\ vp'[op'[s].v].count = 0
               /\ s # t => Dying(s) /\ op[s].v # v /\ op'[s].v = op[s].v
               /\ s = t => fw[v].count = 1 /\ op'[s].v = v
    <3>1. CASE s = t
        BY <1>0, <1>4, <1>10, <2>1, <3>1 DEF Dying
    <3>2. CASE s # t
      <4>1. Dying(s) /\ op'[s].v = op[s].v
          BY <1>10, <2>1, <3>2 DEF Dying
      <4>2. op[s].v \in Vnode /\ fw[op[s].v].used /\ fw[op[s].v].count = 0
          BY <3>2, <4>1 DEF Releasing
      <4> QED BY <1>2, <1>3, <3>2, <4>1, <4>2
    <3> QED BY <3>1, <3>2
  <2>2. ASSUME NEW s \in Thread, NEW u \in Thread, Dying(s)', Dying(u)', op'[s].v = op'[u].v
        PROVE  s = u
      BY <2>1, <2>2 DEF Inv, DyingInv
  <2>3. ASSUME NEW u \in Vnode, vp'[u].used, vp'[u].count = 0
        PROVE  \E s \in Thread : Dying(s)' /\ op'[s].v = u
    <3>1. CASE u = v
      <4>1. fw[v].count = 1
          BY <1>0, <1>4, <2>3, <3>1
      <4>2. op'[t].pc = "inactive" /\ op'[t].v = v
          BY <1>10, <4>1
      <4> QED BY <3>1, <4>2 DEF Dying
    <3>2. CASE u # v
      <4>1. PICK s \in Thread \ {t} : Dying(s) /\ op[s].v = u
          BY <1>3, <2>3, <3>2 DEF Releasing
      <4> QED BY <1>10, <4>1 DEF Dying
    <3> QED BY <3>1, <3>2
  <2> QED BY <2>1, <2>2, <2>3 DEF DyingInv
<1>12. RankInv'
  <2>1. PICK r \in [Vnode -> Nat] : Ranks(fw, r)
      BY DEF Releasing
  <2>2. \A u \in Vnode : vp'[u].used = fw[u].used /\ vp'[u].parent = fw[u].parent
      BY <1>0, <1>3, <1>4
  <2>3. Ranks(vp', r)
      BY <2>1, <2>2 DEF Ranks
  <2> QED BY <2>3 DEF RankInv, Ranks
<1> QED BY <1>0, <1>5, <1>9, <1>10, <1>11, <1>12 DEF VnodeInv

----------------------------------------------------------------------------
(* Steps *)

\* A step that neither mounts nor unmounts
LEMMA MountKept ==
    ASSUME Inv, UNCHANGED <<fsi, device>>,
           \A t \in Thread : op'[t].pc = op[t].pc \/ {op[t].pc, op'[t].pc} \cap {"device", "boot", "root"} = {}
    PROVE  MountInv'
<1>1. \A t \in Thread : /\ op'[t].pc = "device" <=> op[t].pc = "device"
                        /\ op'[t].pc = "boot" <=> op[t].pc = "boot"
                        /\ op'[t].pc = "root" <=> op[t].pc = "root"
    OBVIOUS
<1> QED BY <1>1 DEF Inv, MountInv, FsiInv, DeviceHeldByMount, Mounting

\* The parts of the invariant together
LEMMA Together ==
    ASSUME Inv, VnodeInv', MountInv', CleanInv', ~UnmountBusy => GoneInv',
           device' \in 0 .. 2, refs' \in [Vnode -> Nat], failed' \subseteq Vnode, old' \subseteq Vnode,
           op' \in OpType
    PROVE  Inv'
<1>1. fsi'.state \in {"none", "made", "mounting", "live"} /\ fsi'.root \in Vnode \cup {NoVnode}
    BY DEF MountInv, FsiInv, NoFsi, MadeFsi, FsiOf
<1>2. TypeOK'
    BY <1>1 DEF TypeOK, VnodeInv, VnodeRec, OpType
<1> QED BY <1>2 DEF Inv, VnodeInv

\* t does something else.
LEMMA OpStep ==
    ASSUME Inv, NEW t \in Thread, NEW p \in {"idle", "device", "boot", "root", "inactive", "delete"},
           NEW v \in Vnode \cup {NoVnode}, Go(t, p, v)
    PROVE  /\ op' \in OpType
           /\ \A s \in Thread \ {t} : op'[s] = op[s]
           /\ op'[t].pc = p /\ op'[t].v = v
    BY Types DEF Go, OpType

\* A step of fat32_mount that leaves the vnodes alone
LEMMA MountStepKeeps ==
    ASSUME Inv, NEW t \in Thread, NEW p \in {"idle", "device", "boot", "root"}, Go(t, p, NoVnode),
           op[t].pc \in {"idle", "device", "boot", "root"},
           UNCHANGED <<vp, refs, failed, old>>, fsi'.root = fsi.root,
           fsi'.state = fsi.state \/ fsi.state # "live", device' \in 0 .. 2, MountInv'
    PROVE  Inv'
<1>1. /\ op' \in OpType /\ \A s \in Thread \ {t} : op'[s] = op[s]
      /\ op'[t].pc = p
    BY OpStep
<1>2. VnodeInv'
    BY <1>1, DirtyKeeps, Types DEF Dying
<1>3. CleanInv'
    BY <1>1 DEF Inv, CleanInv
<1>4. ~UnmountBusy => GoneInv'
    BY DEF Inv, GoneInv
<1> QED BY <1>1, <1>2, <1>3, <1>4, Together, Types

\* fat32_mount, from its start
LEMMA MountStartKeeps ==
    ASSUME Inv, NEW t \in Thread, MountStart(t)
    PROVE  Inv'
<1>1. /\ op[t].pc = "idle" /\ device' = device + 1 /\ Go(t, "device", NoVnode)
      /\ \A u \in Thread : op[u].pc \notin {"device", "boot", "root"}
      /\ UNCHANGED <<fsi, vp, refs, failed, old>>
    BY DEF MountStart, Mounting
<1>2. /\ \A s \in Thread \ {t} : op'[s] = op[s]
      /\ op'[t].pc = "device"
    BY <1>1, OpStep
<1>3. /\ device = (IF fsi.state = "live" THEN 1 ELSE 0) + 0
      /\ device' = (IF fsi.state = "live" THEN 1 ELSE 0) + 1
    BY <1>1 DEF Inv, MountInv, DeviceHeldByMount, Mounting
<1>4. DeviceHeldByMount'
    BY <1>1, <1>2, <1>3 DEF Inv, MountInv, DeviceHeldByMount, Mounting
<1>5. MountInv'
    BY <1>1, <1>2, <1>4 DEF Inv, MountInv, FsiInv, Mounting
<1>6. device' \in 0 .. 2
    BY <1>3
<1> QED BY <1>1, <1>5, <1>6, MountStepKeeps

\* An error path of fat32_mount: it was the one thread in it, and all is as if
\* it had not begun.
LEMMA FailureKeeps ==
    ASSUME Inv, NEW t \in Thread, MountReturns(t), device' = device - 1,
           \/ op[t].pc = "device" /\ fsi' = fsi
           \/ op[t].pc \in {"boot", "root"} /\ fsi' = NoFsi
    PROVE  Inv'
<1>1. Go(t, "idle", NoVnode) /\ UNCHANGED <<vp, refs, failed, old>>
    BY DEF MountReturns
<1>2. /\ \A s \in Thread \ {t} : op'[s] = op[s]
      /\ op'[t].pc = "idle"
    BY <1>1, OpStep
<1>3. \A u \in Thread : op'[u].pc \notin {"device", "boot", "root"}
    BY <1>2 DEF Inv, MountInv, Mounting
<1>4. device = (IF fsi.state = "live" THEN 1 ELSE 0) + 1
    BY DEF Inv, MountInv, DeviceHeldByMount, Mounting
<1>5. CASE op[t].pc = "device" /\ fsi' = fsi
  <2>1. \A u \in Thread : op[u].pc \notin {"boot", "root"}
      BY <1>5 DEF Inv, MountInv, Mounting
  <2>2. device' = (IF fsi.state = "live" THEN 1 ELSE 0) + 0
      BY <1>4
  <2>3. DeviceHeldByMount'
      BY <1>3, <1>5, <2>1, <2>2 DEF Inv, MountInv, DeviceHeldByMount, Mounting
  <2>4. MountInv'
      BY <1>3, <1>5, <2>3 DEF Inv, MountInv, FsiInv, Mounting
  <2> QED BY <1>1, <1>5, <2>2, <2>4, MountStepKeeps
<1>6. CASE op[t].pc \in {"boot", "root"} /\ fsi' = NoFsi
  <2>1. fsi.state \in {"made", "mounting"} /\ fsi'.state = "none" /\ fsi'.root = NoVnode
      BY <1>6 DEF Inv, MountInv, MadeFsi, NoFsi
  <2>2. fsi.root = NoVnode
      BY <2>1, Types
  <2>3. device' = 0
      BY <1>4, <2>1
  <2>4. DeviceHeldByMount'
      BY <1>3, <2>1, <2>3 DEF DeviceHeldByMount, Mounting
  <2>5. MountInv'
      BY <1>3, <1>6, <2>4 DEF MountInv, FsiInv, Mounting
  <2>6. /\ device' \in 0 .. 2 /\ op[t].pc \in {"idle", "device", "boot", "root"}
        /\ fsi'.root = fsi.root /\ fsi.state # "live"
    <3>1. device' \in 0 .. 2
        BY ONLY <2>3
    <3>2. fsi.state # "live"
        BY <2>1
    <3> QED BY <1>6, <2>1, <2>2, <3>1, <3>2
  <2> QED BY <1>1, <2>5, <2>6, MountStepKeeps
<1> QED BY <1>5, <1>6

\* The structure is made, or fat32_read_boot fills it in.
LEMMA StructureKeeps ==
    ASSUME Inv, NEW t \in Thread, MountAlloc(t) \/ MountBoot(t)
    PROVE  Inv'
<1>1. PICK p \in {"boot", "root"} :
         /\ Go(t, p, NoVnode) /\ Mounting(t) /\ UNCHANGED <<device, vp, refs, failed, old>>
         /\ fsi.state \in {"none", "made"} /\ FsiInv'
         /\ fsi'.state = (IF p = "boot" THEN "made" ELSE "mounting") /\ fsi'.root = NoVnode
         /\ p = "boot" => fsi' = MadeFsi
  <2>1. CASE MountAlloc(t)
    <3>1. /\ Go(t, "boot", NoVnode) /\ UNCHANGED <<device, vp, refs, failed, old>>
          /\ op[t].pc = "device" /\ fsi = NoFsi /\ fsi' = MadeFsi
        BY <2>1 DEF MountAlloc
    <3>2. Mounting(t) /\ fsi.state = "none" /\ FsiInv' /\ fsi'.state = "made" /\ fsi'.root = NoVnode
        BY <3>1 DEF Mounting, NoFsi, MadeFsi, FsiInv
    <3> QED BY <3>1, <3>2
  <2>2. CASE MountBoot(t)
    <3>1. /\ Go(t, "root", NoVnode) /\ UNCHANGED <<device, vp, refs, failed, old>>
          /\ op[t].pc = "boot"
        BY <2>2 DEF MountBoot
    <3>2. PICK disk \in Disk, part \in Part : BootUsable(disk, part) /\ fsi' = NewFsi(disk, part)
        BY <2>2 DEF MountBoot
    <3>3. /\ fsi' = FsiOf(disk, part, "mounting", NoVnode)
          /\ fsi'.state = "mounting" /\ fsi'.root = NoVnode
        BY <3>2 DEF NewFsi, FsiOf
    <3>4. FsiInv'
        BY <3>2, <3>3 DEF FsiInv
    <3>5. Mounting(t) /\ fsi.state = "made"
        BY <3>1 DEF Mounting, Inv, MountInv, MadeFsi
    <3> QED BY <3>1, <3>3, <3>4, <3>5
  <2> QED BY <2>1, <2>2
<1>2. /\ \A s \in Thread \ {t} : op'[s] = op[s]
      /\ op'[t].pc = p
    BY <1>1, OpStep
<1>3. \A u \in Thread \ {t} : op'[u].pc \notin {"device", "boot", "root"}
    BY <1>1, <1>2 DEF Inv, MountInv, Mounting
<1>4. device' = 1
    BY <1>1 DEF Inv, MountInv, DeviceHeldByMount
<1>5. DeviceHeldByMount'
    BY <1>1, <1>2, <1>4 DEF DeviceHeldByMount, Mounting
<1>6. MountInv'
    BY <1>1, <1>2, <1>3, <1>5 DEF MountInv, Mounting
<1>7. fsi.root = NoVnode /\ fsi.state # "live"
    BY <1>1, Types
<1> QED BY <1>1, <1>4, <1>6, <1>7, MountStepKeeps DEF Mounting

\* The root vnode is made, and the mount has succeeded.
LEMMA MountRootKeeps ==
    ASSUME Inv, NEW t \in Thread, MountRoot(t)
    PROVE  Inv'
<1>2. ASSUME NEW w \in Spare, vp' = Held(Made(w, NoVnode), w),
             fsi' = [fsi EXCEPT !.state = "live", !.root = w], Go(t, "idle", NoVnode), UNCHANGED device
      PROVE  Inv'
  <2>0. op[t].pc = "root" /\ fsi.state = "mounting" /\ w \in Vnode /\ UNCHANGED <<refs, failed, old>>
      BY DEF MountRoot, Inv, MountInv, Spare
  <2>1. /\ op' \in OpType
        /\ \A s \in Thread \ {t} : op'[s] = op[s]
        /\ op'[t].pc = "idle"
      BY <1>2, OpStep
  <2>2. PICK disk \in Disk, part \in Part :
            BootUsable(disk, part) /\ fsi = FsiOf(disk, part, "mounting", NoVnode)
      BY <2>0 DEF Inv, MountInv, FsiInv, NoFsi, MadeFsi, FsiOf
  <2>3. /\ fsi' = FsiOf(disk, part, "live", w) /\ fsi.root = NoVnode
        /\ fsi'.state = "live" /\ fsi'.root = w
      BY <1>2, <2>2 DEF FsiOf
  <2>4. FsiInv'
      BY <2>0, <2>2, <2>3 DEF FsiInv
  <2>5. \A u \in Thread : op'[u].pc \notin {"device", "boot", "root"}
      BY <2>0, <2>1 DEF Inv, MountInv, Mounting
  <2>6. device' = 1
      BY <1>2, <2>0 DEF Inv, MountInv, DeviceHeldByMount, Mounting
  <2>7. DeviceHeldByMount'
      BY <2>3, <2>5, <2>6 DEF DeviceHeldByMount, Mounting
  <2>8. MountInv'
      BY <2>4, <2>5, <2>7 DEF MountInv, Mounting
  <2>9. VnodeInv'
      BY <1>2, <2>0, <2>1, <2>3, RootKeeps DEF Dying
  <2>10. \A v \in Vnode \ {w} : vp'[v] = vp[v]
      BY <1>2, Types DEF Held, Made
  <2>11. ASSUME NEW s \in Thread, op'[s].pc = "delete"
         PROVE  ~vp'[op'[s].v].dirty \/ op'[s].v \in failed'
    <3>1. op[s].pc = "delete" /\ op'[s].v = op[s].v
        BY <2>1, <2>11
    <3>2. op[s].v \in Vnode /\ vp[op[s].v].used
        BY <3>1 DEF Inv, DyingInv, Dying
    <3> QED BY <2>0, <2>10, <3>1, <3>2 DEF Inv, CleanInv, Spare
  <2>12. CleanInv' /\ (~UnmountBusy => GoneInv')
      BY <2>3, <2>11 DEF CleanInv, GoneInv
  <2> QED BY <2>0, <2>1, <2>6, <2>8, <2>9, <2>12, Together, Types
<1> QED BY <1>2 DEF MountRoot

\* With no thread at work and no reference of a process there is no vnode but
\* the roots: the lowest of the others would need one below it.
LEMMA OnlyRootsLeft ==
    ASSUME Inv, Quiet, NEW t \in Thread, op[t].pc = "idle", NEW v \in Vnode, v # fsi.root, v \notin old
    PROVE  ~vp[v].used
<1> DEFINE S == {u \in Vnode : vp[u].used /\ u # fsi.root /\ u \notin old}
<1> SUFFICES ASSUME S # {} PROVE FALSE
    OBVIOUS
<1>1. PICK r \in [Vnode -> Nat] : Ranks(vp, r)
    BY DEF Inv, RankInv
<1>2. PICK n \in {r[u] : u \in S} : \A m \in {r[u] : u \in S} : n <= m
  <2>1. {r[u] : u \in S} \subseteq Nat /\ {r[u] : u \in S} # {}
      OBVIOUS
  <2> QED BY <2>1, LeastNat
<1>3. PICK u \in S : r[u] = n
    BY <1>2
<1>4. u \in Vnode /\ vp[u].used /\ u # fsi.root /\ u \notin old /\ refs[u] = 0
    BY <1>3 DEF Quiet
<1>5. vp[u].count = 0 + Cardinality(Children(u)) + 0
    BY <1>4 DEF Inv, RefsInv, AllCounts, Balance
<1>6. vp[u].count # 0
    BY <1>4 DEF Inv, DyingInv, Dying, Quiet
<1>7. Children(u) # {}
    BY <1>5, <1>6, FS_EmptySet
<1>8. PICK w \in Vnode : vp[w].used /\ vp[w].parent = u
    BY <1>7 DEF Children
<1>9. w # fsi.root /\ w \notin old
  <2>1. w = fsi.root \/ w \in old => vp[w].parent = NoVnode
      BY DEF Inv, RefsInv
  <2> QED BY <1>4, <1>8, <2>1, Types
<1>10. r[w] < r[u]
    BY <1>1, <1>4, <1>8, Types DEF Ranks
<1>11. r[u] <= r[w]
    BY <1>2, <1>3, <1>8, <1>9
<1> QED BY <1>1, <1>4, <1>8, <1>10, <1>11

\* fat32_unmount releases one of the two references to the root.
LEMMA UnmountKeeps ==
    ASSUME Inv, NEW t \in Thread, Unmount(t)
    PROVE  Inv'
<1> DEFINE root == fsi.root
<1>1. /\ fsi.state = "live" /\ op[t].pc = "idle" /\ (UnmountBusy \/ Quiet) /\ failed' = failed
      /\ Release(t, vp, root) /\ device' = device - 1 /\ old' = old \cup {root} /\ fsi' = NoFsi
      /\ refs' = refs
    BY DEF Unmount
<1>2. /\ root \in Vnode /\ vp[root].used /\ root \notin old
      /\ fsi'.root = NoVnode /\ fsi'.state = "none" /\ NoVnode \notin Vnode
    BY <1>1, Types, Referred DEF NoFsi, Inv, RefsInv
<1>3. Releasing(t, vp, root)
  <2>1. ASSUME NEW u \in Vnode, vp[u].used
        PROVE  vp[u].count = refs'[u] + Cardinality(Below(vp, u)) + Balance(u)'
                               + (IF u = root THEN 1 ELSE 0)
    <3>1. vp[u].count = refs[u] + Cardinality(Below(vp, u)) + Balance(u)
        BY <2>1, Types DEF Inv, RefsInv, AllCounts
    <3>2. Cardinality(Below(vp, u)) \in Nat /\ refs[u] \in Nat
        BY BelowFinite, Types
    <3>3. Balance(u) = Balance(u)' + (IF u = root THEN 1 ELSE 0) /\ Balance(u)' \in Nat
        BY <1>1, <1>2 DEF Balance
    <3> QED BY <1>1, <3>1, <3>2, <3>3
  <2>2. \A u \in Vnode : ~vp[u].used =>
            vp[u] = Unused /\ refs'[u] = 0 /\ u # fsi'.root /\ u \notin old'
      BY <1>1, <1>2 DEF Inv, RefsInv
  <2>3. \A s \in Thread \ {t} : Dying(s) =>
            op[s].v \in Vnode /\ vp[op[s].v].used /\ vp[op[s].v].count = 0
      BY DEF Inv, DyingInv
  <2>4. \A u \in Vnode : vp[u].used /\ vp[u].count = 0 =>
            \E s \in Thread \ {t} : Dying(s) /\ op[s].v = u
      BY <1>1 DEF Inv, DyingInv, Dying
  <2>5. /\ \A u \in Vnode : vp[u].used /\ vp[u].parent # NoVnode => vp[vp[u].parent].used
        /\ fsi'.root \notin old'
        /\ \A u \in Vnode : vp[u].used => (vp[u].parent = NoVnode <=> u = fsi'.root \/ u \in old')
      BY <1>1, <1>2, Types DEF Inv, RefsInv
  <2> QED BY <1>2, <2>1, <2>2, <2>3, <2>4, <2>5, Types DEF Releasing, Inv, RankInv
<1>4. refs' \in [Vnode -> Nat]
    BY <1>1, Types
<1>5. /\ VnodeInv' /\ \A s \in Thread \ {t} : op'[s] = op[s]
      /\ op'[t].pc \in {"idle", "inactive"}
      /\ op' \in OpType
    BY <1>1, <1>3, <1>4, ReleaseKeeps
<1>6. \A u \in Thread : Mounting(u)' <=> Mounting(u)
    BY <1>1, <1>5 DEF Mounting
<1>7. \A u \in Thread : op'[u].pc \notin {"boot", "root"}
  <2>1. \A u \in Thread : op[u].pc \notin {"boot", "root"}
      BY <1>1 DEF Inv, MountInv, DeviceHeldByMount
  <2> QED BY <1>5, <2>1
<1>8. DeviceHeldByMount' /\ device' \in 0 .. 2
  <2> DEFINE m == IF \E u \in Thread : Mounting(u) THEN 1 ELSE 0
  <2>1. device = 1 + m /\ m \in 0 .. 1
      BY <1>1 DEF Inv, MountInv, DeviceHeldByMount
  <2>2. m' = m
      BY <1>6
  <2> HIDE DEF m
  <2>3. device' = 0 + m' /\ device' \in 0 .. 2
      BY <1>1, <2>1, <2>2
  <2> QED BY <1>2, <1>7, <2>3 DEF DeviceHeldByMount, m
<1>9. MountInv'
    BY <1>1, <1>6, <1>7, <1>8 DEF Inv, MountInv, FsiInv
<1>10. \A v \in Vnode : vp'[v].dirty = vp[v].dirty /\ vp'[v].used = vp[v].used
    BY <1>1, <1>2, Types DEF Release, VnodeRec
<1>11. CleanInv'
  <2>1. ASSUME NEW s \in Thread, op'[s].pc = "delete"
        PROVE  ~vp'[op'[s].v].dirty \/ op'[s].v \in failed'
    <3>1. op[s].pc = "delete" /\ op'[s].v = op[s].v
        BY <1>5, <2>1
    <3>2. op[s].v \in Vnode /\ (~vp[op[s].v].dirty \/ op[s].v \in failed)
        BY <3>1 DEF Inv, DyingInv, Dying, CleanInv
    <3> QED BY <1>1, <1>10, <3>1, <3>2
  <2> QED BY <2>1 DEF CleanInv
<1>12. ~UnmountBusy => GoneInv'
  <2> SUFFICES ASSUME ~UnmountBusy PROVE GoneInv'
      OBVIOUS
  <2>1. Quiet
      BY <1>1
  <2>2. ASSUME NEW v \in Vnode PROVE refs'[v] = 0 /\ (v \notin old' => ~vp'[v].used)
      BY <1>1, <1>10, <2>1, OnlyRootsLeft DEF Quiet
  <2> QED BY <1>1, <2>2 DEF GoneInv
<1>13. old' \subseteq Vnode
    BY <1>1, <1>2, Types
<1>14. failed' \subseteq Vnode
    BY <1>1, Types
<1> QED BY <1>4, <1>5, <1>8, <1>9, <1>11, <1>12, <1>13, <1>14, Together

\* A process in a call, or fat32_root, gains a reference, to a vnode that is
\* there or to a new one.
LEMMA GainKeeps ==
    ASSUME Inv, fsi.state = "live" \/ \E x \in Vnode : refs[x] > 0,
           VnodeInv', refs' \in [Vnode -> Nat],
           \A v \in Vnode : vp[v].used => vp'[v].dirty = vp[v].dirty,
           UNCHANGED <<fsi, device, op, failed, old>>
    PROVE  Inv'
<1>1. MountInv'
    BY MountKept
<1>2. CleanInv'
    BY DEF Inv, CleanInv, DyingInv, Dying
<1>3. ~UnmountBusy => GoneInv'
  <2>1. ~UnmountBusy => fsi.state = "live"
      BY Types DEF Inv, GoneInv
  <2> QED BY <2>1 DEF GoneInv
<1>4. device' \in 0 .. 2
    BY DEF Inv, TypeOK
<1> QED BY <1>1, <1>2, <1>3, <1>4, Together, Types

\* fat32_root, and fat32_lookup of ".", ".." and of a name
LEMMA LookupKeeps ==
    ASSUME Inv, NEW t \in Thread,
           \/ Root(t)
           \/ \E v \in Vnode : Lookup(t, v) \/ LookupDot(t, v) \/ LookupDotDot(t, v)
    PROVE  Inv'
<1>1. ASSUME NEW v \in Vnode, refs' = [refs EXCEPT ![v] = @ + 1] PROVE refs' \in [Vnode -> Nat]
    BY <1>1, Types
<1>2. ASSUME NEW v \in Vnode, refs[v] > 0 \/ Children(v) # {} \/ v = fsi.root,
             fsi.state = "live" \/ \E x \in Vnode : refs[x] > 0,
             vp' = Held(vp, v), refs' = [refs EXCEPT ![v] = @ + 1],
             UNCHANGED <<fsi, device, op, failed, old>>
      PROVE  Inv'
  <2>1. vp[v].used /\ vp[v].count > 0
      BY <1>2, Referred
  <2>2. VnodeInv'
      BY <1>2, <2>1, HoldKeeps
  <2>3. \A u \in Vnode : vp'[u].dirty = vp[u].dirty
      BY <1>2, Types DEF Held, VnodeRec
  <2> QED BY <1>1, <1>2, <2>2, <2>3, GainKeeps
<1>3. CASE Root(t)
  <2>1. fsi.root \in Vnode
      BY <1>3, Types DEF Root
  <2> QED BY <1>2, <1>3, <2>1 DEF Root, Gains
<1>4. ASSUME NEW v \in Vnode, LookupDot(t, v) PROVE Inv'
    BY <1>2, <1>4 DEF LookupDot, Calls, Gains
<1>5. ASSUME NEW v \in Vnode, LookupDotDot(t, v) PROVE Inv'
  <2>1. vp[v].used
      BY <1>5, Referred DEF LookupDotDot, Calls
  <2>2. vp[v].parent \in Vnode /\ Children(vp[v].parent) # {}
      BY <1>5, <2>1, Types DEF LookupDotDot, Children
  <2> QED BY <1>2, <1>5, <2>2 DEF LookupDotDot, Calls, Gains
<1>6. ASSUME NEW v \in Vnode, Lookup(t, v) PROVE Inv'
  <2>1. PICK w \in Spare : vp' = Made(w, v) /\ refs' = [refs EXCEPT ![w] = @ + 1]
      BY <1>6 DEF Lookup, Gains
  <2>2. refs[v] > 0 /\ UNCHANGED <<fsi, device, op, failed, old>> /\ w \in Vnode /\ ~vp[w].used
      BY <1>6 DEF Lookup, Calls, Spare
  <2>3. vp[v].used /\ vp[v].count > 0
      BY <2>2, Referred
  <2>4. VnodeInv'
      BY <2>1, <2>2, <2>3, MakeKeeps
  <2>5. \A u \in Vnode : vp[u].used => vp'[u].dirty = vp[u].dirty
    <3>1. \A u \in Vnode \ {w} : vp'[u].dirty = vp[u].dirty
        BY <2>1, Types DEF Made, VnodeRec
    <3> QED BY <2>2, <3>1
  <2> QED BY <1>1, <2>1, <2>2, <2>4, <2>5, GainKeeps
<1> QED BY <1>3, <1>4, <1>5, <1>6

\* fat32_update_fdentry
LEMMA UpdateEntryFields ==
    ASSUME Inv, NEW v \in Vnode, vp[v].used, NEW ok \in BOOLEAN, UpdateEntry(v, ok)
    PROVE  /\ vp' \in [Vnode -> VnodeRec]
           /\ \A u \in Vnode : /\ vp'[u].used = vp[u].used /\ vp'[u].count = vp[u].count
                               /\ vp'[u].parent = vp[u].parent
                               /\ u # v => vp'[u] = vp[u]
           /\ \A u \in Vnode : ~vp[u].used => vp'[u] = vp[u]
           /\ ok => ~vp'[v].dirty
<1>1. CASE ok
  <2>1. vp' = [vp EXCEPT ![v].dirty = FALSE]
      BY <1>1 DEF UpdateEntry
  <2>2. \A u \in Vnode : /\ vp'[u].used = vp[u].used /\ vp'[u].count = vp[u].count
                         /\ vp'[u].parent = vp[u].parent
                         /\ u # v => vp'[u] = vp[u]
      BY <2>1, Types DEF VnodeRec
  <2>3. vp'[v].dirty = FALSE
      BY <2>1, Types DEF VnodeRec
  <2>4. vp' \in [Vnode -> VnodeRec]
      BY <2>1, Types DEF VnodeRec
  <2> QED BY <2>2, <2>3, <2>4
<1>2. CASE ~ok
  <2>1. vp' = vp
      BY <1>2 DEF UpdateEntry
  <2> QED BY <1>2, <2>1, Types
<1> QED BY <1>1, <1>2

\* A write, truncation or change in a directory; fat32_close and fat32_fsync
LEMMA ChangeKeeps ==
    ASSUME Inv, NEW t \in Thread, NEW v \in Vnode, Change(t, v) \/ Flush(t, v)
    PROVE  Inv'
<1>1. refs[v] > 0 /\ UNCHANGED <<fsi, device, refs, op, failed, old>>
    BY DEF Change, Flush, Calls
<1>2. vp[v].used /\ \A s \in Thread : Dying(s) => op[s].v # v
    BY <1>1, Referred
<1>3. /\ vp' \in [Vnode -> VnodeRec]
      /\ \A u \in Vnode : /\ vp'[u].used = vp[u].used /\ vp'[u].count = vp[u].count
                          /\ vp'[u].parent = vp[u].parent
                          /\ u # v => vp'[u].dirty = vp[u].dirty
      /\ \A u \in Vnode : ~vp[u].used => vp'[u] = vp[u]
  <2>1. CASE Change(t, v)
    <3>1. vp' = [vp EXCEPT ![v].dirty = TRUE]
        BY <2>1 DEF Change
    <3>2. \A u \in Vnode : /\ vp'[u].used = vp[u].used /\ vp'[u].count = vp[u].count
                           /\ vp'[u].parent = vp[u].parent
                           /\ u # v => vp'[u] = vp[u]
        BY <3>1, Types DEF VnodeRec
    <3>3. vp' \in [Vnode -> VnodeRec]
        BY <3>1, Types DEF VnodeRec
    <3> QED BY <1>2, <3>2, <3>3
  <2>2. CASE Flush(t, v)
    <3>1. PICK ok \in BOOLEAN : UpdateEntry(v, ok)
        BY <2>2 DEF Flush
    <3> QED BY <1>2, <3>1, UpdateEntryFields
  <2> QED BY <2>1, <2>2
<1>4. VnodeInv'
    BY <1>1, <1>3, DirtyKeeps DEF Dying
<1>5. MountInv'
    BY <1>1, MountKept
<1>6. CleanInv'
    BY <1>1, <1>2, <1>3 DEF Inv, CleanInv, DyingInv, Dying
<1>7. ~UnmountBusy => GoneInv'
  <2>1. ~UnmountBusy => fsi.state = "live"
      BY <1>1, Types DEF Inv, GoneInv
  <2> QED BY <1>1, <2>1 DEF GoneInv
<1>8. device' \in 0 .. 2
    BY <1>1 DEF Inv, TypeOK
<1> QED BY <1>1, <1>3, <1>4, <1>5, <1>6, <1>7, <1>8, Together, Types

\* A vnode that is torn down while no mount is there was not left by a quiet
\* unmount.
LEMMA DyingMeansLive ==
    ASSUME Inv, NEW t \in Thread, Dying(t), ~UnmountBusy
    PROVE  fsi.state = "live"
<1>1. op[t].v \in Vnode /\ vp[op[t].v].used /\ op[t].v \notin old
  <2>1. op[t].v \in Vnode /\ vp[op[t].v].used
      BY DEF Inv, DyingInv
  <2> QED BY <2>1, Referred
<1> QED BY <1>1 DEF Inv, GoneInv

\* fat32_inactive
LEMMA InactiveKeeps ==
    ASSUME Inv, NEW t \in Thread, Inactive(t)
    PROVE  Inv'
<1> DEFINE v == op[t].v
<1>0. PICK ok \in BOOLEAN :
        UpdateEntry(v, ok) /\ failed' = IF ok THEN failed ELSE failed \cup {v}
    BY DEF Inactive
<1>1. /\ op[t].pc = "inactive" /\ Go(t, "delete", v)
      /\ UNCHANGED <<fsi, device, refs, old>>
    BY DEF Inactive
<1>2. v \in Vnode /\ vp[v].used
    BY <1>1 DEF Inv, DyingInv, Dying
<1>3. /\ op' \in OpType
      /\ \A s \in Thread \ {t} : op'[s] = op[s]
      /\ op'[t].pc = "delete" /\ op'[t].v = v
    BY <1>1, <1>2, OpStep
<1>4. /\ vp' \in [Vnode -> VnodeRec] /\ failed' \subseteq Vnode /\ failed \subseteq failed'
      /\ \A u \in Vnode : /\ vp'[u].used = vp[u].used /\ vp'[u].count = vp[u].count
                          /\ vp'[u].parent = vp[u].parent
                          /\ u # v => vp'[u] = vp[u]
      /\ \A u \in Vnode : ~vp[u].used => vp'[u] = vp[u]
      /\ ~vp'[v].dirty \/ v \in failed'
    BY <1>0, <1>2, UpdateEntryFields, Types
<1>5. \A s \in Thread : (Dying(s)' <=> Dying(s)) /\ (Dying(s) => op'[s].v = op[s].v)
    BY <1>1, <1>3 DEF Dying
<1>6. VnodeInv'
    BY <1>1, <1>4, <1>5, DirtyKeeps
<1>7. MountInv'
  <2>1. \A s \in Thread : op'[s].pc = op[s].pc \/ {op[s].pc, op'[s].pc} \cap {"device", "boot", "root"} = {}
      BY <1>1, <1>3
  <2> QED BY <1>1, <2>1, MountKept
<1>8. CleanInv'
  <2>1. ASSUME NEW s \in Thread, op'[s].pc = "delete"
        PROVE  ~vp'[op'[s].v].dirty \/ op'[s].v \in failed'
    <3>1. CASE s = t
        BY <1>2, <1>3, <1>4, <3>1
    <3>2. CASE s # t
      <4>1. /\ op[s].pc = "delete" /\ op'[s].v = op[s].v /\ op[s].v \in Vnode
            /\ op[s].v # v
          BY <1>1, <1>3, <2>1, <3>2 DEF Inv, DyingInv, Dying
      <4>2. ~vp[op[s].v].dirty \/ op[s].v \in failed
          BY <4>1 DEF Inv, CleanInv
      <4> QED BY <1>4, <4>1, <4>2
    <3> QED BY <3>1, <3>2
  <2> QED BY <2>1 DEF CleanInv
<1>9. ~UnmountBusy => GoneInv'
    BY <1>1, DyingMeansLive DEF GoneInv, Dying
<1>10. device' \in 0 .. 2
    BY <1>1 DEF Inv, TypeOK
<1> QED BY <1>1, <1>3, <1>4, <1>6, <1>7, <1>8, <1>9, <1>10, Together, Types

\* VN_RELE by a process
LEMMA ReleKeeps ==
    ASSUME Inv, NEW t \in Thread, NEW v \in Vnode, Rele(t, v)
    PROVE  Inv'
<1>1. /\ op[t].pc = "idle" /\ refs[v] > 0 /\ refs' = [refs EXCEPT ![v] = @ - 1]
      /\ Release(t, vp, v) /\ UNCHANGED <<fsi, device, failed, old>>
    BY DEF Rele, Calls
<1>2. vp[v].used
    BY <1>1, Referred
<1>3. refs' \in [Vnode -> Nat] /\ \A u \in Vnode : refs[u] = refs'[u] + (IF u = v THEN 1 ELSE 0)
    BY <1>1, Types
<1>4. Releasing(t, vp, v)
  <2>1. ASSUME NEW u \in Vnode, vp[u].used
        PROVE  vp[u].count = refs'[u] + Cardinality(Below(vp, u)) + Balance(u)'
                               + (IF u = v THEN 1 ELSE 0)
    <3>1. vp[u].count = refs[u] + Cardinality(Below(vp, u)) + Balance(u)
        BY <2>1, Types DEF Inv, RefsInv, AllCounts
    <3>2. Cardinality(Below(vp, u)) \in Nat /\ refs'[u] \in Nat /\ Balance(u) \in Nat
        BY <1>3, BelowFinite, Types
    <3>3. Balance(u)' = Balance(u)
        BY <1>1 DEF Balance
    <3> QED BY <1>3, <3>1, <3>2, <3>3
  <2>2. \A u \in Vnode : ~vp[u].used =>
            vp[u] = Unused /\ refs'[u] = 0 /\ u # fsi'.root /\ u \notin old'
      BY <1>1, <1>2, <1>3 DEF Inv, RefsInv
  <2>3. \A s \in Thread \ {t} : Dying(s) =>
            op[s].v \in Vnode /\ vp[op[s].v].used /\ vp[op[s].v].count = 0
      BY DEF Inv, DyingInv
  <2>4. \A u \in Vnode : vp[u].used /\ vp[u].count = 0 =>
            \E s \in Thread \ {t} : Dying(s) /\ op[s].v = u
      BY <1>1 DEF Inv, DyingInv, Dying
  <2>5. /\ \A u \in Vnode : vp[u].used /\ vp[u].parent # NoVnode => vp[vp[u].parent].used
        /\ fsi'.root \notin old'
        /\ \A u \in Vnode : vp[u].used => (vp[u].parent = NoVnode <=> u = fsi'.root \/ u \in old')
      BY <1>1 DEF Inv, RefsInv
  <2> QED BY <1>2, <2>1, <2>2, <2>3, <2>4, <2>5, Types DEF Releasing, Inv, RankInv
<1>5. /\ VnodeInv' /\ \A s \in Thread \ {t} : op'[s] = op[s]
      /\ op'[t].pc \in {"idle", "inactive"}
      /\ op' \in OpType
    BY <1>1, <1>3, <1>4, ReleaseKeeps
<1>6. MountInv'
  <2>1. \A s \in Thread : op'[s].pc = op[s].pc \/ {op[s].pc, op'[s].pc} \cap {"device", "boot", "root"} = {}
      BY <1>1, <1>5
  <2> QED BY <1>1, <2>1, MountKept
<1>7. \A u \in Vnode : vp'[u].dirty = vp[u].dirty
    BY <1>1, Types DEF Release, VnodeRec
<1>8. CleanInv'
    BY <1>1, <1>5, <1>7 DEF Inv, CleanInv, DyingInv, Dying
<1>9. ~UnmountBusy => GoneInv'
  <2>1. ~UnmountBusy => fsi.state = "live"
      BY <1>1, Types DEF Inv, GoneInv
  <2> QED BY <1>1, <2>1 DEF GoneInv
<1>10. device' \in 0 .. 2
    BY <1>1 DEF Inv, TypeOK
<1> QED BY <1>1, <1>3, <1>5, <1>6, <1>8, <1>9, <1>10, Together, Types

\* fat32_vnode_delete: the vnode goes, and its directory is released.
LEMMA VnodeDeleteKeeps ==
    ASSUME Inv, NEW t \in Thread, VnodeDelete(t)
    PROVE  Inv'
<1> DEFINE v == op[t].v
           p == vp[v].parent
           gone == [vp EXCEPT ![v] = Unused]
<1>1. op[t].pc = "delete" /\ UNCHANGED <<fsi, device, refs, old>> /\ failed' = failed \ {v}
    BY DEF VnodeDelete
<1>2. v \in Vnode /\ vp[v].used /\ vp[v].count = 0
    BY <1>1 DEF Inv, DyingInv, Dying
<1>3. refs[v] = 0 /\ Children(v) = {} /\ v # fsi.root /\ v \notin old
    BY <1>1, <1>2, Referred, Types DEF Dying
<1>4. p \in Vnode /\ p # v /\ vp[p].used
  <2>1. p \in Vnode
      BY <1>2, <1>3, Types DEF Inv, RefsInv
  <2>2. v \in Children(p)
      BY <1>2 DEF Children
  <2> QED BY <1>3, <2>1, <2>2, Referred
<1>5. Release(t, gone, p)
    BY <1>4, Types DEF VnodeDelete
<1>6. gone[v] = Unused /\ \A u \in Vnode \ {v} : gone[u] = vp[u]
    BY <1>2, Types
<1>7. gone \in [Vnode -> VnodeRec] /\ ~gone[v].used
  <2>1. Unused \in VnodeRec /\ ~Unused.used
      BY DEF Unused, VnodeRec
  <2> QED BY <1>6, <2>1, Types
<1> HIDE DEF gone
<1>8. Below(gone, p) = Children(p) \ {v} /\ v \in Children(p)
    BY <1>2, <1>4, <1>6, <1>7 DEF Below, Children
<1>9. \A u \in Vnode \ {p} : Below(gone, u) = Children(u)
    BY <1>2, <1>6, <1>7 DEF Below, Children
<1>10. Cardinality(Children(p)) = Cardinality(Below(gone, p)) + 1
  <2>1. IsFiniteSet(Children(p)) /\ Cardinality(Children(p)) \in Nat
      BY <1>4, Types, BelowFinite
  <2>2. Cardinality(Children(p) \ {v}) = Cardinality(Children(p)) - 1
      BY <1>8, <2>1, FS_RemoveElement
  <2> QED BY <1>8, <2>1, <2>2
<1>11. Releasing(t, gone, p)
  <2>1. ASSUME NEW u \in Vnode, gone[u].used
        PROVE  gone[u].count = refs'[u] + Cardinality(Below(gone, u)) + Balance(u)'
                                 + (IF u = p THEN 1 ELSE 0)
    <3>1. u # v /\ gone[u] = vp[u]
        BY <1>6, <1>7, <2>1
    <3>2. vp[u].count = refs[u] + Cardinality(Children(u)) + Balance(u)
        BY <2>1, <3>1 DEF Inv, RefsInv, AllCounts
    <3>3. /\ Cardinality(Below(gone, u)) \in Nat /\ refs[u] \in Nat /\ Balance(u) \in Nat
          /\ refs'[u] = refs[u]
        BY <1>1, BelowFinite, Types
    <3>4. Balance(u)' = Balance(u)
        BY <1>1 DEF Balance
    <3>5. Cardinality(Children(u)) = Cardinality(Below(gone, u)) + (IF u = p THEN 1 ELSE 0)
        BY <1>9, <1>10, <3>3
    <3> QED BY <3>1, <3>2, <3>3, <3>4, <3>5
  <2>2. \A u \in Vnode : ~gone[u].used =>
            gone[u] = Unused /\ refs'[u] = 0 /\ u # fsi'.root /\ u \notin old'
      BY <1>1, <1>3, <1>6 DEF Inv, RefsInv
  <2>3. ASSUME NEW u \in Vnode, gone[u].used, gone[u].parent # NoVnode PROVE gone[gone[u].parent].used
    <3>1. u # v /\ gone[u] = vp[u] /\ vp[u].parent # v
        BY <1>3, <1>6, <1>7, <2>3 DEF Children
    <3> QED BY <1>6, <2>3, <3>1, Types DEF Inv, RefsInv
  <2>4. ASSUME NEW s \in Thread \ {t}, Dying(s)
        PROVE  op[s].v \in Vnode /\ gone[op[s].v].used /\ gone[op[s].v].count = 0
    <3>1. op[s].v \in Vnode /\ vp[op[s].v].used /\ vp[op[s].v].count = 0 /\ op[s].v # v
        BY <1>1, <2>4 DEF Inv, DyingInv, Dying
    <3> QED BY <1>6, <3>1
  <2>5. ASSUME NEW u \in Vnode, gone[u].used, gone[u].count = 0
        PROVE  \E s \in Thread \ {t} : Dying(s) /\ op[s].v = u
    <3>1. u # v /\ gone[u] = vp[u]
        BY <1>6, <1>7, <2>5
    <3> QED BY <2>5, <3>1 DEF Inv, DyingInv
  <2>6. /\ fsi'.root \notin old'
        /\ \A u \in Vnode : gone[u].used => (gone[u].parent = NoVnode <=> u = fsi'.root \/ u \in old')
      BY <1>1, <1>6, <1>7 DEF Inv, RefsInv
  <2>7. \E r \in [Vnode -> Nat] : Ranks(gone, r)
    <3>1. PICK r \in [Vnode -> Nat] : Ranks(vp, r)
        BY DEF Inv, RankInv
    <3>2. Ranks(gone, r)
        BY <1>6, <1>7, <3>1 DEF Ranks
    <3> QED BY <3>2
  <2>8. gone[p].used
      BY <1>4, <1>6
  <2> QED BY <1>4, <1>7, <2>1, <2>2, <2>3, <2>4, <2>5, <2>6, <2>7, <2>8 DEF Releasing
<1>12. refs' \in [Vnode -> Nat]
    BY <1>1, Types
<1>13. /\ VnodeInv' /\ \A s \in Thread \ {t} : op'[s] = op[s]
       /\ op'[t].pc \in {"idle", "inactive"}
       /\ op' \in OpType
    BY <1>5, <1>11, <1>12, ReleaseKeeps
<1>14. MountInv'
  <2>1. \A s \in Thread : op'[s].pc = op[s].pc \/ {op[s].pc, op'[s].pc} \cap {"device", "boot", "root"} = {}
      BY <1>1, <1>13
  <2> QED BY <1>1, <2>1, MountKept
<1>15. \A u \in Vnode \ {v} : vp'[u].dirty = vp[u].dirty
  <2>1. \A u \in Vnode : vp'[u].dirty = gone[u].dirty
      BY <1>4, <1>5, <1>7 DEF Release, VnodeRec
  <2> QED BY <1>6, <2>1
<1>16. CleanInv'
  <2>1. ASSUME NEW s \in Thread, op'[s].pc = "delete"
        PROVE  ~vp'[op'[s].v].dirty \/ op'[s].v \in failed'
    <3>1. s # t /\ op[s].pc = "delete" /\ op'[s].v = op[s].v
        BY <1>13, <2>1
    <3>2. op[s].v \in Vnode /\ op[s].v # v
        BY <1>1, <3>1 DEF Inv, DyingInv, Dying
    <3>3. ~vp[op[s].v].dirty \/ op[s].v \in failed
        BY <3>1 DEF Inv, CleanInv
    <3> QED BY <1>1, <1>15, <3>1, <3>2, <3>3
  <2> QED BY <2>1 DEF CleanInv
<1>17. ~UnmountBusy => GoneInv'
    BY <1>1, DyingMeansLive DEF GoneInv, Dying
<1>18. device' \in 0 .. 2
    BY <1>1 DEF Inv, TypeOK
<1> QED BY <1>1, <1>12, <1>13, <1>14, <1>16, <1>17, <1>18, Together, Types

----------------------------------------------------------------------------
(* The theorems *)

\* The invariant holds before the first mount.
LEMMA InitInv == Init => Inv
<1> SUFFICES ASSUME Init PROVE Inv
    OBVIOUS
<1>0. /\ fsi = NoFsi /\ device = 0 /\ vp = [v \in Vnode |-> Unused] /\ refs = [v \in Vnode |-> 0]
      /\ op = [t \in Thread |-> Idle] /\ failed = {} /\ old = {} /\ NoVnode \notin Vnode
    BY MountAssumption DEF Init, MountAssumption
<1>1. Unused \in VnodeRec /\ ~Unused.used
    BY DEF Unused, VnodeRec
<1>2. \A t \in Thread : op[t].pc = "idle"
    BY <1>0 DEF Idle
<1>3. vp \in [Vnode -> VnodeRec] /\ \A v \in Vnode : vp[v] = Unused /\ ~vp[v].used
    BY <1>0, <1>1
<1>4. op \in OpType
    BY <1>0 DEF Idle, OpType
<1>6. TypeOK
    BY <1>0, <1>3, <1>4 DEF TypeOK, VnodeRec, NoFsi, OpType
<1>7. MountInv
    BY <1>0, <1>2 DEF MountInv, FsiInv, DeviceHeldByMount, NoFsi, Mounting
<1>8. RefsInv
    BY <1>0, <1>3 DEF RefsInv, AllCounts, NoFsi
<1>9. DyingInv /\ CleanInv
    BY <1>2, <1>3 DEF DyingInv, Dying, CleanInv
<1>10. RankInv
  <2>1. [v \in Vnode |-> 0] \in [Vnode -> Nat] /\ Ranks(vp, [v \in Vnode |-> 0])
      BY <1>3 DEF Ranks
  <2> QED BY <2>1 DEF RankInv
<1>11. GoneInv
    BY <1>0, <1>3 DEF GoneInv
<1> QED BY <1>6, <1>7, <1>8, <1>9, <1>10, <1>11 DEF Inv

\* Every step keeps it.
LEMMA NextInv == Inv /\ [Next]_vars => Inv'
<1> SUFFICES ASSUME Inv, [Next]_vars PROVE Inv'
    OBVIOUS
<1>1. CASE UNCHANGED vars
  <2>1. UNCHANGED <<fsi, device, vp, refs, op, failed, old>>
      BY <1>1 DEF vars
  <2>2. MountInv'
      BY <2>1, MountKept
  <2>3. VnodeInv'
      BY <2>1, DirtyKeeps, Types DEF Dying
  <2>4. CleanInv' /\ (~UnmountBusy => GoneInv')
      BY <2>1 DEF Inv, CleanInv, GoneInv
  <2>5. device' \in 0 .. 2
      BY <2>1 DEF Inv, TypeOK
  <2> QED BY <2>1, <2>2, <2>3, <2>4, <2>5, Together, Types
<1>2. ASSUME NEW t \in Thread, Step(t) PROVE Inv'
  <2>1. CASE MountNotBlock(t) \/ MountBusy(t) \/ MountNoMemory(t)
      BY <2>1, FailureKeeps DEF MountNotBlock, MountBusy, MountNoMemory
  <2>2. CASE MountBootBad(t) \/ MountNoRootFv(t) \/ MountNoRootVnode(t)
      BY <2>2, FailureKeeps DEF MountBootBad, MountNoRootFv, MountNoRootVnode
  <2> QED BY <1>2, <2>1, <2>2, StructureKeeps, MountRootKeeps, InactiveKeeps, VnodeDeleteKeeps
          DEF Step, MountStep
<1>3. ASSUME NEW t \in Thread, Begin(t) PROVE Inv'
    BY <1>3, MountStartKeeps, UnmountKeeps, LookupKeeps, ChangeKeeps, ReleKeeps DEF Begin
<1> QED BY <1>1, <1>2, <1>3 DEF Next

\* In every state of every run of Mount the invariant holds.
LEMMA AlwaysInv == Spec => []Inv
    BY InitInv, NextInv, PTL DEF Spec

\* The state of mounts, vnodes and calls keeps its types; no count and no
\* number of device references goes below zero.
THEOREM MountTypes == Spec => []TypeOK
<1>1. Inv => TypeOK
    BY DEF Inv
<1> QED BY <1>1, AlwaysInv, PTL

\* VN_HOLD and VN_RELE balance: however lookups, releases, unmounts and tear
\* downs interleave, v_count is the number of references there are.
THEOREM CountsAlwaysExact == Spec => []CountsExact
<1>1. ASSUME Inv PROVE CountsExact
  <2>1. \A v \in Vnode \ old : Balance(v) = MountRefs(v)
      BY DEF Balance, MountRefs
  <2> QED BY <1>1, <2>1 DEF Inv, RefsInv, AllCounts, CountsExact
<1> QED BY <1>1, AlwaysInv, PTL

\* Whatever goes on after fat32_unmount, the root vnode of the ended mount stays,
\* with one reference that nobody has.
THEOREM RootLeaks == Spec => []UnmountLeaksRoot
<1>1. ASSUME Inv PROVE UnmountLeaksRoot
  <2>1. ASSUME NEW v \in old PROVE v \in Vnode /\ vp[v].used /\ Balance(v) = 1
      BY <1>1, <2>1, Types DEF Inv, RefsInv, Balance
  <2> QED BY <1>1, <2>1 DEF Inv, RefsInv, AllCounts, UnmountLeaksRoot
<1> QED BY <1>1, AlwaysInv, PTL

\* fat32_inactive and fat32_vnode_delete tear nothing down that is referred to,
\* and no two threads tear down one vnode.
THEOREM NothingInUseGoes == Spec => []NoDanglingVnode
<1>1. ASSUME Inv PROVE NoDanglingVnode
  <2>1. ASSUME NEW v \in Vnode, refs[v] > 0 \/ Children(v) # {} \/ v = fsi.root
        PROVE  vp[v].used /\ \A t \in Thread : Dying(t) => op[t].v # v
      BY <1>1, <2>1, Referred
  <2>2. /\ \A v \in Vnode : vp[v].used /\ vp[v].parent # NoVnode => vp[vp[v].parent].used
        /\ \A t, u \in Thread : Dying(t) /\ Dying(u) /\ op[t].v = op[u].v => t = u
      BY <1>1 DEF Inv, RefsInv, DyingInv
  <2> QED BY <2>1, <2>2 DEF NoDanglingVnode, Dying
<1> QED BY <1>1, AlwaysInv, PTL

\* fat32_mount holds the device while it runs and once it has succeeded, and
\* releases it on every error path; fat32_unmount releases it.
THEOREM DeviceAlwaysHeld == Spec => []DeviceHeldByMount
<1>1. Inv => DeviceHeldByMount
    BY DEF Inv, MountInv
<1> QED BY <1>1, AlwaysInv, PTL

\* Where fs_dounmount lets no process stay in the file system, fat32_inactive
\* has written the metadata of every vnode before fat32_vnode_delete frees it, or
\* tried to and met a device error, and after the unmount there are no vnodes
\* left but leaked roots.
THEOREM UnmountLosesNothing ==
    ASSUME ~UnmountBusy
    PROVE  Spec => []UnmountSavesAll
<1>1. ASSUME Inv PROVE UnmountSavesAll
    BY <1>1 DEF UnmountSavesAll, Inv, CleanInv, GoneInv
<1> QED BY <1>1, AlwaysInv, PTL

----------------------------------------------------------------------------
(* The layout of the volume *)

\* Where fat32_read_boot looks for the boot sector
LEMMA BootPlace ==
    ASSUME NEW disk, IsDisk(disk), NEW part \in Part, BootUsable(disk, part)
    PROVE  LET o == PartitionOffset(disk, part)
               asked == IF disk.direct THEN -1 ELSE part
           IN /\ o \in Nat /\ o \in DOMAIN disk.boot
              /\ o = IF disk.direct THEN 0
                     ELSE disk.parts[IF asked \in 0 .. 3 THEN asked
                                     ELSE Min(FatPartitions(disk))].start
<1>1. FatPartitions(disk) \subseteq 0 .. 3 /\ part \in -1 .. 3
    BY MountAssumption DEF FatPartitions, MountAssumption
<1>2. CASE disk.direct
    BY <1>2 DEF PartitionOffset, IsDisk
<1>3. CASE ~disk.direct
  <2>1. PartToUse(disk, part) \in FatPartitions(disk)
      BY <1>3 DEF BootUsable
  <2>2. part \notin 0 .. 3 => PartToUse(disk, part) = Min(FatPartitions(disk))
      BY <2>1 DEF PartToUse
  <2>3. part \in 0 .. 3 => PartToUse(disk, part) = part
      BY DEF PartToUse
  <2> QED BY <1>1, <1>3, <2>1, <2>2, <2>3 DEF PartitionOffset, IsDisk
<1> QED BY <1>2, <1>3

\* The arithmetic of fat32_cluster_to_sector and fat32_rmw_cluster
LEMMA LayoutIsSound ==
    ASSUME NEW disk, IsDisk(disk), NEW part \in Part, BootUsable(disk, part)
    PROVE  LayoutSound(disk, IF disk.direct THEN -1 ELSE part, Layout(disk, part))
<1> DEFINE o == PartitionOffset(disk, part)
           br == disk.boot[o]
           s == br.spc
           data == br.reserved + br.nfats * br.fatsize
           n == (br.total - data) \div s
           l == Layout(disk, part)
<1>1. /\ o \in Nat /\ o \in DOMAIN disk.boot
      /\ o = IF disk.direct THEN 0
             ELSE disk.parts[IF (IF disk.direct THEN -1 ELSE part) \in 0 .. 3
                             THEN IF disk.direct THEN -1 ELSE part
                             ELSE Min(FatPartitions(disk))].start
    BY BootPlace
<1>2. /\ br.spc \in Nat /\ br.reserved \in Nat /\ br.nfats \in Nat /\ br.fatsize \in Nat
      /\ br.total \in Nat /\ br.fsinfo \in Nat
    BY <1>1 DEF IsDisk
<1>3. /\ l.dataStart = data + o /\ l.spcShift = Log2(br.spc) /\ l.count = n
      /\ l.fatStart = o + br.reserved /\ l.fatSize = br.fatsize /\ l.fsinfo = o + br.fsinfo
    BY DEF Layout
<1> HIDE DEF o, l
<1> SUFFICES ASSUME WellFormed(br)
             PROVE  /\ \A c \in 2 .. l.count + 1 :
                         /\ ClusterToSector(l, c) >= o + br.reserved + br.nfats * br.fatsize
                         /\ ClusterToSector(l, c) + br.spc <= o + br.total
                         /\ c > 2 => ClusterToSector(l, c) = ClusterToSector(l, c - 1) + br.spc
                         /\ \A k \in 0 .. br.nfats - 1 :
                              FatSector(l, c, k) - o - br.reserved - k * br.fatsize
                                \in 0 .. br.fatsize - 1
                    /\ ClusterToSector(l, l.count + 2) + br.spc > o + br.total
                    /\ l.fsinfo \in o + 1 .. o + br.reserved - 1
    BY <1>1 DEF LayoutSound, l
<1>4. /\ s > 0 /\ s = 2 ^ Log2(br.spc) /\ br.nfats > 0 /\ br.fsinfo \in 1 .. br.reserved - 1
      /\ data + s <= br.total /\ 4 * (n + 2) <= br.fatsize * SectorSize
    BY DEF WellFormed
<1>5. SectorSize \in Nat \ {0} /\ SectorSize = 2 ^ Log2(SectorSize)
    BY SectorAssumption DEF SectorAssumption
<1>6. \A c : ClusterToSector(l, c) = data + o + (c - 2) * s
    BY <1>3, <1>4 DEF ClusterToSector
<1>7. \A c, k : FatSector(l, c, k) = o + br.reserved + (4 * c) \div SectorSize + k * br.fatsize
    BY <1>3, <1>5 DEF FatSector
<1>8. data \in Nat /\ br.total - data \in Nat /\ s \in Nat \ {0}
  <2>1. br.nfats * br.fatsize \in Nat
      BY <1>2
  <2> QED BY <1>2, <1>4, <2>1
<1> DEFINE room == br.total - data
<1>9. n \in Nat /\ n * s <= room /\ room < n * s + s /\ n * s \in Nat
  <2> HIDE DEF room
  <2>1. room \in Nat /\ n = room \div s
      BY <1>8 DEF room
  <2> HIDE DEF n, s
  <2> QED BY <1>8, <2>1, Quotient
<1> HIDE DEF n, s, br
<1>10. ASSUME NEW c \in 2 .. n + 1
       PROVE  /\ ClusterToSector(l, c) >= o + br.reserved + br.nfats * br.fatsize
              /\ ClusterToSector(l, c) + s <= o + br.total
              /\ c > 2 => ClusterToSector(l, c) = ClusterToSector(l, c - 1) + s
  <2>1. /\ c - 2 \in Nat /\ c - 2 <= n - 1 /\ n - 1 \in Nat
      BY <1>9
  <2>2. (c - 2) * s \in Nat /\ (n - 1) * s \in Nat /\ (c - 2) * s <= (n - 1) * s
      BY <1>8, <2>1, TimesMonotone
  <2>3. (n - 1) * s + s = n * s
      BY <1>8, <1>9
  <2>4. (c - 2) * s = (c - 1 - 2) * s + s
      BY <1>8
  <2>5. ClusterToSector(l, c) = data + o + (c - 2) * s
      BY <1>6
  <2>6. ClusterToSector(l, c - 1) = data + o + (c - 1 - 2) * s
      BY <1>6
  <2>7. (c - 1 - 2) * s \in Int
      BY <1>8
  <2> DEFINE x == (c - 2) * s
             y == (c - 1 - 2) * s
             m == (n - 1) * s
             e == n * s
             f == br.nfats * br.fatsize
  <2>8. f \in Nat
      BY <1>2
  <2> HIDE DEF x, y, m, e, f
  <2>9. ClusterToSector(l, c) >= o + br.reserved + br.nfats * br.fatsize
      BY <1>1, <1>2, <2>2, <2>5, <2>8 DEF x, f
  <2>10. ClusterToSector(l, c) + s <= o + br.total
      BY <1>1, <1>2, <1>8, <1>9, <2>2, <2>3, <2>5 DEF x, m, e
  <2>11. ClusterToSector(l, c) = ClusterToSector(l, c - 1) + s
      BY <1>1, <1>8, <2>2, <2>4, <2>5, <2>6, <2>7 DEF x, y
  <2> QED BY <2>9, <2>10, <2>11
<1>11. ASSUME NEW c \in 2 .. n + 1, NEW k \in 0 .. br.nfats - 1
       PROVE  FatSector(l, c, k) - o - br.reserved - k * br.fatsize \in 0 .. br.fatsize - 1
  <2> DEFINE q == (4 * c) \div SectorSize
             z == k * br.fatsize
  <2>1. z \in Int
      BY <1>2
  <2>2. 4 * c \in Nat /\ 4 * c < 4 * (n + 2)
      BY <1>9
  <2>3. 4 * c < br.fatsize * SectorSize
    <3>1. br.fatsize * SectorSize \in Int
        BY <1>2, <1>5
    <3> QED BY <1>4, <1>9, <2>2, <3>1
  <2>4. q < br.fatsize /\ q \in Nat
      BY <1>2, <1>5, <2>2, <2>3, QuotientBelow, Quotient
  <2>5. FatSector(l, c, k) = o + br.reserved + q + z
      BY <1>7
  <2> HIDE DEF q, z
  <2>6. FatSector(l, c, k) - o - br.reserved - z \in 0 .. br.fatsize - 1
      BY <1>1, <1>2, <2>1, <2>4, <2>5
  <2> QED BY <2>6 DEF z
<1>12. ClusterToSector(l, n + 2) + s > o + br.total
  <2>1. ClusterToSector(l, n + 2) = data + o + (n + 2 - 2) * s /\ n + 2 - 2 = n
      BY <1>6, <1>9
  <2>2. ClusterToSector(l, n + 2) = data + o + n * s
      BY <2>1
  <2> DEFINE e == n * s
  <2> HIDE DEF e
  <2> QED BY <1>1, <1>2, <1>8, <1>9, <2>2 DEF e
<1>13. l.fsinfo \in o + 1 .. o + br.reserved - 1
    BY <1>1, <1>2, <1>3, <1>4
<1> QED BY <1>3, <1>10, <1>11, <1>12, <1>13 DEF s

\* Whatever disk is mounted, with whatever sector size: on a well-formed file
\* system the clusters and FAT entries lie one after the other in the partition
\* that was asked for, and the last cluster that fits is used.
THEOREM LayoutAlwaysSound == Spec => []GeometrySound
<1>1. ASSUME Inv PROVE GeometrySound
  <2> SUFFICES ASSUME fsi.state \in {"mounting", "live"} PROVE LayoutSound(fsi.disk, fsi.part, fsi.layout)
      BY DEF GeometrySound
  <2>1. PICK disk \in Disk, part \in Part, state \in {"mounting", "live"},
             root \in Vnode \cup {NoVnode} :
            BootUsable(disk, part) /\ fsi = FsiOf(disk, part, state, root)
      BY <1>1 DEF Inv, MountInv, FsiInv, NoFsi, MadeFsi
  <2>2. /\ fsi.disk = disk /\ fsi.part = (IF disk.direct THEN -1 ELSE part)
        /\ fsi.layout = Layout(disk, part)
      BY <2>1 DEF FsiOf
  <2>3. IsDisk(disk)
      BY MountAssumption DEF MountAssumption
  <2> QED BY <2>1, <2>2, <2>3, LayoutIsSound
<1> QED BY <1>1, AlwaysInv, PTL
============================================================================

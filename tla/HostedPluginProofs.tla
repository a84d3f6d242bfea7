--------------------------- MODULE HostedPluginProofs ---------------------------
(***************************************************************************)
(* Theorems about HostedPlugin and their proofs, for any plug-ins, events   *)
(* and dependencies, and any number of connections, deployments and         *)
(* failures.                                                                *)
(***************************************************************************)
EXTENDS HostedPlugin, FiniteSetTheorems, SequenceTheorems, TLAPS

InProgress == {"progress", "dependencies", "starting"}

\* An activation that goes on, or that has started its plug-in, is the one the
\* manager has for that plug-in, which is registered: unless the plug-in was told
\* to stop in between.
ActivationsKnown ==
    \A l \in DOMAIN loads :
        LET p == loads[l].plugin
        IN  p \notin hasty =>
                /\ loads[l].pc \in InProgress \cup {"started"} => p \in registry /\ loadedPlugins[p] = l
                /\ loads[l].pc = "started" => activatedPlugins[p] = l

PluginInv == TypeOK /\ ActivationsKnown

-----------------------------------------------------------------------------
(* Data *)

LEMMA SetToSeqEnumerates ==
    ASSUME NEW S, IsFiniteSet(S)
    PROVE  /\ SetToSeq(S) \in Seq(S)
           /\ \A i, j \in DOMAIN SetToSeq(S) : SetToSeq(S)[i] = SetToSeq(S)[j] => i = j
           /\ \A x \in S : \E i \in DOMAIN SetToSeq(S) : SetToSeq(S)[i] = x
<1> DEFINE n == Cardinality(S)
<1>1. n \in Nat /\ ExistsBijection(1 .. n, S)
  BY FS_CardinalityType
<1>2. \E f \in [1 .. n -> S] : IsInjective(f)
  BY <1>1 DEF ExistsBijection, Bijection, Injection
<1>3. SetToSeq(S) \in [1 .. n -> S] /\ IsInjective(SetToSeq(S))
  BY <1>2 DEF SetToSeq
<1>4. SetToSeq(S) \in Injection(1 .. n, S)
  BY <1>3 DEF Injection
<1>5. IsFiniteSet(1 .. n) /\ Cardinality(1 .. n) = n
  BY <1>1, FS_Interval
<1>6. SetToSeq(S) \in Surjection(1 .. n, S)
  BY <1>4, <1>5, FS_Injection
<1> HIDE DEF n
<1>7. SetToSeq(S) \in Seq(S)
  BY <1>1, <1>3
<1>8. DOMAIN SetToSeq(S) = 1 .. n
  BY <1>3
<1> QED BY <1>3, <1>6, <1>7, <1>8 DEF IsInjective, Surjection

LEMMA Lengths ==
    ASSUME ManagerTypeOK
    PROVE  Len(loads) \in Nat /\ DOMAIN loads = 1 .. Len(loads)
BY LenProperties DEF ManagerTypeOK

LEMMA LoadIsTyped ==
    ASSUME ManagerTypeOK, NEW l, l \in DOMAIN loads
    PROVE  loads[l] \in Activations
BY ElementOfSeq, Lengths DEF ManagerTypeOK

\* What activating for an event does to the loads: `next' is its outcome.
Begun(next, reg) ==
    /\ next.activations \in [Events \cup {Eager} -> SUBSET Plugins]
    /\ next.loads \in Seq(Activations)
    /\ Len(loads) <= Len(next.loads)
    /\ \A l \in DOMAIN loads : next.loads[l] = loads[l]
    /\ \A l \in DOMAIN next.loads : l \notin DOMAIN loads =>
          /\ next.loads[l].root = l /\ next.loads[l].on = 0
          /\ next.loads[l].plugin \in reg
          /\ loadedPlugins[next.loads[l].plugin] = 0
          /\ next.loadedPlugins[next.loads[l].plugin] = l
          /\ next.loads[l].pc = "progress"
          /\ next.loads[l] = NewLoad(next.loads[l].plugin, l)
    /\ \A p \in Plugins : next.loadedPlugins[p] # loadedPlugins[p] =>
          next.loads[next.loadedPlugins[p]].plugin = p
    /\ next.loadedPlugins \in [Plugins -> 0 .. Len(next.loads)]
    /\ \A p \in Plugins : loadedPlugins[p] # 0 => next.loadedPlugins[p] = loadedPlugins[p]
    /\ next.on \subseteq DOMAIN next.loads

LEMMA ActivateLoads ==
    ASSUME PluginAssumption, ManagerTypeOK, NEW e, e \in Events \cup {Eager},
           NEW acts, acts \in [Events \cup {Eager} -> SUBSET Plugins],
           NEW reg, reg \subseteq Plugins,
           NEW next, next = Activate(e, acts, reg)
    PROVE  Begun(next, reg)
<1> DEFINE called == acts[e] \cap reg
           new    == SetToSeq(NotLoaded(called))
           added  == [i \in 1 .. Len(new) |-> NewLoad(new[i], Len(loads) + i)]
           all    == loads \o added
           entry  == [p \in Plugins |->
                         IF \E i \in 1 .. Len(new) : new[i] = p
                         THEN Len(loads) + (CHOOSE i \in 1 .. Len(new) : new[i] = p)
                         ELSE loadedPlugins[p]]
<1>1. next = [activations |-> [acts EXCEPT ![e] = {}], loads |-> all, loadedPlugins |-> entry,
              on |-> {entry[p] : p \in called}]
  BY DEF Activate
<1>2. NotLoaded(called) \subseteq Plugins /\ IsFiniteSet(NotLoaded(called))
  BY FS_Subset DEF NotLoaded, PluginAssumption
<1>3. /\ new \in Seq(NotLoaded(called)) /\ Len(new) \in Nat /\ DOMAIN new = 1 .. Len(new)
      /\ \A i \in 1 .. Len(new) : new[i] \in NotLoaded(called)
      /\ \A i, j \in 1 .. Len(new) : new[i] = new[j] => i = j
      /\ \A p \in NotLoaded(called) : \E i \in 1 .. Len(new) : new[i] = p
  <2>1. new \in Seq(NotLoaded(called))
    BY <1>2, SetToSeqEnumerates
  <2>2. Len(new) \in Nat /\ DOMAIN new = 1 .. Len(new)
    BY <2>1, LenProperties
  <2>3. \A i \in 1 .. Len(new) : new[i] \in NotLoaded(called)
    BY <2>1, <2>2, ElementOfSeq
  <2>4. /\ \A i, j \in DOMAIN new : new[i] = new[j] => i = j
        /\ \A p \in NotLoaded(called) : \E i \in DOMAIN new : new[i] = p
    BY <1>2, SetToSeqEnumerates
  <2> HIDE DEF new
  <2> QED BY <2>1, <2>2, <2>3, <2>4
<1> HIDE DEF new
<1>4. Len(loads) \in Nat /\ DOMAIN loads = 1 .. Len(loads) /\ loads \in Seq(Activations)
  BY Lengths DEF ManagerTypeOK
<1>5. added \in Seq(Activations) /\ Len(added) = Len(new)
      /\ \A i \in 1 .. Len(new) : added[i] = NewLoad(new[i], Len(loads) + i)
  <2>1. \A i \in 1 .. Len(new) : NewLoad(new[i], Len(loads) + i) \in Activations
    BY <1>2, <1>3, <1>4 DEF NewLoad, Activations
  <2> QED BY <2>1, <1>3
<1> HIDE DEF added
<1>6. /\ all \in Seq(Activations) /\ Len(all) = Len(loads) + Len(new) /\ DOMAIN all = 1 .. Len(all)
      /\ \A l \in DOMAIN loads : all[l] = loads[l]
      /\ \A l \in 1 .. Len(all) : l \notin DOMAIN loads =>
            l - Len(loads) \in 1 .. Len(new) /\ all[l] = NewLoad(new[l - Len(loads)], l)
  <2>1. /\ all \in Seq(Activations) /\ Len(all) = Len(loads) + Len(added)
        /\ \A i \in 1 .. Len(loads) + Len(added) :
              all[i] = IF i <= Len(loads) THEN loads[i] ELSE added[i - Len(loads)]
    <3>1. all = loads \o added
      BY DEF all
    <3>2. loads \in Seq(Activations) /\ added \in Seq(Activations)
      BY <1>4, <1>5
    <3> HIDE DEF all
    <3> QED BY ONLY <3>1, <3>2, ConcatProperties
  <2>2. DOMAIN all = 1 .. Len(all)
    BY <2>1, LenProperties
  <2> HIDE DEF all
  <2>3. \A l \in DOMAIN loads : all[l] = loads[l]
    BY <1>3, <1>4, <1>5, <2>1
  <2> SUFFICES ASSUME NEW l \in 1 .. Len(all), l \notin DOMAIN loads
               PROVE  l - Len(loads) \in 1 .. Len(new) /\ all[l] = NewLoad(new[l - Len(loads)], l)
    BY <1>5, <2>1, <2>2, <2>3
  <2>4. l \in 1 .. Len(loads) + Len(new) /\ l > Len(loads)
    BY <1>3, <1>4, <1>5, <2>1
  <2>5. l - Len(loads) \in 1 .. Len(new) /\ Len(loads) + (l - Len(loads)) = l
    BY <2>4, <1>3, <1>4
  <2>6. all[l] = added[l - Len(loads)]
    BY <1>4, <1>5, <2>1, <2>4
  <2> QED BY <1>5, <2>5, <2>6
<1>7. \A i \in 1 .. Len(new) : entry[new[i]] = Len(loads) + i
  <2> SUFFICES ASSUME NEW i \in 1 .. Len(new) PROVE entry[new[i]] = Len(loads) + i
    OBVIOUS
  <2>1. (CHOOSE j \in 1 .. Len(new) : new[j] = new[i]) = i
    BY <1>3
  <2>2. new[i] \in Plugins /\ \E j \in 1 .. Len(new) : new[j] = new[i]
    BY <1>2, <1>3
  <2> QED BY <2>1, <2>2
<1>8. loadedPlugins \in [Plugins -> 0 .. Len(loads)]
  BY DEF ManagerTypeOK
<1>9. ASSUME NEW p \in Plugins, ~\E i \in 1 .. Len(new) : new[i] = p
      PROVE  p \notin NotLoaded(called) /\ entry[p] = loadedPlugins[p]
  <2>1. p \notin NotLoaded(called)
    BY <1>9, <1>3
  <2>2. entry[p] = loadedPlugins[p]
    BY <1>9
  <2> QED BY <2>1, <2>2
<1>0. called \subseteq Plugins
  OBVIOUS
<1>10. entry = [p \in Plugins |-> entry[p]]
  OBVIOUS
<1> HIDE DEF all, entry, called
<1>11. entry \in [Plugins -> 0 .. Len(all)]
  <2>1. ASSUME NEW p \in Plugins PROVE entry[p] \in 0 .. Len(all)
    <3>1. CASE \E i \in 1 .. Len(new) : new[i] = p
      BY <3>1, <1>3, <1>4, <1>6, <1>7
    <3>2. CASE ~\E i \in 1 .. Len(new) : new[i] = p
      <4>1. entry[p] = loadedPlugins[p]
        BY <3>2, <1>9
      <4> QED BY <4>1, <1>3, <1>4, <1>6, <1>8
    <3> QED BY <3>1, <3>2
  <2> QED BY <1>10, <2>1
<1>12. \A p \in Plugins : loadedPlugins[p] # 0 => entry[p] = loadedPlugins[p]
  <2> SUFFICES ASSUME NEW p \in Plugins, loadedPlugins[p] # 0
               PROVE  entry[p] = loadedPlugins[p]
    OBVIOUS
  <2>1. ~\E i \in 1 .. Len(new) : new[i] = p
    BY <1>3 DEF NotLoaded
  <2> QED BY <2>1, <1>9
<1>13. \A p \in called : entry[p] \in 1 .. Len(all)
  <2> SUFFICES ASSUME NEW p \in called PROVE entry[p] # 0
    BY <1>0, <1>4, <1>6, <1>11
  <2>1. CASE p \in NotLoaded(called)
    <3>1. PICK i \in 1 .. Len(new) : new[i] = p
      BY <2>1, <1>3
    <3>2. entry[p] = Len(loads) + i
      BY <3>1, <1>7
    <3> QED BY <3>1, <3>2, <1>3, <1>4
  <2>2. CASE p \notin NotLoaded(called)
    BY <2>2, <1>0, <1>12 DEF NotLoaded
  <2> QED BY <2>1, <2>2
<1>14. ASSUME NEW l \in DOMAIN all, l \notin DOMAIN loads
       PROVE  /\ all[l].root = l /\ all[l].on = 0 /\ all[l].plugin \in reg
              /\ loadedPlugins[all[l].plugin] = 0 /\ entry[all[l].plugin] = l
              /\ all[l].pc = "progress"
              /\ all[l] = NewLoad(all[l].plugin, l)
  <2>1. PICK i \in 1 .. Len(new) : i = l - Len(loads) /\ all[l] = NewLoad(new[i], l)
    BY <1>6, <1>14
  <2>2. new[i] \in called /\ loadedPlugins[new[i]] = 0
    BY <1>3 DEF NotLoaded
  <2>3. all[l].plugin = new[i] /\ all[l].root = l /\ all[l].on = 0 /\ all[l].pc = "progress"
    BY <2>1 DEF NewLoad
  <2>4. entry[new[i]] = l
    BY <2>1, <1>4, <1>6, <1>7
  <2> QED BY <2>1, <2>2, <2>3, <2>4 DEF called
<1>15. [acts EXCEPT ![e] = {}] \in [Events \cup {Eager} -> SUBSET Plugins]
  OBVIOUS
<1>16. Len(loads) <= Len(all)
  BY <1>3, <1>4, <1>6
<1>17. ASSUME NEW p \in Plugins, entry[p] # loadedPlugins[p] PROVE all[entry[p]].plugin = p
  <2>1. PICK i \in 1 .. Len(new) : new[i] = p
    BY <1>9, <1>17
  <2>2. entry[p] = Len(loads) + i /\ Len(loads) + i \in 1 .. Len(all) /\ Len(loads) + i \notin DOMAIN loads
    <3>1. entry[p] = Len(loads) + i
      BY <1>7, <2>1
    <3>2. Len(all) = Len(loads) + Len(new) /\ Len(loads) \in Nat /\ Len(new) \in Nat /\ i \in 1 .. Len(new)
          /\ DOMAIN loads = 1 .. Len(loads)
      BY <1>3, <1>4, <1>6
    <3> QED BY ONLY <3>1, <3>2
  <2>3. all[entry[p]] = NewLoad(new[entry[p] - Len(loads)], entry[p]) /\ entry[p] - Len(loads) = i
    BY <1>3, <1>4, <1>6, <2>2
  <2> QED BY <2>1, <2>3 DEF NewLoad
<1> QED BY <1>1, <1>6, <1>11, <1>12, <1>13, <1>14, <1>15, <1>16, <1>17 DEF Begun

ManagerInv == ManagerTypeOK /\ ActivationsKnown

\* What the manager knows of its activations.
LoadsTypeOK ==
    /\ loads \in Seq(Activations)
    /\ \A l \in DOMAIN loads : loads[l].root <= l /\ loads[l].on <= Len(loads)
    /\ loadedPlugins \in [Plugins -> 0 .. Len(loads)]
    /\ activatedPlugins \in [Plugins -> 0 .. Len(loads)]

LEMMA Activated ==
    ASSUME PluginAssumption, ManagerInv, NEW e, e \in Events \cup {Eager},
           NEW acts, acts \in [Events \cup {Eager} -> SUBSET Plugins],
           NEW next, next = Activate(e, acts, registry'),
           registry \subseteq registry', registry' \subseteq Plugins,
           loads' = next.loads, loadedPlugins' = next.loadedPlugins,
           UNCHANGED <<activatedPlugins, hasty>>
    PROVE  /\ next.activations \in [Events \cup {Eager} -> SUBSET Plugins]
           /\ LoadsTypeOK'
           /\ next.on \subseteq DOMAIN loads'
           /\ DOMAIN loads \subseteq DOMAIN loads'
           /\ ActivationsKnown'
<1>1. ManagerTypeOK
  BY DEF ManagerInv
<1>2. /\ next.activations \in [Events \cup {Eager} -> SUBSET Plugins]
      /\ loads' \in Seq(Activations)
      /\ Len(loads) <= Len(loads')
      /\ \A l \in DOMAIN loads : loads'[l] = loads[l]
      /\ \A l \in DOMAIN loads' : l \notin DOMAIN loads =>
            /\ loads'[l].root = l /\ loads'[l].on = 0
            /\ loads'[l].plugin \in registry'
            /\ loadedPlugins[loads'[l].plugin] = 0
            /\ loadedPlugins'[loads'[l].plugin] = l
            /\ loads'[l].pc = "progress"
      /\ loadedPlugins' \in [Plugins -> 0 .. Len(loads')]
      /\ \A p \in Plugins : loadedPlugins[p] # 0 => loadedPlugins'[p] = loadedPlugins[p]
      /\ next.on \subseteq DOMAIN loads'
  <2>1. PICK reg : reg = registry' /\ reg \subseteq Plugins
    OBVIOUS
  <2>2. next = Activate(e, acts, reg)
    BY <2>1
  <2>3. Begun(next, reg)
    BY <1>1, <2>1, <2>2, ActivateLoads
  <2> QED BY <2>1, <2>3 DEF Begun
<1>3. Len(loads) \in Nat /\ DOMAIN loads = 1 .. Len(loads)
  BY <1>1, Lengths
<1>4. Len(loads') \in Nat /\ DOMAIN loads' = 1 .. Len(loads')
  BY <1>2, LenProperties
<1>5. DOMAIN loads \subseteq DOMAIN loads'
  BY <1>2, <1>3, <1>4
<1>6. LoadsTypeOK'
  <2>1. \A l \in DOMAIN loads' : loads'[l].root <= l /\ loads'[l].on <= Len(loads')
    <3> TAKE l \in DOMAIN loads'
    <3>1. CASE l \in DOMAIN loads
      <4>1. loads[l] \in Activations /\ loads[l].root <= l /\ loads[l].on <= Len(loads)
        BY <3>1, <1>1, LoadIsTyped DEF ManagerTypeOK
      <4>2. loads[l].on \in Nat
        BY <4>1 DEF Activations
      <4> QED BY <3>1, <4>1, <4>2, <1>2, <1>3, <1>4
    <3>2. CASE l \notin DOMAIN loads
      BY <3>2, <1>2, <1>4
    <3> QED BY <3>1, <3>2
  <2>2. activatedPlugins' \in [Plugins -> 0 .. Len(loads')]
    BY <1>1, <1>2, <1>3, <1>4 DEF ManagerTypeOK
  <2> QED BY <1>2, <2>1, <2>2 DEF LoadsTypeOK
<1>7. ActivationsKnown'
  <2> SUFFICES ASSUME NEW l \in DOMAIN loads', loads'[l].plugin \notin hasty
               PROVE  LET p == loads'[l].plugin
                      IN  /\ loads'[l].pc \in InProgress \cup {"started"} =>
                                 p \in registry' /\ loadedPlugins'[p] = l
                          /\ loads'[l].pc = "started" => activatedPlugins[p] = l
    BY DEF ActivationsKnown
  <2>1. CASE l \in DOMAIN loads
    <3>1. loads'[l] = loads[l] /\ l # 0
      BY <2>1, <1>2, <1>3
    <3>2. loads[l].plugin \in Plugins
      BY <2>1, <1>1, LoadIsTyped DEF Activations
    <3>3. /\ loads[l].pc \in InProgress \cup {"started"} =>
                loads[l].plugin \in registry /\ loadedPlugins[loads[l].plugin] = l
          /\ loads[l].pc = "started" => activatedPlugins[loads[l].plugin] = l
      BY <2>1, <3>1 DEF ManagerInv, ActivationsKnown
    <3> QED BY <3>1, <3>2, <3>3, <1>2
  <2>2. CASE l \notin DOMAIN loads
    BY <2>2, <1>2
  <2> QED BY <2>1, <2>2
<1> QED BY <1>2, <1>5, <1>6, <1>7

\* An activation goes on.
LEMMA LoadUpdated ==
    ASSUME ManagerInv, NEW l, l \in DOMAIN loads, NEW r, r \in Activations,
           r.root = loads[l].root, r.on <= Len(loads), r.plugin = loads[l].plugin,
           r.pc \in InProgress => loads[l].pc \in InProgress, r.pc # "started",
           loads' = [loads EXCEPT ![l] = r],
           UNCHANGED <<registry, loadedPlugins, activatedPlugins, hasty>>
    PROVE  LoadsTypeOK' /\ DOMAIN loads' = DOMAIN loads /\ ActivationsKnown'
<1>1. ManagerTypeOK
  BY DEF ManagerInv
<1>2. Len(loads) \in Nat /\ DOMAIN loads = 1 .. Len(loads) /\ loads \in Seq(Activations)
  BY <1>1, Lengths DEF ManagerTypeOK
<1>3. /\ loads' \in Seq(Activations) /\ Len(loads') = Len(loads)
      /\ \A k \in DOMAIN loads : loads'[k] = IF k = l THEN r ELSE loads[k]
  BY <1>2, ExceptSeq
<1>4. DOMAIN loads' = DOMAIN loads
  BY <1>2, <1>3, LenProperties
<1>5. \A k \in DOMAIN loads : loads[k].root <= k /\ loads[k].on <= Len(loads)
  BY <1>1 DEF ManagerTypeOK
<1>6. LoadsTypeOK'
  BY <1>1, <1>3, <1>4, <1>5 DEF LoadsTypeOK, ManagerTypeOK
<1>7. ActivationsKnown'
  <2> SUFFICES ASSUME NEW k \in DOMAIN loads, loads'[k].plugin \notin hasty
               PROVE  LET p == loads'[k].plugin
                      IN  /\ loads'[k].pc \in InProgress \cup {"started"} =>
                                 p \in registry /\ loadedPlugins[p] = k
                          /\ loads'[k].pc = "started" => activatedPlugins[p] = k
    BY <1>4 DEF ActivationsKnown
  <2>1. loads'[k].plugin = loads[k].plugin
    BY <1>3
  <2>2. loads'[k].pc \in InProgress => loads[k].pc \in InProgress
    BY <1>3
  <2>3. loads'[k].pc = "started" => loads[k].pc = "started"
    BY <1>3
  <2> QED BY <2>1, <2>2, <2>3 DEF ManagerInv, ActivationsKnown
<1> QED BY <1>4, <1>6, <1>7

-----------------------------------------------------------------------------
(* Steps of the manager *)

LEMMA ProgressShownSafe ==
    ASSUME ManagerInv, NEW l, l \in DOMAIN loads, ProgressShown(l)
    PROVE  ManagerInv'
<1>1. ManagerTypeOK /\ loads[l] \in Activations /\ loads[l].on <= Len(loads)
  BY LoadIsTyped DEF ManagerInv, ManagerTypeOK
<1> DEFINE r == [loads[l] EXCEPT !.pc = "dependencies"]
<1>2. r \in Activations /\ r.root = loads[l].root /\ r.on <= Len(loads) /\ r.plugin = loads[l].plugin
      /\ r.pc # "started"
  BY <1>1, Lengths DEF Activations
<1>3. loads' = [loads EXCEPT ![l] = r] /\ loads[l].pc \in InProgress
  BY DEF ProgressShown, InProgress
<1>4. UNCHANGED <<registry, loadedPlugins, activatedPlugins, hasty>>
  BY DEF ProgressShown
<1> HIDE DEF r
<1>5. LoadsTypeOK' /\ DOMAIN loads' = DOMAIN loads /\ ActivationsKnown'
  BY <1>1, <1>2, <1>3, <1>4, LoadUpdated
<1> QED BY <1>1, <1>5 DEF ManagerInv, ManagerTypeOK, LoadsTypeOK, ProgressShown, PluginAssumption

LEMMA CallStartSafe ==
    ASSUME ManagerInv, NEW l, l \in DOMAIN loads, CallStart(l)
    PROVE  ManagerInv'
<1>1. ManagerTypeOK /\ loads[l] \in Activations /\ loads[l].on <= Len(loads)
  BY LoadIsTyped DEF ManagerInv, ManagerTypeOK
<1> DEFINE r == [loads[l] EXCEPT !.pc = "starting"]
<1>2. r \in Activations /\ r.root = loads[l].root /\ r.on <= Len(loads) /\ r.plugin = loads[l].plugin
      /\ r.pc # "started"
  BY <1>1, Lengths DEF Activations
<1>3. loads' = [loads EXCEPT ![l] = r] /\ loads[l].pc \in InProgress
  BY DEF CallStart, InProgress
<1>4. UNCHANGED <<registry, loadedPlugins, activatedPlugins, hasty>>
  BY DEF CallStart
<1> HIDE DEF r
<1>5. LoadsTypeOK' /\ DOMAIN loads' = DOMAIN loads /\ ActivationsKnown'
  BY <1>1, <1>2, <1>3, <1>4, LoadUpdated
<1> QED BY <1>1, <1>5 DEF ManagerInv, ManagerTypeOK, LoadsTypeOK, CallStart, PluginAssumption

LEMMA ProgressFailsSafe ==
    ASSUME ManagerInv, NEW l, l \in DOMAIN loads, ProgressFails(l)
    PROVE  ManagerInv'
<1>1. ManagerTypeOK /\ loads[l] \in Activations /\ loads[l].on <= Len(loads)
  BY LoadIsTyped DEF ManagerInv, ManagerTypeOK
<1> DEFINE r == [loads[l] EXCEPT !.pc = "rejected"]
<1>2. r \in Activations /\ r.root = loads[l].root /\ r.on <= Len(loads) /\ r.plugin = loads[l].plugin
      /\ r.pc # "started"
  BY <1>1, Lengths DEF Activations
<1>3. loads' = [loads EXCEPT ![l] = r] /\ loads[l].pc \in InProgress
  BY DEF ProgressFails, InProgress
<1>4. UNCHANGED <<registry, loadedPlugins, activatedPlugins, hasty>>
  BY DEF ProgressFails
<1> HIDE DEF r
<1>5. LoadsTypeOK' /\ DOMAIN loads' = DOMAIN loads /\ ActivationsKnown'
  BY <1>1, <1>2, <1>3, <1>4, LoadUpdated
<1> QED BY <1>1, <1>5 DEF ManagerInv, ManagerTypeOK, LoadsTypeOK, ProgressFails, PluginAssumption

LEMMA StartThrowsSafe ==
    ASSUME ManagerInv, NEW l, l \in DOMAIN loads, StartThrows(l)
    PROVE  ManagerInv'
<1>1. ManagerTypeOK /\ loads[l] \in Activations /\ loads[l].on <= Len(loads)
  BY LoadIsTyped DEF ManagerInv, ManagerTypeOK
<1> DEFINE r == [loads[l] EXCEPT !.pc = "failed"]
<1>2. r \in Activations /\ r.root = loads[l].root /\ r.on <= Len(loads) /\ r.plugin = loads[l].plugin
      /\ r.pc # "started"
  BY <1>1, Lengths DEF Activations
<1>3. loads' = [loads EXCEPT ![l] = r] /\ loads[l].pc \in InProgress
  BY DEF StartThrows, InProgress
<1>4. UNCHANGED <<registry, loadedPlugins, activatedPlugins, hasty>>
  BY DEF StartThrows
<1> HIDE DEF r
<1>5. LoadsTypeOK' /\ DOMAIN loads' = DOMAIN loads /\ ActivationsKnown'
  BY <1>1, <1>2, <1>3, <1>4, LoadUpdated
<1> QED BY <1>1, <1>5 DEF ManagerInv, ManagerTypeOK, LoadsTypeOK, StartThrows, PluginAssumption

LEMMA DependencyLoadedSafe ==
    ASSUME ManagerInv, NEW l, l \in DOMAIN loads, DependencyLoaded(l)
    PROVE  ManagerInv'
<1>0. loads[l].pc = "dependencies"
  BY DEF DependencyLoaded
<1>1. ManagerTypeOK /\ loads[l] \in Activations /\ loads[l].on <= Len(loads)
  BY LoadIsTyped DEF ManagerInv, ManagerTypeOK
<1> DEFINE r == IF loads[loads[l].on].pc \in {"failed", "rejected"} THEN [loads[l] EXCEPT !.pc = "failed"]
                  ELSE [loads[l] EXCEPT !.dep = @ + 1, !.on = 0]
<1>2. r \in Activations /\ r.root = loads[l].root /\ r.on <= Len(loads) /\ r.plugin = loads[l].plugin
      /\ r.pc # "started"
  <2>1. CASE loads[loads[l].on].pc \in {"failed", "rejected"}
    BY <2>1, <1>1 DEF Activations
  <2>2. CASE loads[loads[l].on].pc \notin {"failed", "rejected"}
    <3>1. r = [loads[l] EXCEPT !.dep = @ + 1, !.on = 0]
      BY <2>2
    <3>2. r \in Activations /\ r.root = loads[l].root /\ r.on = 0 /\ r.plugin = loads[l].plugin
          /\ r.pc = loads[l].pc
      <4> DEFINE a == loads[l]
      <4>1. a \in Activations /\ a.dep + 1 \in Nat
        BY <1>1 DEF Activations
      <4> HIDE DEF a
      <4>2. [a EXCEPT !.dep = @ + 1, !.on = 0] \in Activations
        BY <4>1 DEF Activations
      <4>3. LET b == [a EXCEPT !.dep = @ + 1, !.on = 0]
            IN  b.root = a.root /\ b.on = 0 /\ b.plugin = a.plugin /\ b.pc = a.pc
        BY <4>1 DEF Activations
      <4> QED BY <4>2, <4>3, <3>1 DEF a
    <3> HIDE DEF r
    <3> QED BY <3>2, <1>0, <1>1, Lengths
  <2> QED BY <2>1, <2>2
<1>3. loads' = [loads EXCEPT ![l] = r] /\ loads[l].pc \in InProgress
  BY DEF DependencyLoaded, InProgress
<1>4. UNCHANGED <<registry, loadedPlugins, activatedPlugins, hasty>>
  BY DEF DependencyLoaded
<1> HIDE DEF r
<1>5. LoadsTypeOK' /\ DOMAIN loads' = DOMAIN loads /\ ActivationsKnown'
  BY <1>1, <1>2, <1>3, <1>4, LoadUpdated
<1> QED BY <1>1, <1>5 DEF ManagerInv, ManagerTypeOK, LoadsTypeOK, DependencyLoaded, PluginAssumption

LEMMA StartReturnsSafe ==
    ASSUME ManagerInv, NEW l, l \in DOMAIN loads, StartReturns(l)
    PROVE  ManagerInv'
<1>1. ManagerTypeOK /\ loads[l] \in Activations /\ loads \in Seq(Activations)
      /\ Len(loads) \in Nat /\ DOMAIN loads = 1 .. Len(loads)
  BY LoadIsTyped, Lengths DEF ManagerInv, ManagerTypeOK
<1> DEFINE r == [loads[l] EXCEPT !.pc = "started"]
           p == loads[l].plugin
<1>2. r \in Activations /\ r.root = loads[l].root /\ r.on = loads[l].on /\ r.plugin = p
      /\ r.pc = "started" /\ p \in Plugins
  BY <1>1 DEF Activations
<1>3. loads' = [loads EXCEPT ![l] = r] /\ loads[l].pc \in InProgress
  BY DEF StartReturns, InProgress
<1>4. /\ UNCHANGED <<registry, loadedPlugins, hasty>>
      /\ activatedPlugins' = [activatedPlugins EXCEPT ![p] = l]
  BY DEF StartReturns
<1> HIDE DEF r
<1>5. /\ loads' \in Seq(Activations) /\ Len(loads') = Len(loads)
      /\ \A k \in DOMAIN loads : loads'[k] = IF k = l THEN r ELSE loads[k]
  BY <1>1, <1>2, <1>3, ExceptSeq
<1>6. DOMAIN loads' = DOMAIN loads
  BY <1>1, <1>5, LenProperties
<1>7. \A k \in DOMAIN loads : loads[k].root <= k /\ loads[k].on <= Len(loads)
  BY <1>1 DEF ManagerTypeOK
<1>8. activatedPlugins' \in [Plugins -> 0 .. Len(loads)]
  BY <1>1, <1>2, <1>4 DEF ManagerTypeOK
<1>9. ManagerTypeOK'
  BY <1>1, <1>2, <1>4, <1>5, <1>6, <1>7, <1>8 DEF ManagerTypeOK, StartReturns
<1>10. ActivationsKnown'
  <2> SUFFICES ASSUME NEW k \in DOMAIN loads, loads'[k].plugin \notin hasty
               PROVE  LET q == loads'[k].plugin
                      IN  /\ loads'[k].pc \in InProgress \cup {"started"} =>
                                 q \in registry /\ loadedPlugins[q] = k
                          /\ loads'[k].pc = "started" => activatedPlugins'[q] = k
    BY <1>4, <1>6 DEF ActivationsKnown
  <2>1. loads'[k].plugin = loads[k].plugin /\ loads[k].plugin \in Plugins
    BY <1>1, <1>2, <1>5, LoadIsTyped DEF Activations
  <2>2. CASE k = l
    <3>1. p \in registry /\ loadedPlugins[p] = l
      BY <2>1, <2>2, <1>3 DEF ManagerInv, ActivationsKnown
    <3> QED BY <2>1, <2>2, <3>1, <1>2, <1>4 DEF ManagerInv, ManagerTypeOK
  <2>3. CASE k # l
    <3>1. loads'[k] = loads[k]
      BY <2>3, <1>5
    <3>2. loads[k].pc = "started" => loads[k].plugin # p
      <4> SUFFICES ASSUME loads[k].pc = "started", loads[k].plugin = p PROVE FALSE
        OBVIOUS
      <4>1. loadedPlugins[p] = k
        BY <2>1 DEF ManagerInv, ActivationsKnown
      <4>2. loadedPlugins[p] = l
        BY <2>1, <1>3 DEF ManagerInv, ActivationsKnown
      <4> QED BY <2>3, <4>1, <4>2
    <3>3. loads[k].pc = "started" => activatedPlugins'[loads[k].plugin] = activatedPlugins[loads[k].plugin]
      BY <2>1, <3>2, <1>4, <1>1 DEF ManagerTypeOK
    <3> QED BY <2>1, <3>1, <3>3 DEF ManagerInv, ActivationsKnown
  <2> QED BY <2>2, <2>3
<1> QED BY <1>9, <1>10 DEF ManagerInv

\* The loads when l begins to wait for the activation `entry' of a dependency.
WaitsFor(l, entry, waiting) ==
    /\ waiting \in Seq(Activations) /\ Len(waiting) = Len(loads) /\ DOMAIN waiting = DOMAIN loads
    /\ \A k \in DOMAIN loads :
          /\ waiting[k].root = loads[k].root
          /\ waiting[k].plugin = loads[k].plugin
          /\ waiting[k].pc = loads[k].pc
          /\ waiting[k].on = IF k = l THEN entry ELSE loads[k].on
          /\ waiting[k].dep = loads[k].dep
Remembers(root, q, waiting) ==
    \A k \in DOMAIN loads :
        waiting[k].visited = loads[k].visited \cup (IF k = root THEN {q} ELSE {})

LEMMA WaitingFor ==
    ASSUME ManagerTypeOK, NEW l, l \in DOMAIN loads, NEW root, root \in DOMAIN loads,
           NEW q, q \in Plugins, NEW entry, entry \in Nat,
           NEW waiting, waiting = [loads EXCEPT ![root].visited = @ \cup {q}, ![l].on = entry]
    PROVE  WaitsFor(l, entry, waiting) /\ Remembers(root, q, waiting)
<1> DEFINE shared == [loads[root] EXCEPT !.visited = @ \cup {q}]
           s == [loads EXCEPT ![root] = shared]
           blocked == [s[l] EXCEPT !.on = entry]
<1>1. /\ loads \in Seq(Activations) /\ DOMAIN loads = 1 .. Len(loads) /\ Len(loads) \in Nat
      /\ \A k \in DOMAIN loads : loads[k] \in Activations
  BY Lengths, LoadIsTyped DEF ManagerTypeOK
<1>2. waiting = [s EXCEPT ![l] = blocked]
  OBVIOUS
<1>3. /\ shared \in Activations /\ shared.root = loads[root].root /\ shared.plugin = loads[root].plugin
      /\ shared.pc = loads[root].pc /\ shared.on = loads[root].on /\ shared.dep = loads[root].dep
      /\ shared.visited = loads[root].visited \cup {q}
  BY <1>1 DEF Activations
<1> HIDE DEF shared
<1>4. /\ s \in Seq(Activations) /\ Len(s) = Len(loads)
      /\ \A k \in DOMAIN loads : s[k] = IF k = root THEN shared ELSE loads[k]
  BY <1>1, <1>3, ExceptSeq
<1> HIDE DEF s
<1>5. s[l] \in Activations /\ DOMAIN s = DOMAIN loads
  BY <1>1, <1>4, ElementOfSeq, LenProperties
<1>6. /\ blocked \in Activations /\ blocked.root = s[l].root /\ blocked.plugin = s[l].plugin
      /\ blocked.pc = s[l].pc /\ blocked.on = entry /\ blocked.dep = s[l].dep
      /\ blocked.visited = s[l].visited
  BY <1>5 DEF Activations
<1> HIDE DEF blocked
<1>7. /\ waiting \in Seq(Activations) /\ Len(waiting) = Len(loads)
      /\ \A k \in DOMAIN loads : waiting[k] = IF k = l THEN blocked ELSE s[k]
  <2> DEFINE w == [s EXCEPT ![l] = blocked]
  <2>1. l \in 1 .. Len(s) /\ s \in Seq(Activations) /\ blocked \in Activations
    BY <1>1, <1>4, <1>6
  <2>2. /\ w \in Seq(Activations) /\ Len(w) = Len(s)
        /\ \A k \in 1 .. Len(s) : w[k] = IF k = l THEN blocked ELSE s[k]
    BY <2>1, ExceptSeq
  <2>3. waiting = w
    BY <1>2
  <2> HIDE DEF w
  <2> QED BY <1>1, <1>4, <2>2, <2>3
<1>8. DOMAIN waiting = DOMAIN loads
  BY <1>1, <1>7, LenProperties
<1>9. \A k \in DOMAIN loads :
         s[k].root = loads[k].root /\ s[k].plugin = loads[k].plugin /\ s[k].pc = loads[k].pc
            /\ s[k].on = loads[k].on /\ s[k].dep = loads[k].dep
            /\ s[k].visited = loads[k].visited \cup (IF k = root THEN {q} ELSE {})
  BY <1>3, <1>4
<1>10. ASSUME NEW k \in DOMAIN loads
       PROVE  /\ waiting[k].root = loads[k].root
              /\ waiting[k].plugin = loads[k].plugin
              /\ waiting[k].pc = loads[k].pc
              /\ waiting[k].on = IF k = l THEN entry ELSE loads[k].on
              /\ waiting[k].dep = loads[k].dep
              /\ waiting[k].visited = loads[k].visited \cup (IF k = root THEN {q} ELSE {})
  <2>1. CASE k = l
    <3>1. waiting[k] = blocked
      BY <2>1, <1>7
    <3>2. /\ blocked.root = loads[k].root /\ blocked.plugin = loads[k].plugin /\ blocked.pc = loads[k].pc
          /\ blocked.dep = loads[k].dep
          /\ blocked.visited = loads[k].visited \cup (IF k = root THEN {q} ELSE {})
      BY <2>1, <1>6, <1>9
    <3> QED BY <2>1, <3>1, <3>2, <1>6
  <2>2. CASE k # l
    BY <2>2, <1>7, <1>9
  <2> QED BY <2>1, <2>2
<1> QED BY <1>7, <1>8, <1>10 DEF WaitsFor, Remembers

LEMMA NextDependencySafe ==
    ASSUME PluginAssumption, ManagerInv, NEW l, l \in DOMAIN loads, NextDependency(l)
    PROVE  ManagerInv'
<1> DEFINE q == DependsOn[loads[l].plugin][loads[l].dep + 1]
           root == loads[l].root
           entry == IF loadedPlugins[q] # 0 THEN loadedPlugins[q] ELSE Len(loads) + 1
           waiting == [loads EXCEPT ![root].visited = @ \cup {q}, ![l].on = entry]
<1>1. ManagerTypeOK /\ loads[l] \in Activations /\ loads[l].on <= Len(loads)
      /\ Len(loads) \in Nat /\ DOMAIN loads = 1 .. Len(loads)
  BY LoadIsTyped, Lengths DEF ManagerInv, ManagerTypeOK
<1>2. UNCHANGED <<inbox, reply, registry, activations, activatedPlugins, task, failures, hasty, overlooked, unreadable>>
      /\ loads[l].pc = "dependencies" /\ loads[l].on = 0
  BY DEF NextDependency
<1>6. loads[l].dep + 1 \in Nat
  BY <1>1 DEF Activations
<1>7. /\ entry = IF loadedPlugins[q] # 0 THEN loadedPlugins[q] ELSE Len(loads) + 1
      /\ waiting = [loads EXCEPT ![root].visited = @ \cup {q}, ![l].on = entry]
      /\ root \in 1 .. l
  <2>1. root \in Nat \ {0} /\ root <= l
    BY <1>1 DEF ManagerTypeOK, Activations
  <2> QED BY <1>1, <2>1
<1>3. CASE loads' = [loads EXCEPT ![l].pc = "failed"] /\ UNCHANGED loadedPlugins
  <2> DEFINE r == [loads[l] EXCEPT !.pc = "failed"]
  <2>1. r \in Activations /\ r.root = loads[l].root /\ r.on <= Len(loads) /\ r.plugin = loads[l].plugin
        /\ r.pc = "failed"
    BY <1>1 DEF Activations
  <2>2. loads' = [loads EXCEPT ![l] = r]
    BY <1>3
  <2> HIDE DEF r
  <2>3. LoadsTypeOK' /\ DOMAIN loads' = DOMAIN loads /\ ActivationsKnown'
    <3>1. r.pc # "started" /\ (r.pc \in InProgress => loads[l].pc \in InProgress)
      BY <2>1 DEF InProgress
    <3>2. UNCHANGED <<registry, loadedPlugins, activatedPlugins, hasty>>
      BY <1>2, <1>3
    <3> QED BY <2>1, <2>2, <3>1, <3>2, LoadUpdated
  <2> QED BY <1>1, <1>2, <2>3 DEF ManagerInv, ManagerTypeOK, LoadsTypeOK
<1>4. CASE loads' = [loads EXCEPT ![l].dep = @ + 1] /\ UNCHANGED loadedPlugins
  <2> DEFINE r == [loads[l] EXCEPT !.dep = @ + 1]
  <2>1. r \in Activations /\ r.root = loads[l].root /\ r.on <= Len(loads) /\ r.plugin = loads[l].plugin
        /\ r.pc = "dependencies"
    <3> DEFINE a == loads[l]
    <3>1. a \in Activations /\ a.dep + 1 \in Nat
      BY <1>1, <1>6
    <3> HIDE DEF a
    <3>2. LET b == [a EXCEPT !.dep = @ + 1]
          IN  b \in Activations /\ b.root = a.root /\ b.on = a.on /\ b.plugin = a.plugin /\ b.pc = a.pc
      BY <3>1 DEF Activations
    <3> QED BY <1>1, <1>2, <3>2 DEF a
  <2>2. loads' = [loads EXCEPT ![l] = r]
    BY <1>4
  <2> HIDE DEF r
  <2>3. LoadsTypeOK' /\ DOMAIN loads' = DOMAIN loads /\ ActivationsKnown'
    BY <1>1, <1>2, <1>4, <2>1, <2>2, LoadUpdated DEF InProgress
  <2> QED BY <1>1, <1>2, <2>3 DEF ManagerInv, ManagerTypeOK, LoadsTypeOK
<1>8. loadedPlugins \in [Plugins -> 0 .. Len(loads)] /\ registry \subseteq Plugins
  BY <1>1 DEF ManagerTypeOK
<1>9. NextDependency(l) =>
         \/ loads' = [loads EXCEPT ![l].pc = "failed"] /\ UNCHANGED loadedPlugins
         \/ loads' = [loads EXCEPT ![l].dep = @ + 1] /\ UNCHANGED loadedPlugins
         \/ /\ q \in registry
            /\ loads' = IF loadedPlugins[q] # 0 THEN waiting ELSE Append(waiting, NewLoad(q, root))
            /\ loadedPlugins' = [loadedPlugins EXCEPT ![q] = entry]
  BY DEF NextDependency
<1> HIDE DEF q, root, entry, waiting
<1>5. CASE /\ q \in registry
           /\ loads' = IF loadedPlugins[q] # 0 THEN waiting ELSE Append(waiting, NewLoad(q, root))
           /\ loadedPlugins' = [loadedPlugins EXCEPT ![q] = entry]
  <2>1. q \in Plugins /\ root \in DOMAIN loads /\ root \in Nat /\ root # 0
        /\ loadedPlugins[q] \in 0 .. Len(loads) /\ entry \in Nat
    BY <1>1, <1>5, <1>7, <1>8
  <2>2. /\ waiting \in Seq(Activations) /\ Len(waiting) = Len(loads) /\ DOMAIN waiting = DOMAIN loads
        /\ \A k \in DOMAIN loads :
              /\ waiting[k].root = loads[k].root
              /\ waiting[k].plugin = loads[k].plugin
              /\ waiting[k].pc = loads[k].pc
              /\ waiting[k].on = IF k = l THEN entry ELSE loads[k].on
    <3>1. WaitsFor(l, entry, waiting)
      BY <1>1, <1>7, <2>1, WaitingFor
    <3> QED BY <3>1 DEF WaitsFor
  <2>3. \A k \in DOMAIN loads :
           /\ loads[k].root <= k /\ loads[k].on <= Len(loads) /\ loads[k].on \in Nat
           /\ loads[k].plugin \in Plugins
    BY <1>1, LoadIsTyped DEF ManagerTypeOK, Activations
  <2>4. CASE loadedPlugins[q] # 0
    <3>1. loads' = waiting /\ entry = loadedPlugins[q] /\ loadedPlugins' = loadedPlugins
      BY <1>5, <1>7, <1>8, <2>1, <2>4
    <3>2. LoadsTypeOK'
      <4>1. \A k \in DOMAIN loads : waiting[k].root <= k /\ waiting[k].on <= Len(loads)
        <5> TAKE k \in DOMAIN loads
        <5>1. waiting[k].root <= k
          BY <2>2, <2>3
        <5>2. waiting[k].on = IF k = l THEN entry ELSE loads[k].on
          BY <2>2
        <5>3. entry <= Len(loads)
          BY <2>1, <3>1, <1>1
        <5> QED BY <5>1, <5>2, <5>3, <2>3
      <4> QED BY <1>1, <1>2, <2>2, <3>1, <4>1 DEF ManagerTypeOK, LoadsTypeOK
    <3>3. ActivationsKnown'
      BY <1>2, <2>2, <3>1 DEF ManagerInv, ActivationsKnown
    <3> QED BY <1>1, <1>2, <2>2, <3>1, <3>2, <3>3 DEF ManagerInv, ManagerTypeOK, LoadsTypeOK
  <2>5. CASE loadedPlugins[q] = 0
    <3> DEFINE added == NewLoad(q, root)
    <3>1. loads' = Append(waiting, added) /\ entry = Len(loads) + 1
          /\ loadedPlugins' = [loadedPlugins EXCEPT ![q] = Len(loads) + 1]
      BY <1>5, <1>7, <2>5
    <3>2. added \in Activations /\ added.plugin = q /\ added.on = 0 /\ added.root = root
          /\ added.pc = "progress"
      BY <2>1 DEF NewLoad, Activations
    <3> HIDE DEF added
    <3>3. /\ loads' \in Seq(Activations) /\ Len(loads') = Len(loads) + 1
          /\ loads'[Len(loads) + 1] = added
          /\ \A k \in DOMAIN loads : loads'[k] = waiting[k]
      BY <1>1, <2>2, <3>1, <3>2, AppendProperties
    <3>4. DOMAIN loads' = 1 .. Len(loads) + 1
      BY <3>3, LenProperties
    <3>5. loadedPlugins' \in [Plugins -> 0 .. Len(loads')]
      BY <1>1, <2>1, <3>1, <3>3 DEF ManagerTypeOK
    <3>6. \A k \in DOMAIN loads' : loads'[k].root <= k /\ loads'[k].on <= Len(loads')
      <4> TAKE k \in DOMAIN loads'
      <4>1. CASE k \in DOMAIN loads
        <5>1. loads'[k].root <= k
          BY <4>1, <2>2, <2>3, <3>3
        <5>2. loads'[k].on = IF k = l THEN entry ELSE loads[k].on
          BY <4>1, <2>2, <3>3
        <5> QED BY <4>1, <5>1, <5>2, <1>1, <2>3, <3>1, <3>3
      <4>2. CASE k = Len(loads) + 1
        BY <4>2, <1>1, <2>1, <3>2, <3>3
      <4> QED BY <4>1, <4>2, <1>1, <3>4
    <3>7. LoadsTypeOK'
      BY <1>1, <1>2, <3>3, <3>5, <3>6 DEF ManagerTypeOK, LoadsTypeOK
    <3>8. ActivationsKnown'
      <4> SUFFICES ASSUME NEW k \in DOMAIN loads', loads'[k].plugin \notin hasty
                   PROVE  LET p == loads'[k].plugin
                          IN  /\ loads'[k].pc \in InProgress \cup {"started"} =>
                                     p \in registry /\ loadedPlugins'[p] = k
                              /\ loads'[k].pc = "started" => activatedPlugins[p] = k
        BY <1>2 DEF ActivationsKnown
      <4>1. CASE k \in DOMAIN loads
        <5>1. loads'[k].plugin = loads[k].plugin /\ loads'[k].pc = loads[k].pc
          BY <4>1, <2>2, <3>3
        <5>2. loadedPlugins[loads[k].plugin] = k => loadedPlugins'[loads[k].plugin] = k
          BY <4>1, <1>1, <2>3, <2>5, <3>1 DEF ManagerTypeOK
        <5> QED BY <4>1, <5>1, <5>2 DEF ManagerInv, ActivationsKnown
      <4>2. CASE k = Len(loads) + 1
        <5>1. loads'[k].plugin = q /\ loads'[k].pc = "progress"
          BY <4>2, <3>2, <3>3
        <5>2. loadedPlugins'[q] = k
          BY <4>2, <1>1, <2>1, <3>1 DEF ManagerTypeOK
        <5> QED BY <5>1, <5>2, <1>5
      <4> QED BY <4>1, <4>2, <1>1, <3>4
    <3>9. task'.on \subseteq DOMAIN loads'
      BY <1>1, <1>2, <3>4 DEF ManagerTypeOK
    <3> QED BY <1>1, <1>2, <3>7, <3>8, <3>9 DEF ManagerInv, ManagerTypeOK, LoadsTypeOK
  <2> QED BY <2>4, <2>5
<1> QED BY <1>3, <1>4, <1>5, <1>9

LEMMA HandleInitSafe ==
    ASSUME ManagerInv, HandleInit
    PROVE  ManagerInv'
<1>1. inbox' \in Seq(Calls)
  BY HeadTailProperties DEF ManagerInv, ManagerTypeOK, HandleInit
<1>2. UNCHANGED <<registry, activations, loads, loadedPlugins, activatedPlugins, task, failures,
                  hasty, overlooked, unreadable>>
  BY DEF HandleInit
<1> QED BY <1>1, <1>2 DEF ManagerInv, ManagerTypeOK, ActivationsKnown, HandleInit

LEMMA HandleStartSafe ==
    ASSUME ManagerInv, HandleStart
    PROVE  ManagerInv'
<1>1. inbox' \in Seq(Calls) /\ Head(inbox) \in Calls
  BY HeadTailProperties DEF ManagerInv, ManagerTypeOK, HandleStart
<1>2. Head(inbox).plugins \subseteq Plugins /\ Head(inbox).events \in Seq(Events)
  BY <1>1 DEF HandleStart, Calls
<1>3. task' \in Tasks /\ task'.on = {}
  BY <1>2 DEF HandleStart, Tasks
<1>4. UNCHANGED <<reply, registry, activations, loads, loadedPlugins, activatedPlugins, failures,
                  hasty, overlooked, unreadable>>
  BY DEF HandleStart
<1> QED BY <1>1, <1>3, <1>4 DEF ManagerInv, ManagerTypeOK, ActivationsKnown

LEMMA TaskChanged ==
    ASSUME ManagerTypeOK, NEW on, on \subseteq DOMAIN loads', LoadsTypeOK',
           NEW kind, kind \in {"none", "manifests", "events", "event"},
           NEW events, events \in Seq(Events),
           task' = [task EXCEPT !.kind = kind, !.events = events, !.on = on]
    PROVE  task' \in Tasks /\ task'.on \subseteq DOMAIN loads'
<1>1. DOMAIN loads' \subseteq Nat
  BY LenProperties DEF LoadsTypeOK
<1>2. task \in Tasks
  BY DEF ManagerTypeOK
<1> QED BY <1>1, <1>2 DEF Tasks

LEMMA WaitingTyped ==
    ASSUME ManagerTypeOK, NEW ps, ps \subseteq Plugins
    PROVE  Waiting(ps) \in [Events \cup {Eager} -> SUBSET Plugins]
BY DEF Waiting, ManagerTypeOK

LEMMA ManifestsReadSafe ==
    ASSUME PluginAssumption, ManagerInv, ManifestsRead
    PROVE  ManagerInv'
<1>1. ManagerTypeOK /\ task \in Tasks
  BY DEF ManagerInv, ManagerTypeOK
<1>2. PICK read \in SUBSET task.plugins :
        LET eager == Activate(Eager, Waiting(read), registry \cup read)
        IN  /\ failures' = failures + Cardinality(task.plugins \ read)
            /\ registry' = registry \cup read
            /\ unreadable' = (unreadable \cup task.plugins) \ read
            /\ activations' = eager.activations
            /\ loads' = eager.loads
            /\ loadedPlugins' = eager.loadedPlugins
            /\ task' = [task EXCEPT !.kind = "events", !.on = eager.on]
  BY DEF ManifestsRead
<1>3. UNCHANGED <<inbox, reply, activatedPlugins, hasty, overlooked>>
  BY DEF ManifestsRead
<1> DEFINE waiting == Waiting(read)
           next == Activate(Eager, waiting, registry \cup read)
<1>4. task.plugins \subseteq Plugins /\ read \subseteq Plugins /\ registry \subseteq Plugins
  BY <1>1 DEF Tasks, ManagerTypeOK
<1>5. registry \subseteq registry' /\ registry' \subseteq Plugins /\ unreadable' \subseteq Plugins
  BY <1>1, <1>2, <1>4 DEF ManagerTypeOK
<1>6. waiting \in [Events \cup {Eager} -> SUBSET Plugins]
  BY <1>1, <1>4, WaitingTyped
<1>7. failures' \in Nat
  <2>1. IsFiniteSet(task.plugins \ read)
    BY <1>4, FS_Subset DEF PluginAssumption
  <2>2. Cardinality(task.plugins \ read) \in Nat
    BY <2>1, FS_CardinalityType
  <2> QED BY <2>2, <1>1, <1>2 DEF ManagerTypeOK
<1>8. /\ activations' = next.activations /\ loads' = next.loads
      /\ loadedPlugins' = next.loadedPlugins
      /\ task' = [task EXCEPT !.kind = "events", !.events = task.events, !.on = next.on]
  <2>1. /\ activations' = next.activations /\ loads' = next.loads
        /\ loadedPlugins' = next.loadedPlugins
        /\ task' = [task EXCEPT !.kind = "events", !.on = next.on]
    BY <1>2
  <2>2. ASSUME NEW on PROVE [task EXCEPT !.kind = "events", !.on = on]
                               = [task EXCEPT !.kind = "events", !.events = task.events, !.on = on]
    BY <1>1 DEF Tasks
  <2> HIDE DEF waiting, next
  <2> QED BY <2>1, <2>2
<1>9. next = Activate(Eager, waiting, registry')
  BY <1>2
<1> HIDE DEF waiting, next
<1>10. /\ next.activations \in [Events \cup {Eager} -> SUBSET Plugins]
       /\ LoadsTypeOK'
       /\ next.on \subseteq DOMAIN loads'
       /\ DOMAIN loads \subseteq DOMAIN loads'
       /\ ActivationsKnown'
  BY <1>3, <1>5, <1>6, <1>8, <1>9, Activated
<1>11. task' \in Tasks /\ task'.on \subseteq DOMAIN loads'
  <2>1. task.events \in Seq(Events)
    BY <1>1 DEF Tasks
  <2> QED BY <2>1, <1>1, <1>8, <1>10, TaskChanged
<1> QED BY <1>1, <1>3, <1>5, <1>7, <1>8, <1>10, <1>11 DEF ManagerInv, ManagerTypeOK, LoadsTypeOK

LEMMA NextEventSafe ==
    ASSUME PluginAssumption, ManagerInv, NextEvent
    PROVE  ManagerInv'
<1> DEFINE e == Head(task.events)
           next == Activate(e, activations, registry)
<1>1. ManagerTypeOK /\ task \in Tasks /\ task.events \in Seq(Events)
  BY DEF ManagerInv, ManagerTypeOK, Tasks
<1>2. UNCHANGED <<inbox, registry, activatedPlugins, failures, hasty, unreadable>>
  BY DEF NextEvent
<1>3. CASE task.events = <<>>
  <2>1. task' = Idle /\ reply' = "start" /\ UNCHANGED <<activations, loads, loadedPlugins, overlooked>>
    BY <1>3 DEF NextEvent
  <2>2. Idle \in Tasks /\ Idle.on = {}
    BY DEF Idle, Tasks
  <2> QED BY <1>1, <1>2, <2>1, <2>2 DEF ManagerInv, ManagerTypeOK, ActivationsKnown
<1>4. CASE task.events # <<>>
  <2>1. e \in Events /\ Tail(task.events) \in Seq(Events)
    BY <1>1, <1>4, HeadTailProperties
  <2>2. /\ activations' = next.activations /\ loads' = next.loads
        /\ loadedPlugins' = next.loadedPlugins
        /\ task' = [task EXCEPT !.events = Tail(@), !.on = next.on]
        /\ overlooked' = overlooked \ {e} /\ UNCHANGED reply
    BY <1>4 DEF NextEvent
  <2>3. next = Activate(e, activations, registry')
    BY <1>2
  <2> HIDE DEF next, e
  <2>4. task' = [task EXCEPT !.kind = task.kind, !.events = Tail(task.events), !.on = next.on]
        /\ task.kind \in {"none", "manifests", "events", "event"}
    BY <1>1, <2>2 DEF Tasks
  <2>5. /\ next.activations \in [Events \cup {Eager} -> SUBSET Plugins]
        /\ LoadsTypeOK'
        /\ next.on \subseteq DOMAIN loads'
        /\ DOMAIN loads \subseteq DOMAIN loads'
        /\ ActivationsKnown'
    BY <1>1, <1>2, <2>1, <2>2, <2>3, Activated DEF ManagerTypeOK
  <2>6. task' \in Tasks /\ task'.on \subseteq DOMAIN loads'
    BY <1>1, <2>1, <2>4, <2>5, TaskChanged
  <2> QED BY <1>1, <1>2, <2>2, <2>5, <2>6 DEF ManagerInv, ManagerTypeOK, LoadsTypeOK
<1> QED BY <1>3, <1>4

LEMMA HandleEventSafe ==
    ASSUME PluginAssumption, ManagerInv, HandleEvent
    PROVE  ManagerInv'
<1> DEFINE e == Head(inbox).event
           next == Activate(e, activations, registry)
<1>1. ManagerTypeOK /\ task \in Tasks
  BY DEF ManagerInv, ManagerTypeOK
<1>2. inbox' \in Seq(Calls) /\ Head(inbox) \in Calls
  BY <1>1, HeadTailProperties DEF ManagerTypeOK, HandleEvent
<1>3. e \in Events
  BY <1>2 DEF HandleEvent, Calls
<1>4. /\ activations' = next.activations /\ loads' = next.loads
      /\ loadedPlugins' = next.loadedPlugins
      /\ \/ task' = [kind |-> "event", plugins |-> {}, events |-> <<>>, on |-> next.on]
         \/ task' = task
      /\ overlooked' \in {overlooked, overlooked \cup {e}}
      /\ UNCHANGED <<reply, registry, activatedPlugins, failures, hasty, unreadable>>
  BY DEF HandleEvent
<1>5. next = Activate(e, activations, registry')
  BY <1>4
<1> HIDE DEF next, e
<1>6. /\ next.activations \in [Events \cup {Eager} -> SUBSET Plugins]
      /\ LoadsTypeOK'
      /\ next.on \subseteq DOMAIN loads'
      /\ DOMAIN loads \subseteq DOMAIN loads'
      /\ ActivationsKnown'
  BY <1>1, <1>3, <1>4, <1>5, Activated DEF ManagerTypeOK
<1>7. task' \in Tasks /\ task'.on \subseteq DOMAIN loads'
  <2>1. DOMAIN loads' \subseteq Nat
    BY <1>6, LenProperties DEF LoadsTypeOK
  <2>2. CASE task' = task
    BY <2>2, <1>1, <1>6 DEF ManagerTypeOK
  <2>3. CASE task' = [kind |-> "event", plugins |-> {}, events |-> <<>>, on |-> next.on]
    BY <2>1, <2>3, <1>6 DEF Tasks
  <2> QED BY <2>2, <2>3, <1>4
<1>8. overlooked' \subseteq Events
  BY <1>1, <1>3, <1>4 DEF ManagerTypeOK
<1> QED BY <1>1, <1>2, <1>4, <1>6, <1>7, <1>8 DEF ManagerInv, ManagerTypeOK, LoadsTypeOK

LEMMA EventDoneSafe ==
    ASSUME ManagerInv, EventDone
    PROVE  ManagerInv'
<1>1. Idle \in Tasks /\ Idle.on = {}
  BY DEF Idle, Tasks
<1> QED BY <1>1 DEF ManagerInv, ManagerTypeOK, ActivationsKnown, EventDone

LEMMA RejectStartSafe ==
    ASSUME ManagerInv, RejectStart
    PROVE  ManagerInv'
<1>1. Idle \in Tasks /\ Idle.on = {}
  BY DEF Idle, Tasks
<1> QED BY <1>1 DEF ManagerInv, ManagerTypeOK, ActivationsKnown, RejectStart

LEMMA HandleStopSafe ==
    ASSUME ManagerInv, HandleStop
    PROVE  ManagerInv'
<1> DEFINE p == Head(inbox).plugin
           l == activatedPlugins[p]
<1>1. /\ ManagerTypeOK /\ loads \in Seq(Activations) /\ Len(loads) \in Nat /\ DOMAIN loads = 1 .. Len(loads)
      /\ loadedPlugins \in [Plugins -> 0 .. Len(loads)] /\ activatedPlugins \in [Plugins -> 0 .. Len(loads)]
      /\ \A k \in DOMAIN loads : loads[k] \in Activations /\ loads[k].root <= k /\ loads[k].on <= Len(loads)
  BY Lengths, LoadIsTyped DEF ManagerInv, ManagerTypeOK
<1>2. inbox' \in Seq(Calls) /\ Head(inbox) \in Calls
  BY <1>1, HeadTailProperties DEF ManagerTypeOK, HandleStop
<1>3. p \in Plugins
  BY <1>2 DEF HandleStop, Calls
<1>4. /\ registry' = registry \ {p}
      /\ loadedPlugins' = [loadedPlugins EXCEPT ![p] = 0]
      /\ activatedPlugins' = [activatedPlugins EXCEPT ![p] = 0]
      /\ loads' = IF l = 0 THEN loads ELSE [loads EXCEPT ![l].pc = "stopped"]
      /\ hasty' = IF loadedPlugins[p] # 0 /\ ~Done(loadedPlugins[p]) THEN hasty \cup {p} ELSE hasty
      /\ UNCHANGED <<reply, activations, task, failures, overlooked, unreadable>>
  BY DEF HandleStop
<1>0. l = activatedPlugins[p]
  OBVIOUS
<1> HIDE DEF p, l
<1>5. /\ loads' \in Seq(Activations) /\ Len(loads') = Len(loads) /\ DOMAIN loads' = DOMAIN loads
      /\ \A k \in DOMAIN loads : /\ loads'[k].plugin = loads[k].plugin
                               /\ loads'[k].root = loads[k].root /\ loads'[k].on = loads[k].on
                               /\ loads'[k].pc = IF k = l THEN "stopped" ELSE loads[k].pc
  <2>1. CASE l = 0
    BY <2>1, <1>1, <1>4
  <2>2. CASE l # 0
    <3> DEFINE r == [loads[l] EXCEPT !.pc = "stopped"]
               s == [loads EXCEPT ![l] = r]
    <3>1. l \in 1 .. Len(loads)
      BY <2>2, <1>0, <1>1, <1>3
    <3>2. /\ r \in Activations /\ r.root = loads[l].root /\ r.on = loads[l].on
          /\ r.plugin = loads[l].plugin /\ r.pc = "stopped"
      BY <3>1, <1>1 DEF Activations
    <3>3. loads' = s
      BY <2>2, <1>4
    <3> HIDE DEF r
    <3>4. /\ s \in Seq(Activations) /\ Len(s) = Len(loads)
          /\ \A k \in 1 .. Len(loads) : s[k] = IF k = l THEN r ELSE loads[k]
      BY <3>1, <3>2, <1>1, ExceptSeq
    <3> HIDE DEF s
    <3>5. DOMAIN s = DOMAIN loads
      BY <3>4, <1>1, LenProperties
    <3> QED BY <3>2, <3>3, <3>4, <3>5, <1>1
  <2> QED BY <2>1, <2>2
<1>6. ManagerTypeOK'
  <2>1. loadedPlugins' \in [Plugins -> 0 .. Len(loads')] /\ activatedPlugins' \in [Plugins -> 0 .. Len(loads')]
    <3>1. 0 \in 0 .. Len(loads) /\ Len(loads') = Len(loads)
      BY <1>1, <1>5
    <3>2. loadedPlugins' \in [Plugins -> 0 .. Len(loads)]
      BY <3>1, <1>1, <1>4
    <3>3. activatedPlugins' \in [Plugins -> 0 .. Len(loads)]
      BY <3>1, <1>1, <1>4
    <3> QED BY <3>1, <3>2, <3>3
  <2>2. hasty' \subseteq Plugins /\ registry' \subseteq Plugins /\ unreadable' \subseteq Plugins
    BY <1>1, <1>3, <1>4 DEF ManagerTypeOK
  <2> QED BY <2>1, <2>2, <1>1, <1>2, <1>4, <1>5 DEF ManagerTypeOK
<1>7. ActivationsKnown'
  <2> SUFFICES ASSUME NEW k \in DOMAIN loads, loads'[k].plugin \notin hasty'
               PROVE  LET q == loads'[k].plugin
                      IN  /\ loads'[k].pc \in InProgress \cup {"started"} =>
                                 q \in registry' /\ loadedPlugins'[q] = k
                          /\ loads'[k].pc = "started" => activatedPlugins'[q] = k
    BY <1>5 DEF ActivationsKnown
  <2>1. /\ loads'[k].plugin = loads[k].plugin /\ loads[k].plugin \in Plugins
        /\ loads'[k].pc = IF k = l THEN "stopped" ELSE loads[k].pc
        /\ loads[k].plugin \notin hasty
    <3>1. loads[k] \in Activations
      BY <1>1
    <3>2. loads[k].plugin \in Plugins
      BY <3>1 DEF Activations
    <3>3. hasty \subseteq hasty'
      BY <1>4
    <3> QED BY <1>5, <3>2, <3>3
  <2>2. /\ loads[k].pc \in InProgress \cup {"started"} =>
                loads[k].plugin \in registry /\ loadedPlugins[loads[k].plugin] = k
        /\ loads[k].pc = "started" => activatedPlugins[loads[k].plugin] = k
    BY <2>1 DEF ManagerInv, ActivationsKnown
  <2>3. CASE loads[k].plugin # p
    <3>1. /\ loadedPlugins'[loads[k].plugin] = loadedPlugins[loads[k].plugin]
          /\ activatedPlugins'[loads[k].plugin] = activatedPlugins[loads[k].plugin]
          /\ loads[k].plugin \in registry => loads[k].plugin \in registry'
      BY <2>1, <2>3, <1>1, <1>4
    <3>2. loads'[k].pc \in InProgress \cup {"started"} => loads[k].pc = loads'[k].pc
      BY <2>1 DEF InProgress
    <3> QED BY <2>1, <2>2, <3>1, <3>2 DEF InProgress
  <2>4. CASE loads[k].plugin = p
    <3>1. loads[k].pc \notin InProgress
      <4> SUFFICES ASSUME loads[k].pc \in InProgress PROVE FALSE
        OBVIOUS
      <4>1. loadedPlugins[p] = k /\ k # 0
        BY <2>2, <2>4, <1>1
      <4>2. ~Done(k)
        BY DEF Done, InProgress
      <4>3. p \in hasty'
        BY <4>1, <4>2, <1>4
      <4> QED BY <4>3, <2>1, <2>4
    <3>2. loads'[k].pc # "started"
      BY <2>1, <2>2, <2>4, <1>0
    <3>3. loads'[k].pc \notin InProgress
      BY <3>1, <2>1 DEF InProgress
    <3> QED BY <3>2, <3>3 DEF InProgress
  <2> QED BY <2>3, <2>4
<1> QED BY <1>6, <1>7 DEF ManagerInv

LEMMA ManagerSafe ==
    ASSUME PluginAssumption, ManagerInv, ManagerStep
    PROVE  ManagerInv'
<1>1. DOMAIN loads = 1 .. Len(loads)
  BY Lengths DEF ManagerInv
<1>2. ASSUME NEW l \in 1 .. Len(loads), \/ ProgressShown(l) \/ ProgressFails(l) \/ NextDependency(l)
                                        \/ DependencyLoaded(l) \/ CallStart(l) \/ StartReturns(l)
                                        \/ StartThrows(l)
      PROVE  ManagerInv'
  BY <1>1, <1>2, ProgressShownSafe, ProgressFailsSafe, NextDependencySafe, DependencyLoadedSafe, CallStartSafe,
     StartReturnsSafe, StartThrowsSafe
<1> QED BY <1>2, HandleInitSafe, HandleStartSafe, ManifestsReadSafe, NextEventSafe, HandleEventSafe,
           EventDoneSafe, RejectStartSafe, HandleStopSafe DEF ManagerStep

-----------------------------------------------------------------------------
(* Steps of the front end and of its surroundings *)

LEMMA ManagerKept ==
    ASSUME ManagerInv, inbox' \in Seq(Calls), reply' \in {"none", reply}, failures' \in Nat,
           UNCHANGED hostVars
    PROVE  ManagerInv'
BY DEF ManagerInv, ManagerTypeOK, ActivationsKnown, hostVars

LEMMA Posted ==
    ASSUME ManagerInv, NEW calls, calls \in Seq(Calls), Post(calls)
    PROVE  inbox' \in Seq(Calls)
BY ConcatProperties DEF ManagerInv, ManagerTypeOK, Post

LEMMA PostedOne ==
    ASSUME ManagerInv, NEW call, call \in Calls, Post(<<call>>)
    PROVE  inbox' \in Seq(Calls)
<1>1. <<call>> \in Seq(Calls)
  OBVIOUS
<1> QED BY <1>1, Posted

LEMMA ManagerEnded ==
    ASSUME ManagerInv, Ended, reply' \in {"none", reply}, failures' \in Nat
    PROVE  ManagerInv'
<1>1. inbox' \in Seq(Calls) /\ loads' \in Seq(Activations) /\ Len(loads') = 0 /\ DOMAIN loads' = {}
  BY DEF Ended
<1>2. Idle \in Tasks /\ Idle.on = {}
  BY DEF Idle, Tasks
<1>3. ManagerTypeOK'
  BY <1>1, <1>2 DEF ManagerInv, ManagerTypeOK, Ended
<1>4. ActivationsKnown'
  BY <1>1 DEF ActivationsKnown
<1> QED BY <1>3, <1>4 DEF ManagerInv

LEMMA InitSafe ==
    ASSUME PluginAssumption, DeployAssumption, Init
    PROVE  PluginInv
<1>1. Idle \in Tasks /\ Idle.on = {}
  BY DEF Idle, Tasks
<1>2. ManagerTypeOK
  BY <1>1 DEF Init, Fresh, ManagerTypeOK
<1>3. ActivationsKnown
  BY DEF Init, Fresh, ActivationsKnown
<1>4. FrontTypeOK
  <2>1. <<>> \in Seq(Events) /\ NoLoad \in [pc : {"none"}, connected : BOOLEAN, plugins : SUBSET Plugins]
    BY DEF NoLoad
  <2>2. contributions \in [Plugins -> {"absent"}]
    BY DEF Init
  <2> QED BY <2>1, <2>2 DEF Init, FrontTypeOK, DeployAssumption
<1> QED BY <1>2, <1>3, <1>4 DEF PluginInv, TypeOK

LEMMA Raised ==
    ASSUME ManagerInv, FrontTypeOK, NEW e, e \in Events, Raise(e)
    PROVE  inbox' \in Seq(Calls) /\ activationEvents' \in Seq(Events)
<1>1. activationEvents' \in Seq(Events)
  BY AppendProperties DEF FrontTypeOK, Raise
<1>2. CASE manager
  <2>1. [call |-> "event", event |-> e] \in Calls
    BY DEF Calls
  <2>2. Post(<<[call |-> "event", event |-> e]>>)
    BY <1>2 DEF Raise
  <2> QED BY <2>1, <2>2, <1>1, PostedOne
<1>3. CASE ~manager
  BY <1>1, <1>3 DEF Raise, ManagerInv, ManagerTypeOK
<1> QED BY <1>2, <1>3

LEMMA StartFinished ==
    ASSUME PluginAssumption, ManagerInv, FrontTypeOK, FinishStart
    PROVE  /\ inbox' \in Seq(Calls) /\ activationEvents' \in Seq(Events)
           /\ load' \in {NoLoad, Await("finished")}
<1>1. CASE StartupFinished \in ToSet(activationEvents)
  BY <1>1 DEF FinishStart, ManagerInv, ManagerTypeOK, FrontTypeOK
<1>2. CASE StartupFinished \notin ToSet(activationEvents)
  <2>1. Raise(StartupFinished) /\ load' \in {NoLoad, Await("finished")}
    BY <1>2 DEF FinishStart
  <2> QED BY <2>1, Raised DEF PluginAssumption
<1> QED BY <1>1, <1>2

LEMMA StartPosted ==
    ASSUME ManagerInv, FrontTypeOK, Post(<<StartCall>>)
    PROVE  inbox' \in Seq(Calls)
<1>1. StartCall \in Calls
  BY DEF StartCall, Calls, FrontTypeOK
<1> QED BY <1>1, PostedOne

LEMMA IdsReceivedSafe ==
    ASSUME PluginAssumption, ManagerInv, FrontTypeOK, IdsReceived
    PROVE  ManagerInv' /\ FrontTypeOK'
<1> DEFINE gone == Known \ deployed
           new  == deployed \ Known
           stop == SetToSeq(ToStop(gone))
           calls == [i \in 1 .. Len(stop) |-> [call |-> "stop", plugin |-> stop[i]]]
<1>1. ToStop(gone) \subseteq Plugins /\ IsFiniteSet(ToStop(gone))
  BY FS_Subset DEF ToStop, Known, PluginAssumption
<1>2. stop \in Seq(Plugins)
  <2>1. stop \in Seq(ToStop(gone))
    BY <1>1, SetToSeqEnumerates
  <2> HIDE DEF stop
  <2> QED BY <1>1, <2>1, SeqMonotonic
<1>3. Post(calls)
  BY DEF IdsReceived
<1>4. UNCHANGED <<reply, failures, hostVars>>
  BY DEF IdsReceived
<1>5. FrontTypeOK'
  <2>1. contributions' \in [Plugins -> {"absent", "initializing", "loaded", "starting", "started"}]
    BY DEF IdsReceived, FrontTypeOK
  <2>2. load' \in [pc : {"layout", "plugins"}, connected : BOOLEAN, plugins : SUBSET Plugins]
    <3>1. new \subseteq Plugins
      BY DEF FrontTypeOK
    <3>2. load' = IF new = {} THEN Await("layout") ELSE [Await("plugins") EXCEPT !.plugins = new]
      BY DEF IdsReceived
    <3> HIDE DEF new
    <3> QED BY <3>1, <3>2 DEF FrontTypeOK, Await
  <2>3. /\ running' \in BOOLEAN /\ resets' \subseteq Plugins
        /\ stranded' \subseteq Plugins /\ forgotten' \subseteq Plugins
    BY DEF IdsReceived, FrontTypeOK, Known
  <2> QED BY <2>1, <2>2, <2>3 DEF IdsReceived, FrontTypeOK
<1> HIDE DEF stop
<1>6. calls \in Seq(Calls)
  <2>1. Len(stop) \in Nat /\ \A i \in 1 .. Len(stop) : stop[i] \in Plugins
    BY <1>2, LenProperties, ElementOfSeq
  <2>2. \A i \in 1 .. Len(stop) : [call |-> "stop", plugin |-> stop[i]] \in Calls
    BY <2>1 DEF Calls
  <2> QED BY <2>1, <2>2
<1> HIDE DEF calls
<1>7. inbox' \in Seq(Calls)
  BY <1>3, <1>6, Posted
<1>8. ManagerInv'
  BY <1>4, <1>7, ManagerKept DEF ManagerInv, ManagerTypeOK
<1> QED BY <1>5, <1>8

\* Steps that leave the plug-in host alone.

LEMMA DebounceTimerTyped ==
    ASSUME FrontTypeOK, DebounceTimer
    PROVE  FrontTypeOK'
BY DEF DebounceTimer, FrontTypeOK, backVars, history

LEMMA LoadBeginsTyped ==
    ASSUME FrontTypeOK, LoadBegins
    PROVE  FrontTypeOK'
<1>1. load' \in [pc : {"ids"}, connected : BOOLEAN, plugins : SUBSET Plugins]
  BY DEF LoadBegins
<1>2. loadQueue' \in Nat
  BY DEF LoadBegins, FrontTypeOK
<1> QED BY <1>1, <1>2 DEF LoadBegins, FrontTypeOK, backVars, history

LEMMA PluginsReceivedTyped ==
    ASSUME FrontTypeOK, PluginsReceived
    PROVE  FrontTypeOK'
<1>1. contributions' \in [Plugins -> {"absent", "initializing", "loaded", "starting", "started"}]
  BY DEF PluginsReceived, FrontTypeOK
<1>2. load' \in [pc : {"layout"}, connected : BOOLEAN, plugins : SUBSET Plugins]
  BY DEF PluginsReceived, FrontTypeOK, Await
<1> QED BY <1>1, <1>2 DEF PluginsReceived, FrontTypeOK, backVars, history

LEMMA LayoutReadyTyped ==
    ASSUME FrontTypeOK, LayoutReady
    PROVE  FrontTypeOK'
<1>1. contributions' \in [Plugins -> {"absent", "initializing", "loaded", "starting", "started"}]
  BY DEF LayoutReady, FrontTypeOK
<1>2. load' \in [pc : {"none", "widgets"}, connected : BOOLEAN, plugins : SUBSET Plugins]
  <2> DEFINE toStart == {p \in Plugins : contributions[p] \in {"initializing", "loaded"}}
  <2>1. load' = NoLoad \/ load' = [Await("widgets") EXCEPT !.plugins = toStart]
    BY DEF LayoutReady
  <2>2. toStart \subseteq Plugins
    OBVIOUS
  <2> HIDE DEF toStart
  <2>3. NoLoad \in [pc : {"none", "widgets"}, connected : BOOLEAN, plugins : SUBSET Plugins]
    BY DEF NoLoad
  <2>4. [Await("widgets") EXCEPT !.plugins = toStart]
            \in [pc : {"none", "widgets"}, connected : BOOLEAN, plugins : SUBSET Plugins]
    BY <2>2 DEF FrontTypeOK, Await
  <2> QED BY <2>1, <2>3, <2>4
<1>3. resets' \subseteq Plugins
  BY DEF LayoutReady, FrontTypeOK
<1> QED BY <1>1, <1>2, <1>3 DEF LayoutReady, FrontTypeOK, backVars, history

LEMMA WidgetsReadyTyped ==
    ASSUME FrontTypeOK, WidgetsReady
    PROVE  FrontTypeOK'
<1>1. load' \in [pc : {"none", "paths"}, connected : BOOLEAN, plugins : SUBSET Plugins]
  BY DEF WidgetsReady, FrontTypeOK, Await, NoLoad
<1> QED BY <1>1 DEF WidgetsReady, FrontTypeOK, backVars, history

LEMMA NoticeTyped ==
    ASSUME FrontTypeOK, Notice
    PROVE  FrontTypeOK'
BY DEF Notice, Load, FrontTypeOK, history

LEMMA DeployTyped ==
    ASSUME DeployAssumption, FrontTypeOK, Deploy
    PROVE  FrontTypeOK'
<1>1. deployed' \subseteq Plugins
  BY DEF Deploy, FrontTypeOK, DeployAssumption
<1>2. deploys' \in Nat /\ notices' \in Nat
  BY DEF Deploy, FrontTypeOK
<1> QED BY <1>1, <1>2 DEF Deploy, FrontTypeOK, frontVars, history

LEMMA ConnectTyped ==
    ASSUME FrontTypeOK, Connect
    PROVE  FrontTypeOK'
BY DEF Connect, Load, FrontTypeOK, history

LEMMA LocalSafe ==
    ASSUME PluginAssumption, DeployAssumption, ManagerInv, FrontTypeOK,
           \/ DebounceTimer \/ LoadBegins \/ PluginsReceived \/ LayoutReady \/ WidgetsReady
           \/ Notice \/ Deploy \/ Connect
    PROVE  ManagerInv' /\ FrontTypeOK'
<1>1. UNCHANGED managerVars
  BY DEF DebounceTimer, LoadBegins, PluginsReceived, LayoutReady, WidgetsReady, Notice, Deploy, Connect
<1>2. ManagerInv'
  BY <1>1, ManagerKept DEF managerVars, ManagerInv, ManagerTypeOK
<1> QED BY <1>2, DebounceTimerTyped, LoadBeginsTyped, PluginsReceivedTyped, LayoutReadyTyped,
           WidgetsReadyTyped, NoticeTyped, DeployTyped, ConnectTyped

\* Steps that call the plug-in host or take its answers.
LEMMA CallingSafe ==
    ASSUME PluginAssumption, ManagerInv, FrontTypeOK,
           \/ PathsReceived \/ InfoReceived \/ InitReplied \/ StartReplied \/ StartFailed
           \/ FinishedReplied \/ \E e \in Events : RaiseEvent(e)
    PROVE  ManagerInv' /\ FrontTypeOK'
<1>1. UNCHANGED <<hostVars, failures, backVars, resets, debounced, loadQueue>>
      /\ reply' \in {"none", reply}
  BY DEF PathsReceived, InfoReceived, InitReplied, StartReplied, StartFailed, FinishedReplied,
         RaiseEvent
<1>2. /\ inbox' \in Seq(Calls) /\ activationEvents' \in Seq(Events)
      /\ load' \in [pc : {"none", "ids", "plugins", "layout", "widgets", "paths", "info", "init",
                          "start", "finished"},
                    connected : BOOLEAN, plugins : SUBSET Plugins]
      /\ contributions' \in [Plugins -> {"absent", "initializing", "loaded", "starting", "started"}]
      /\ manager' \in BOOLEAN
  <2>1. /\ inbox \in Seq(Calls) /\ activationEvents \in Seq(Events) /\ manager \in BOOLEAN
        /\ contributions \in [Plugins -> {"absent", "initializing", "loaded", "starting", "started"}]
    BY DEF ManagerInv, ManagerTypeOK, FrontTypeOK
  <2>2. ASSUME NEW pc \in {"paths", "info", "init", "start", "finished"}
        PROVE  Await(pc) \in [pc : {"none", "ids", "plugins", "layout", "widgets", "paths", "info",
                                    "init", "start", "finished"},
                              connected : BOOLEAN, plugins : SUBSET Plugins]
    BY DEF FrontTypeOK, Await
  <2>3. NoLoad \in [pc : {"none", "ids", "plugins", "layout", "widgets", "paths", "info",
                          "init", "start", "finished"},
                    connected : BOOLEAN, plugins : SUBSET Plugins]
    BY DEF NoLoad
  <2>4. CASE PathsReceived
    <3>1. CASE FinishStart /\ UNCHANGED manager
      BY <2>1, <2>2, <2>3, <2>4, <3>1, StartFinished DEF PathsReceived
    <3>2. CASE Post(<<StartCall>>) /\ load' = Await("start") /\ UNCHANGED <<activationEvents, manager>>
      BY <2>1, <2>2, <2>4, <3>2, StartPosted DEF PathsReceived
    <3>3. CASE manager' = TRUE /\ load' = Await("info") /\ UNCHANGED <<inbox, activationEvents>>
      BY <2>1, <2>2, <2>4, <3>3 DEF PathsReceived
    <3> QED BY <2>4, <3>1, <3>2, <3>3 DEF PathsReceived
  <2>5. CASE InfoReceived
    <3>1. [call |-> "init"] \in Calls
      BY DEF Calls
    <3>2. Post(<<[call |-> "init"]>>)
      BY <2>5 DEF InfoReceived
    <3>3. inbox' \in Seq(Calls)
      BY <3>1, <3>2, PostedOne
    <3> QED BY <2>1, <2>2, <2>5, <3>3 DEF InfoReceived
  <2>6. CASE InitReplied
    BY <2>1, <2>2, <2>6, StartPosted DEF InitReplied
  <2>7. CASE StartReplied
    <3>1. contributions' \in [Plugins -> {"absent", "initializing", "loaded", "starting", "started"}]
      BY <2>1, <2>7 DEF StartReplied
    <3> QED BY <2>1, <2>2, <2>3, <2>7, <3>1, StartFinished DEF StartReplied
  <2>8. CASE FinishedReplied
    BY <2>1, <2>3, <2>8 DEF FinishedReplied
  <2>9. CASE \E e \in Events : RaiseEvent(e)
    <3>1. PICK e \in Events : RaiseEvent(e)
      BY <2>9
    <3>2. inbox' \in Seq(Calls) /\ activationEvents' \in Seq(Events)
      BY <3>1, Raised DEF RaiseEvent
    <3> QED BY <2>1, <3>1, <3>2 DEF RaiseEvent, FrontTypeOK
  <2>10. CASE StartFailed
    BY <2>1, <2>2, <2>3, <2>10, StartFinished DEF StartFailed
  <2> QED BY <2>4, <2>5, <2>6, <2>7, <2>8, <2>9, <2>10
<1>3. ManagerInv'
  BY <1>1, <1>2, ManagerKept DEF ManagerInv, ManagerTypeOK
<1>0. stranded' \subseteq Plugins /\ forgotten' \subseteq Plugins
  BY DEF PathsReceived, InfoReceived, InitReplied, StartReplied, StartFailed, FinishedReplied, RaiseEvent,
         history, FrontTypeOK, Unsettled
<1>4. FrontTypeOK'
  BY <1>0, <1>1, <1>2 DEF FrontTypeOK, backVars
<1> QED BY <1>3, <1>4

\* Something fails.
LEMMA LoadFailsSafe ==
    ASSUME ManagerInv, FrontTypeOK, LoadFails
    PROVE  ManagerInv' /\ FrontTypeOK'
<1>1. ManagerInv'
  <2>1. inbox' = inbox /\ reply' \in {"none", reply} /\ failures' = failures + 1 /\ UNCHANGED hostVars
    BY DEF LoadFails
  <2>2. inbox \in Seq(Calls) /\ failures \in Nat
    BY DEF ManagerInv, ManagerTypeOK
  <2> QED BY <2>1, <2>2, ManagerKept
<1>2. load' \in [pc : {"none"}, connected : BOOLEAN, plugins : SUBSET Plugins]
  BY DEF LoadFails, NoLoad
<1>3. stranded' \subseteq Plugins
  BY DEF LoadFails, FrontTypeOK, Unsettled
<1> QED BY <1>1, <1>2, <1>3 DEF LoadFails, FrontTypeOK, backVars

LEMMA HostCrashesSafe ==
    ASSUME ManagerInv, FrontTypeOK, HostCrashes
    PROVE  ManagerInv' /\ FrontTypeOK'
<1>1. ManagerInv'
  <2>1. failures' \in Nat
    BY DEF HostCrashes, ManagerInv, ManagerTypeOK
  <2> QED BY <2>1, ManagerEnded DEF HostCrashes
<1> QED BY <1>1 DEF HostCrashes, FrontTypeOK, frontVars, history

LEMMA DisconnectSafe ==
    ASSUME PluginAssumption, ManagerInv, FrontTypeOK, Disconnect
    PROVE  ManagerInv' /\ FrontTypeOK'
<1>1. ManagerInv'
  BY ManagerEnded DEF Disconnect, Replaced, ManagerInv, ManagerTypeOK
<1>2. contributions' \in [Plugins -> {"absent", "initializing", "loaded", "starting", "started"}]
  BY DEF Disconnect, FrontTypeOK
<1>3. load' \in [pc : {"none", "layout", "widgets"}, connected : BOOLEAN, plugins : SUBSET Plugins]
  <2>1. CASE load.pc \in {"layout", "widgets"}
    BY <2>1 DEF Disconnect, FrontTypeOK
  <2>2. CASE load.pc \notin {"layout", "widgets"}
    BY <2>2 DEF Disconnect, NoLoad
  <2> QED BY <2>1, <2>2
<1>4. activationEvents' \in Seq(Events)
  <2>1. activationEvents \in Seq(Events) /\ StartupFinished \in Events
    BY DEF FrontTypeOK, PluginAssumption
  <2>2. activationEvents' \in {activationEvents, Append(activationEvents, StartupFinished)}
    BY DEF Disconnect
  <2>3. Append(activationEvents, StartupFinished) \in Seq(Events)
    BY <2>1, AppendProperties
  <2> QED BY <2>1, <2>2, <2>3
<1>5. /\ up' = FALSE /\ running' = FALSE /\ crashed' = FALSE /\ stranded' = {} /\ forgotten' = {}
      /\ notices' = 0 /\ resets' = {} /\ manager' = FALSE
      /\ UNCHANGED <<connections, deployed, deploys, debounced, loadQueue>>
  BY DEF Disconnect
<1>6. FrontTypeOK'
  BY <1>2, <1>3, <1>4, <1>5 DEF FrontTypeOK
<1> QED BY <1>1, <1>6

LEMMA StutterSafe ==
    ASSUME ManagerInv, FrontTypeOK, UNCHANGED vars
    PROVE  ManagerInv' /\ FrontTypeOK'
<1>1. ManagerInv'
  BY ManagerKept DEF vars, managerVars, ManagerInv, ManagerTypeOK
<1>2. FrontTypeOK'
  BY DEF vars, frontVars, backVars, history, FrontTypeOK
<1> QED BY <1>1, <1>2

LEMMA StepSafe ==
    ASSUME PluginAssumption, DeployAssumption, PluginInv, [Next]_vars
    PROVE  PluginInv'
<1>1. ManagerInv /\ FrontTypeOK
  BY DEF PluginInv, TypeOK, ManagerInv
<1>2. CASE Host
  <2>1. ManagerInv'
    BY <1>1, <1>2, ManagerSafe DEF Host
  <2>2. FrontTypeOK'
    BY <1>1, <1>2 DEF Host, frontVars, backVars, history, FrontTypeOK
  <2> QED BY <2>1, <2>2 DEF PluginInv, TypeOK, ManagerInv
<1>3. CASE \/ FrontLoads \/ Deploy \/ Connect \/ Disconnect \/ LoadFails \/ HostCrashes
           \/ \E e \in Events : RaiseEvent(e)
  <2>1. ManagerInv' /\ FrontTypeOK'
    BY <1>1, <1>3, IdsReceivedSafe, LocalSafe, CallingSafe, DisconnectSafe,
       LoadFailsSafe, HostCrashesSafe DEF FrontLoads
  <2> QED BY <2>1 DEF PluginInv, TypeOK, ManagerInv
<1>4. CASE UNCHANGED vars
  BY <1>1, <1>4, StutterSafe DEF PluginInv, TypeOK, ManagerInv
<1> QED BY <1>2, <1>3, <1>4 DEF Next

-----------------------------------------------------------------------------
\* The inductive invariant holds in every reachable state (all handlers of the
\* plug-in manager and of the front end).
THEOREM PluginInvariant == Spec => []PluginInv
<1>1. Init => PluginInv
  BY InitSafe, PluginAssumption, DeployAssumption
<1>2. PluginInv /\ [Next]_vars => PluginInv'
  BY StepSafe, PluginAssumption, DeployAssumption
<1> QED BY <1>1, <1>2, PTL DEF Spec

\* Every variable keeps its type, and what is referred to by position exists.
THEOREM PluginTypes == Spec => []TypeOK
<1>1. PluginInv => TypeOK
  BY DEF PluginInv
<1> QED BY <1>1, PluginInvariant, PTL

\* A plug-in that runs is registered and known as activated once, so that $stop
\* reaches it, however activations, dependencies, stops and new connections
\* interleave; the exception is a plug-in that was told to stop during its activation.
THEOREM RunningReachable == Spec => []RunningCanBeStopped
<1>1. ASSUME PluginInv PROVE RunningCanBeStopped
  <2>1. ManagerTypeOK /\ ActivationsKnown
    BY <1>1 DEF PluginInv, TypeOK
  <2>2. DOMAIN loads = 1 .. Len(loads)
    BY <2>1, Lengths
  <2> QED BY <2>1, <2>2 DEF ActivationsKnown, RunningCanBeStopped
<1> QED BY <1>1, PluginInvariant, PTL

-----------------------------------------------------------------------------
(* Calls under way. *)

\* The calls that are new in the inbox, behind those that were there already.
Added == {inbox'[i] : i \in DOMAIN inbox' \ DOMAIN inbox}
CallsAdded ==
    /\ \A i \in DOMAIN inbox : i \in DOMAIN inbox' /\ inbox'[i] = inbox[i]
    /\ \A i \in DOMAIN inbox : \A j \in DOMAIN inbox' \ DOMAIN inbox : i < j
    /\ DOMAIN inbox' \subseteq Nat

\* The first call is taken.
CallTaken ==
    /\ 1 \in DOMAIN inbox /\ Head(inbox) = inbox[1]
    /\ \A i \in DOMAIN inbox' : i + 1 \in DOMAIN inbox /\ inbox'[i] = inbox[i + 1]
    /\ \A i \in DOMAIN inbox : i # 1 => i - 1 \in DOMAIN inbox' /\ inbox'[i - 1] = inbox[i]
    /\ DOMAIN inbox \subseteq Nat \ {0} /\ DOMAIN inbox' \subseteq Nat \ {0}

LEMMA InboxTyped ==
    ASSUME ManagerInv
    PROVE  /\ inbox \in Seq(Calls) /\ Len(inbox) \in Nat /\ DOMAIN inbox = 1 .. Len(inbox)
           /\ \A i \in DOMAIN inbox : inbox[i] \in Calls
BY LenProperties, ElementOfSeq DEF ManagerInv, ManagerTypeOK

LEMMA SentByPosition ==
    ASSUME ManagerInv
    PROVE  /\ \A p : StopSent(p) <=> \E i \in DOMAIN inbox : inbox[i].call = "stop" /\ inbox[i].plugin = p
           /\ \A e : EventSent(e) <=> \E i \in DOMAIN inbox : inbox[i].call = "event" /\ inbox[i].event = e
BY InboxTyped DEF StopSent, EventSent

\* The host is there to take calls.
Alive == running /\ ~crashed

LEMMA PostAdds ==
    ASSUME ManagerInv, NEW calls, calls \in Seq(Calls), Post(calls)
    PROVE  /\ CallsAdded
           /\ Alive => Added = {calls[i] : i \in DOMAIN calls}
           /\ ~Alive => Added = {}
<1>1. inbox \in Seq(Calls) /\ Len(inbox) \in Nat /\ DOMAIN inbox = 1 .. Len(inbox)
  BY InboxTyped
<1>2. Len(calls) \in Nat /\ DOMAIN calls = 1 .. Len(calls)
  BY LenProperties
<1>3. CASE ~Alive
  <2>1. inbox' = inbox
    BY <1>3 DEF Post, Alive
  <2> QED BY <1>1, <1>3, <2>1 DEF CallsAdded, Added
<1>4. CASE Alive
  <2>1. inbox' = inbox \o calls
    BY <1>4 DEF Post, Alive
  <2>2. /\ inbox' \in Seq(Calls) /\ Len(inbox') = Len(inbox) + Len(calls)
        /\ \A i \in 1 .. Len(inbox) + Len(calls) :
              inbox'[i] = IF i <= Len(inbox) THEN inbox[i] ELSE calls[i - Len(inbox)]
    BY <1>1, <2>1, ConcatProperties
  <2>3. DOMAIN inbox' = 1 .. Len(inbox) + Len(calls)
    BY <2>2, LenProperties
  <2>4. CallsAdded
    BY <1>1, <1>2, <2>2, <2>3 DEF CallsAdded
  <2>5. \A i \in DOMAIN calls : \E j \in DOMAIN inbox' \ DOMAIN inbox : inbox'[j] = calls[i]
    <3> SUFFICES ASSUME NEW i \in DOMAIN calls, NEW j, j = Len(inbox) + i
                 PROVE  j \in DOMAIN inbox' \ DOMAIN inbox /\ inbox'[j] = calls[i]
      OBVIOUS
    <3>1. j \in DOMAIN inbox' \ DOMAIN inbox /\ j - Len(inbox) = i /\ ~(j <= Len(inbox))
      BY <1>1, <1>2, <2>3
    <3> QED BY <2>2, <2>3, <3>1
  <2>6. \A j \in DOMAIN inbox' \ DOMAIN inbox : \E i \in DOMAIN calls : inbox'[j] = calls[i]
    <3> SUFFICES ASSUME NEW j \in DOMAIN inbox' \ DOMAIN inbox, NEW i, i = j - Len(inbox)
                 PROVE  i \in DOMAIN calls /\ inbox'[j] = calls[i]
      OBVIOUS
    <3>1. i \in DOMAIN calls /\ ~(j <= Len(inbox))
      BY <1>1, <1>2, <2>3
    <3> QED BY <2>2, <2>3, <3>1
  <2> QED BY <1>4, <2>4, <2>5, <2>6 DEF Added
<1> QED BY <1>3, <1>4

LEMMA PostAddsOne ==
    ASSUME ManagerInv, NEW call, call \in Calls, Post(<<call>>)
    PROVE  /\ CallsAdded /\ Added \subseteq {call}
           /\ Alive => Added = {call}
           /\ ~Alive => Added = {}
           /\ \A i, j \in DOMAIN inbox' \ DOMAIN inbox : i = j
<1>1. <<call>> \in Seq(Calls) /\ DOMAIN <<call>> = {1} /\ <<call>>[1] = call
  OBVIOUS
<1>2. {<<call>>[i] : i \in DOMAIN <<call>>} = {call}
  BY <1>1
<1>3. /\ CallsAdded
      /\ Alive => Added = {call}
      /\ ~Alive => Added = {}
  BY <1>1, <1>2, PostAdds
<1>4. \A i, j \in DOMAIN inbox' \ DOMAIN inbox : i = j
  <2>1. inbox \in Seq(Calls) /\ Len(inbox) \in Nat /\ DOMAIN inbox = 1 .. Len(inbox)
    BY InboxTyped
  <2>2. CASE Alive
    <3>1. inbox' = inbox \o <<call>>
      BY <2>2 DEF Post, Alive
    <3>2. DOMAIN inbox' = 1 .. Len(inbox) + 1
      BY <2>1, <3>1
    <3> QED BY <2>1, <3>2
  <2>3. CASE ~Alive
    BY <2>3 DEF Post, Alive
  <2> QED BY <2>2, <2>3
<1> QED BY <1>3, <1>4

LEMMA TakingFirst ==
    ASSUME ManagerInv, inbox # <<>>, inbox' = Tail(inbox)
    PROVE  CallTaken /\ Head(inbox) \in Calls
<1>1. inbox \in Seq(Calls) /\ Len(inbox) \in Nat \ {0} /\ DOMAIN inbox = 1 .. Len(inbox)
  BY InboxTyped, EmptySeq
<1>2. inbox' \in Seq(Calls) /\ Len(inbox') = Len(inbox) - 1 /\ \A i \in 1 .. Len(inbox') : inbox'[i] = inbox[i + 1]
  BY <1>1, HeadTailProperties
<1>3. DOMAIN inbox' = 1 .. Len(inbox) - 1
  BY <1>2, LenProperties
<1>4. \A i \in DOMAIN inbox' : i + 1 \in DOMAIN inbox /\ inbox'[i] = inbox[i + 1]
  BY <1>1, <1>2, <1>3
<1>5. ASSUME NEW i \in DOMAIN inbox, i # 1 PROVE i - 1 \in DOMAIN inbox' /\ inbox'[i - 1] = inbox[i]
  <2> SUFFICES ASSUME NEW k, k = i - 1 PROVE k \in DOMAIN inbox' /\ inbox'[k] = inbox[i]
    OBVIOUS
  <2>1. k \in DOMAIN inbox' /\ k + 1 = i
    BY <1>1, <1>3, <1>5
  <2> QED BY <1>4, <2>1
<1>6. Head(inbox) = inbox[1] /\ 1 \in DOMAIN inbox /\ inbox[1] \in Calls
  BY <1>1, InboxTyped
<1> QED BY <1>1, <1>3, <1>4, <1>5, <1>6 DEF CallTaken

-----------------------------------------------------------------------------
(* What the steps of the plug-in host do with calls, registry and events. *)

MoreLoaded == \A p \in Plugins : loadedPlugins[p] # 0 => loadedPlugins'[p] # 0

\* Those that waited for e are loaded now.
Activates(e, acts, reg) ==
    /\ MoreLoaded
    /\ activations' = [acts EXCEPT ![e] = {}]
    /\ \A p \in acts[e] \cap reg : loadedPlugins'[p] # 0

Loads == UNCHANGED <<inbox, reply, registry, activations, task, overlooked, unreadable>> /\ MoreLoaded

TakesInit ==
    /\ CallTaken /\ inbox[1].call = "init" /\ reply' = "init"
    /\ UNCHANGED <<registry, activations, loadedPlugins, task, overlooked, unreadable>>
TakesStart ==
    /\ CallTaken /\ inbox[1].call = "start"
    /\ task'.kind = "manifests" /\ task'.plugins = inbox[1].plugins /\ task'.events = inbox[1].events
    /\ UNCHANGED <<reply, registry, activations, loadedPlugins, overlooked, unreadable>>
ReadsManifests ==
    /\ task.kind = "manifests" /\ task'.kind = "events"
    /\ task'.plugins = task.plugins /\ task'.events = task.events
    /\ \E read \in SUBSET task.plugins :
          /\ registry' = registry \cup read
          /\ unreadable' = (unreadable \cup task.plugins) \ read
          /\ Activates(Eager, Waiting(read), registry')
    /\ UNCHANGED <<inbox, reply, overlooked>>
PassesOn(e) ==
    /\ task.kind = "events" /\ task.events # <<>> /\ e = Head(task.events)
    /\ task'.kind = "events" /\ task'.plugins = task.plugins /\ task'.events = Tail(task.events)
    /\ Activates(e, activations, registry)
    /\ overlooked' = overlooked \ {e}
    /\ UNCHANGED <<inbox, reply, registry, unreadable>>
AnswersStart ==
    /\ task.kind = "events" /\ task.events = <<>> /\ task'.kind = "none" /\ reply' = "start"
    /\ UNCHANGED <<inbox, registry, activations, loadedPlugins, overlooked, unreadable>>
RejectsStart ==
    /\ task.kind = "events" /\ task'.kind = "none" /\ reply' = "startRejected"
    /\ UNCHANGED <<inbox, registry, activations, loadedPlugins, overlooked, unreadable>>
TakesEvent(e) ==
    /\ CallTaken /\ inbox[1].call = "event" /\ inbox[1].event = e
    /\ Activates(e, activations, registry)
    /\ IF e = StartupFinished THEN task'.kind = "event" ELSE task' = task
    /\ overlooked' = IF task.kind = "manifests" THEN overlooked \cup {e} ELSE overlooked
    /\ UNCHANGED <<reply, registry, unreadable>>
AnswersEvent ==
    /\ task.kind = "event" /\ task'.kind = "none" /\ reply' \in {"event", "eventRejected"}
    /\ UNCHANGED <<inbox, registry, activations, loadedPlugins, overlooked, unreadable>>
TakesStop(p) ==
    /\ CallTaken /\ inbox[1].call = "stop" /\ inbox[1].plugin = p
    /\ registry' = registry \ {p} /\ loadedPlugins' = [loadedPlugins EXCEPT ![p] = 0]
    /\ UNCHANGED <<reply, activations, task, overlooked, unreadable>>

Tells ==
    \/ Loads \/ TakesInit \/ TakesStart \/ ReadsManifests \/ AnswersStart \/ RejectsStart
    \/ AnswersEvent
    \/ \E e \in Events : PassesOn(e) \/ TakesEvent(e)
    \/ \E p \in Plugins : TakesStop(p)

LEMMA ActivateActivates ==
    ASSUME PluginAssumption, ManagerTypeOK, NEW e, e \in Events \cup {Eager},
           NEW acts, acts \in [Events \cup {Eager} -> SUBSET Plugins],
           NEW reg, reg \subseteq Plugins,
           NEW next, next = Activate(e, acts, reg),
           activations' = next.activations, loadedPlugins' = next.loadedPlugins
    PROVE  Activates(e, acts, reg)
<1>1. Begun(next, reg)
  BY ActivateLoads
<1>2. MoreLoaded
  BY <1>1 DEF Begun, MoreLoaded
<1>3. activations' = [acts EXCEPT ![e] = {}] /\ next.on = {next.loadedPlugins[p] : p \in acts[e] \cap reg}
  BY DEF Activate
<1>4. 0 \notin DOMAIN next.loads
  <2>1. next.loads \in Seq(Activations)
    BY <1>1 DEF Begun
  <2> QED BY <2>1, LenProperties
<1>5. \A p \in acts[e] \cap reg : next.loadedPlugins[p] # 0
  BY <1>1, <1>3, <1>4 DEF Begun
<1> QED BY <1>2, <1>3, <1>5 DEF Activates

LEMMA LoadStepTells ==
    ASSUME PluginAssumption, ManagerInv, NEW l \in 1 .. Len(loads),
           \/ ProgressShown(l) \/ ProgressFails(l) \/ NextDependency(l) \/ DependencyLoaded(l)
           \/ CallStart(l) \/ StartReturns(l) \/ StartThrows(l)
    PROVE  Loads
<1>1. CASE \/ ProgressShown(l) \/ ProgressFails(l) \/ DependencyLoaded(l) \/ CallStart(l)
           \/ StartReturns(l) \/ StartThrows(l)
  BY <1>1 DEF ProgressShown, ProgressFails, DependencyLoaded, CallStart, StartReturns, StartThrows, Loads, MoreLoaded
<1>2. CASE NextDependency(l)
  <2>1. UNCHANGED <<inbox, reply, registry, activations, task, overlooked, unreadable>>
    BY <1>2 DEF NextDependency
  <2>2. \/ UNCHANGED loadedPlugins
        \/ \E q : loadedPlugins' = [loadedPlugins EXCEPT ![q] = IF loadedPlugins[q] # 0 THEN loadedPlugins[q]
                                                                ELSE Len(loads) + 1]
    BY <1>2 DEF NextDependency
  <2>3. Len(loads) \in Nat /\ loadedPlugins \in [Plugins -> 0 .. Len(loads)]
    BY Lengths DEF ManagerInv, ManagerTypeOK
  <2>4. Len(loads) + 1 # 0
    BY <2>3
  <2>5. MoreLoaded
    BY <2>2, <2>3, <2>4 DEF MoreLoaded
  <2> QED BY <2>1, <2>5 DEF Loads
<1> QED BY <1>1, <1>2

LEMMA HostTells ==
    ASSUME PluginAssumption, ManagerInv, ManagerStep
    PROVE  Tells
<1>1. ManagerTypeOK /\ task \in Tasks
  BY DEF ManagerInv, ManagerTypeOK
<1>2. ASSUME inbox # <<>>, inbox' = Tail(inbox) PROVE CallTaken /\ Head(inbox) = inbox[1] /\ inbox[1] \in Calls
  BY <1>2, TakingFirst DEF CallTaken
<1>3. CASE HandleInit
  BY <1>2, <1>3 DEF HandleInit, TakesInit, Tells
<1>4. CASE HandleStart
  BY <1>2, <1>4 DEF HandleStart, TakesStart, Tells
<1>5. CASE ManifestsRead
  <2>1. PICK read \in SUBSET task.plugins :
          /\ registry' = registry \cup read
          /\ unreadable' = (unreadable \cup task.plugins) \ read
          /\ activations' = Activate(Eager, Waiting(read), registry \cup read).activations
          /\ loadedPlugins' = Activate(Eager, Waiting(read), registry \cup read).loadedPlugins
          /\ task' = [task EXCEPT !.kind = "events",
                                  !.on = Activate(Eager, Waiting(read), registry \cup read).on]
    BY <1>5 DEF ManifestsRead
  <2>2. /\ task.kind = "manifests" /\ UNCHANGED <<inbox, reply, overlooked>>
        /\ task'.kind = "events" /\ task'.plugins = task.plugins /\ task'.events = task.events
    BY <1>1, <1>5, <2>1 DEF ManifestsRead, Tasks
  <2>3. read \subseteq Plugins /\ registry \cup read \subseteq Plugins
    BY <1>1 DEF Tasks, ManagerTypeOK
  <2>4. Waiting(read) \in [Events \cup {Eager} -> SUBSET Plugins]
    BY <1>1, <2>3, WaitingTyped
  <2>5. Activates(Eager, Waiting(read), registry \cup read)
    BY <1>1, <2>1, <2>3, <2>4, ActivateActivates
  <2>6. Activates(Eager, Waiting(read), registry')
    BY <2>1, <2>5
  <2> QED BY <2>1, <2>2, <2>6 DEF ReadsManifests, Tells
<1>6. CASE NextEvent
  <2>1. task.kind = "events" /\ UNCHANGED <<inbox, registry, unreadable>>
    BY <1>6 DEF NextEvent
  <2>2. CASE task.events = <<>>
    BY <1>6, <2>1, <2>2 DEF NextEvent, Idle, AnswersStart, Tells
  <2>3. CASE task.events # <<>>
    <3> SUFFICES ASSUME NEW e, e = Head(task.events) PROVE Tells
      OBVIOUS
    <3>1. e \in Events
      <4>1. task.events \in Seq(Events)
        BY <1>1 DEF Tasks
      <4> QED BY <2>3, <4>1, HeadTailProperties
    <3>2. /\ activations' = Activate(e, activations, registry).activations
          /\ loadedPlugins' = Activate(e, activations, registry).loadedPlugins
          /\ overlooked' = overlooked \ {e} /\ UNCHANGED reply
      BY <1>6, <2>3 DEF NextEvent
    <3>3. task'.kind = "events" /\ task'.plugins = task.plugins /\ task'.events = Tail(task.events)
      BY <1>1, <1>6, <2>1, <2>3 DEF NextEvent, Tasks
    <3>4. Activates(e, activations, registry)
      BY <1>1, <3>1, <3>2, ActivateActivates DEF ManagerTypeOK
    <3> QED BY <2>1, <2>3, <3>1, <3>2, <3>3, <3>4 DEF PassesOn, Tells
  <2> QED BY <2>2, <2>3
<1>7. CASE HandleEvent
  <2> SUFFICES ASSUME NEW e, e = Head(inbox).event PROVE Tells
    OBVIOUS
  <2>1. CallTaken /\ inbox[1].call = "event" /\ inbox[1].event = e /\ e \in Events
    <3>1. CallTaken /\ Head(inbox) = inbox[1] /\ inbox[1] \in Calls /\ inbox[1].call = "event"
      BY <1>2, <1>7 DEF HandleEvent
    <3> QED BY <3>1 DEF Calls
  <2>2. /\ activations' = Activate(e, activations, registry).activations
        /\ loadedPlugins' = Activate(e, activations, registry).loadedPlugins
        /\ overlooked' = IF task.kind = "manifests" THEN overlooked \cup {e} ELSE overlooked
        /\ UNCHANGED <<reply, registry, unreadable>>
    BY <1>7 DEF HandleEvent
  <2>3. IF e = StartupFinished THEN task'.kind = "event" ELSE task' = task
    BY <1>7 DEF HandleEvent
  <2>4. Activates(e, activations, registry)
    BY <1>1, <2>1, <2>2, ActivateActivates DEF ManagerTypeOK
  <2> QED BY <2>1, <2>2, <2>3, <2>4 DEF TakesEvent, Tells
<1>8. CASE EventDone
  BY <1>8 DEF EventDone, Idle, AnswersEvent, Tells
<1>9. CASE HandleStop
  <2>1. CallTaken /\ Head(inbox) = inbox[1] /\ inbox[1] \in Calls /\ inbox[1].call = "stop"
    BY <1>2, <1>9 DEF HandleStop
  <2>2. inbox[1].plugin \in Plugins
    BY <2>1 DEF Calls
  <2>3. TakesStop(inbox[1].plugin)
    BY <1>9, <2>1 DEF HandleStop, TakesStop
  <2> QED BY <2>2, <2>3 DEF Tells
<1>10. CASE RejectStart
  BY <1>10 DEF RejectStart, Idle, RejectsStart, Tells
<1> QED BY <1>3, <1>4, <1>5, <1>6, <1>7, <1>8, <1>9, <1>10, LoadStepTells DEF ManagerStep, Tells

-----------------------------------------------------------------------------
(* Front end and host *)

UnderWay == {inbox[i] : i \in DOMAIN inbox}

\* What a load goes through with the plug-ins it starts.
Going == {"widgets", "paths", "info", "init", "start"}

\* The host is there for whoever has plug-ins, and the manager for whoever talks to it.
Loading ==
    /\ load.pc = "plugins" /\ Known \cup load.plugins # {} => running
    /\ load.pc = "layout" /\ load.connected /\ Known # {} => running
    /\ load.pc = "widgets" /\ load.connected /\ load.plugins # {} => running
    /\ load.pc = "paths" /\ load.plugins # {} => running
    /\ load.pc \in Going \ {"widgets"} => load.connected
    /\ load.pc \in {"info", "init", "start"} => manager
    /\ manager => up /\ running

\* The plug-ins of a load in progress start, and a disconnection resets those that do.
Starting ==
    /\ \A p \in Plugins : contributions[p] \in {"starting", "started"} => p \in resets
    /\ \A p \in Plugins :
          load.pc \in Going /\ load.connected /\ p \in load.plugins => contributions[p] = "starting"
    /\ load.pc = "plugins" => \A p \in load.plugins : contributions[p] = "absent"

\* Behind a $start no other and no $stop is under way.
StartsLast ==
    \A i, j \in DOMAIN inbox : i < j /\ inbox[i].call = "start" => inbox[j].call \notin {"start", "stop"}

\* Either answer to a $start.
Answered == {"start", "startRejected"}

\* The host has p, or has failed in a way the front end is not told of.
Reached(p) == p \in registry \/ p \in unreadable \/ crashed

\* The host handles one $start, that of the load in progress, and no $stop meanwhile.
Talk ==
    /\ StartsLast
    /\ \A c \in UnderWay : c.call = "start" => load.pc = "start" /\ c.plugins = load.plugins
    /\ task.kind \in {"manifests", "events"} \/ reply \in Answered =>
          load.pc = "start" /\ \A c \in UnderWay : c.call \notin {"start", "stop"}
    /\ task.kind \in {"manifests", "events"} => task.plugins = load.plugins /\ reply \notin Answered
    /\ task.kind = "events" \/ reply = "start" => \A p \in load.plugins : Reached(p)

\* HostsAgree, with nothing under way that stops what is started, and nothing at all for a
\* host that has crashed.
Agreed ==
    /\ \A p \in Plugins : contributions[p] = "started" =>
          /\ up /\ running /\ manager /\ Reached(p)
          /\ \A c \in UnderWay : c.call = "stop" => c.plugin # p
    /\ \A p \in registry : \/ contributions[p] \in {"starting", "started"}
                           \/ \E c \in UnderWay : c.call = "stop" /\ c.plugin = p
                           \/ p \in forgotten
    /\ crashed => UnderWay = {} /\ registry = {} /\ task.kind = "none"

Together == Loading /\ Starting /\ Talk /\ Agreed

LEMMA CallsUnderWay == ASSUME ManagerInv PROVE \A c \in UnderWay : c \in Calls
BY InboxTyped DEF UnderWay

LEMMA NothingAdded == ASSUME ManagerInv, UNCHANGED inbox PROVE CallsAdded /\ Added = {}
<1>1. DOMAIN inbox \subseteq Nat
  BY InboxTyped
<1> QED BY <1>1 DEF CallsAdded, Added

LEMMA AddedUnderWay == ASSUME CallsAdded PROVE UnderWay' = UnderWay \cup Added
BY DEF CallsAdded, Added, UnderWay

LEMMA TakenUnderWay ==
    ASSUME CallTaken, StartsLast
    PROVE  /\ UnderWay = UnderWay' \cup {inbox[1]}
           /\ StartsLast'
           /\ inbox[1].call = "start" => \A c \in UnderWay' : c.call \notin {"start", "stop"}
<1>1. \A i \in DOMAIN inbox' : i + 1 \in DOMAIN inbox /\ inbox'[i] = inbox[i + 1] /\ 1 < i + 1
  BY DEF CallTaken
<1>2. UnderWay = UnderWay' \cup {inbox[1]}
  BY <1>1 DEF CallTaken, UnderWay
<1>3. StartsLast'
  <2> SUFFICES ASSUME NEW i \in DOMAIN inbox', NEW j \in DOMAIN inbox', i < j, inbox'[i].call = "start"
               PROVE  inbox'[j].call \notin {"start", "stop"}
    BY DEF StartsLast
  <2>1. i + 1 < j + 1
    BY DEF CallTaken
  <2> QED BY <1>1, <2>1 DEF StartsLast
<1>4. inbox[1].call = "start" => \A c \in UnderWay' : c.call \notin {"start", "stop"}
  BY <1>1 DEF CallTaken, UnderWay, StartsLast
<1> QED BY <1>2, <1>3, <1>4

LEMMA AddedInOrder ==
    ASSUME CallsAdded, StartsLast,
           \/ \A c \in Added : c.call \notin {"start", "stop"}
           \/ /\ \A c \in UnderWay : c.call # "start"
              /\ \/ \A c \in Added : c.call # "start"
                 \/ \A i, j \in DOMAIN inbox' \ DOMAIN inbox : i = j
    PROVE  StartsLast'
<1> SUFFICES ASSUME NEW i \in DOMAIN inbox', NEW j \in DOMAIN inbox', i < j, inbox'[i].call = "start",
                    inbox'[j].call \in {"start", "stop"}
             PROVE  FALSE
  BY DEF StartsLast
<1>1. i \in Nat /\ j \in Nat /\ i # j
  BY DEF CallsAdded
<1>2. CASE i \in DOMAIN inbox /\ j \in DOMAIN inbox
  BY <1>2 DEF CallsAdded, StartsLast
<1>3. CASE i \notin DOMAIN inbox
  <2>1. j \notin DOMAIN inbox
    <3> SUFFICES ASSUME j \in DOMAIN inbox PROVE FALSE
      OBVIOUS
    <3>1. j < i
      BY <1>3 DEF CallsAdded
    <3> QED BY <1>1, <3>1
  <2>2. inbox'[i] \in Added /\ inbox'[j] \in Added
    BY <1>3, <2>1 DEF Added
  <2> QED BY <1>1, <1>3, <2>1, <2>2
<1>4. CASE i \in DOMAIN inbox /\ j \notin DOMAIN inbox
  <2>1. inbox'[j] \in Added /\ inbox'[i] = inbox[i] /\ inbox[i] \in UnderWay
    BY <1>4 DEF Added, UnderWay, CallsAdded
  <2> QED BY <2>1
<1> QED BY <1>2, <1>3, <1>4

LEMMA AwaitFields ==
    ASSUME FrontTypeOK
    PROVE  /\ \A pc : Await(pc).pc = pc /\ Await(pc).connected = load.connected
                      /\ Await(pc).plugins = load.plugins
           /\ NoLoad.pc = "none" /\ NoLoad.plugins = {}
           /\ load.plugins \subseteq Plugins
BY DEF FrontTypeOK, Await, NoLoad

LEMMA RaiseAdds ==
    ASSUME PluginAssumption, ManagerInv, NEW e \in Events, Raise(e)
    PROVE  /\ CallsAdded /\ Added \subseteq {[call |-> "event", event |-> e]}
           /\ manager /\ Alive => Added = {[call |-> "event", event |-> e]}
           /\ ~Alive => Added = {}
           /\ \A i, j \in DOMAIN inbox' \ DOMAIN inbox : i = j
<1> DEFINE call == [call |-> "event", event |-> e]
<1>1. call \in Calls
  BY DEF Calls
<1>2. CASE manager
  <2>1. Post(<<call>>)
    BY <1>2 DEF Raise
  <2> HIDE DEF call
  <2>2. /\ CallsAdded /\ Added \subseteq {call}
        /\ Alive => Added = {call}
        /\ ~Alive => Added = {}
        /\ \A i, j \in DOMAIN inbox' \ DOMAIN inbox : i = j
    BY <1>1, <2>1, PostAddsOne
  <2> QED BY <2>2 DEF call
<1>3. CASE ~manager
  <2>1. UNCHANGED inbox
    BY <1>3 DEF Raise
  <2> QED BY <1>3, <2>1, NothingAdded
<1> QED BY <1>2, <1>3

LEMMA FinishAdds ==
    ASSUME PluginAssumption, ManagerInv, FrontTypeOK, FinishStart
    PROVE  /\ CallsAdded /\ \A c \in Added : c.call = "event"
           /\ ~Alive => Added = {}
           /\ load'.pc \in {"none", "finished"}
<1>1. StartupFinished \in Events
  BY DEF PluginAssumption
<1>2. load'.pc \in {"none", "finished"}
  BY AwaitFields DEF FinishStart
<1>3. CASE StartupFinished \in ToSet(activationEvents)
  <2>1. UNCHANGED inbox
    BY <1>3 DEF FinishStart
  <2> QED BY <1>2, <2>1, NothingAdded
<1>4. CASE StartupFinished \notin ToSet(activationEvents)
  <2>1. Raise(StartupFinished)
    BY <1>4 DEF FinishStart
  <2>2. CallsAdded /\ Added \subseteq {[call |-> "event", event |-> StartupFinished]}
        /\ (~Alive => Added = {})
    BY <1>1, <2>1, RaiseAdds
  <2> QED BY <1>2, <2>2
<1> QED BY <1>3, <1>4

LEMMA StartCallAdds ==
    ASSUME ManagerInv, FrontTypeOK, Post(<<StartCall>>)
    PROVE  /\ CallsAdded /\ Added \subseteq {StartCall}
           /\ Alive => Added = {StartCall}
           /\ ~Alive => Added = {}
           /\ \A i, j \in DOMAIN inbox' \ DOMAIN inbox : i = j
           /\ StartCall.call = "start" /\ StartCall.plugins = load.plugins /\ StartCall.events = activationEvents
<1>1. StartCall \in Calls
  BY DEF StartCall, Calls, FrontTypeOK
<1>2. StartCall.call = "start" /\ StartCall.plugins = load.plugins /\ StartCall.events = activationEvents
  BY DEF StartCall
<1> QED BY <1>1, <1>2, PostAddsOne

-----------------------------------------------------------------------------
(* Talk *)

\* As long as no $start is due, only what is started matters.
LEMMA TalkElsewhere ==
    ASSUME Talk, load.pc # "start", load'.pc # "start", CallsAdded,
           \A c \in Added : c.call # "start", UNCHANGED task, reply' \in {"none", reply}
    PROVE  Talk'
<1>1. UnderWay' = UnderWay \cup Added
  BY AddedUnderWay
<1>2. \A c \in UnderWay : c.call # "start"
  BY DEF Talk
<1>3. StartsLast'
  BY <1>2, AddedInOrder DEF Talk
<1>4. task.kind \notin {"manifests", "events"} /\ reply \notin Answered /\ reply' \notin Answered
  BY DEF Talk, Answered
<1> QED BY <1>1, <1>2, <1>3, <1>4 DEF Talk, Answered

\* Events may be passed on at any time.
LEMMA TalkOfEvents ==
    ASSUME Talk, UNCHANGED <<load, task, reply, registry, unreadable, crashed>>, CallsAdded, \A c \in Added : c.call = "event"
    PROVE  Talk'
<1>1. UnderWay' = UnderWay \cup Added
  BY AddedUnderWay
<1>2. StartsLast'
  BY AddedInOrder DEF Talk
<1> QED BY <1>1, <1>2 DEF Talk, Reached

\* The load comes to its $start.
LEMMA TalkBegins ==
    ASSUME Talk, load.pc # "start", load'.pc = "start", load'.plugins = load.plugins, CallsAdded,
           \A c \in Added : c.call = "start" /\ c.plugins = load.plugins,
           \A i, j \in DOMAIN inbox' \ DOMAIN inbox : i = j,
           UNCHANGED task, reply' \in {"none", reply}
    PROVE  Talk'
<1>1. UnderWay' = UnderWay \cup Added
  BY AddedUnderWay
<1>2. \A c \in UnderWay : c.call # "start"
  BY DEF Talk
<1>3. StartsLast'
  BY <1>2, AddedInOrder DEF Talk
<1>4. task.kind \notin {"manifests", "events"} /\ reply \notin Answered /\ reply' \notin Answered
  BY DEF Talk, Answered
<1> QED BY <1>1, <1>2, <1>3, <1>4 DEF Talk, Answered

\* The answer to $start is taken, and events are passed on.
LEMMA TalkEnds ==
    ASSUME Talk, reply \in Answered, reply' = "none", load'.pc # "start", CallsAdded,
           \A c \in Added : c.call = "event", UNCHANGED task
    PROVE  Talk'
<1>1. UnderWay' = UnderWay \cup Added
  BY AddedUnderWay
<1>2. \A c \in UnderWay : c.call \notin {"start", "stop"}
  BY DEF Talk
<1>3. StartsLast'
  BY AddedInOrder DEF Talk
<1>4. task.kind \notin {"manifests", "events"}
  BY DEF Talk
<1> QED BY <1>1, <1>2, <1>3, <1>4 DEF Talk, Answered

\* Calls that stop nothing, and a front end that goes on with the same plug-ins.
LEMMA AgreedOn ==
    ASSUME Agreed, CallsAdded, \A c \in Added : c.call # "stop", ~Alive => Added = {}, manager => manager',
           UNCHANGED <<up, running, crashed, registry, unreadable, task, contributions, forgotten>>
    PROVE  Agreed'
<1>1. UnderWay' = UnderWay \cup Added
  BY AddedUnderWay
<1> QED BY <1>1 DEF Agreed, Reached, Alive

-----------------------------------------------------------------------------
(* Each step keeps both sides together *)

\* Nothing that matters here changes, unless the connection is made.
LEMMA OthersAgree ==
    ASSUME Together, up => up',
           UNCHANGED <<inbox, reply, task, registry, unreadable, running, crashed, contributions, resets,
                       forgotten, manager, load>>
    PROVE  Together'
<1>1. UNCHANGED UnderWay
  BY DEF UnderWay
<1>2. Loading'
  BY DEF Together, Loading, Known
<1>3. Starting'
  BY DEF Together, Starting
<1>4. Talk'
  BY <1>1 DEF Together, Talk, StartsLast, Reached
<1>5. Agreed'
  BY <1>1 DEF Together, Agreed, Reached
<1> QED BY <1>2, <1>3, <1>4, <1>5 DEF Together

LEMMA LoadBeginsAgrees ==
    ASSUME ManagerInv, Together, LoadBegins
    PROVE  Together'
<1>1. /\ load.pc = "none" /\ load'.pc = "ids"
      /\ UNCHANGED <<inbox, reply, task, registry, unreadable, up, running, crashed, forgotten, contributions, resets, manager>>
  BY DEF LoadBegins, managerVars, backVars, hostVars, history
<1>2. CallsAdded /\ Added = {}
  BY <1>1, NothingAdded
<1>3. Loading'
  BY <1>1 DEF Together, Loading, Going
<1>4. Starting'
  BY <1>1 DEF Together, Starting, Going
<1>5. Talk'
  BY <1>1, <1>2, TalkElsewhere DEF Together
<1>6. Agreed'
  BY <1>1, <1>2, AgreedOn DEF Together
<1> QED BY <1>3, <1>4, <1>5, <1>6 DEF Together

StopCalls(stop) == [i \in 1 .. Len(stop) |-> [call |-> "stop", plugin |-> stop[i]]]

LEMMA StopsAdded ==
    ASSUME PluginAssumption, ManagerInv, NEW gone \in SUBSET Plugins, NEW stop, stop = SetToSeq(ToStop(gone)),
           Post(StopCalls(stop))
    PROVE  /\ CallsAdded
           /\ \A c \in Added : c.call = "stop" /\ c.plugin \in gone
           /\ ~Alive => Added = {}
           /\ Alive => \A p \in ToStop(gone) : \E c \in Added : c.call = "stop" /\ c.plugin = p
<1> DEFINE calls == StopCalls(stop)
<1>1. IsFiniteSet(ToStop(gone)) /\ ToStop(gone) \subseteq gone
  <2>1. ToStop(gone) \subseteq gone
    BY DEF ToStop
  <2> QED BY <2>1, FS_Subset DEF PluginAssumption
<1>2. /\ stop \in Seq(ToStop(gone))
      /\ \A p \in ToStop(gone) : \E i \in DOMAIN stop : stop[i] = p
  BY <1>1, SetToSeqEnumerates
<1>3. Len(stop) \in Nat /\ DOMAIN stop = 1 .. Len(stop) /\ \A i \in 1 .. Len(stop) : stop[i] \in gone
  BY <1>1, <1>2, LenProperties, ElementOfSeq
<1>4. calls \in Seq(Calls)
  BY <1>3 DEF Calls, StopCalls
<1>5. /\ CallsAdded
      /\ Alive => Added = {calls[i] : i \in DOMAIN calls}
      /\ ~Alive => Added = {}
  <2> HIDE DEF calls
  <2>1. Post(calls)
    BY DEF calls
  <2> QED BY <1>4, <2>1, PostAdds
<1>6. \A i \in 1 .. Len(stop) : calls[i].call = "stop" /\ calls[i].plugin = stop[i]
  BY DEF StopCalls
<1>7. DOMAIN calls = 1 .. Len(stop)
  BY DEF StopCalls
<1> HIDE DEF calls
<1>8. \A c \in Added : c.call = "stop" /\ c.plugin \in gone
  BY <1>3, <1>5, <1>6, <1>7
<1>9. ASSUME Alive, NEW p \in ToStop(gone) PROVE \E c \in Added : c.call = "stop" /\ c.plugin = p
  <2>1. PICK i \in DOMAIN stop : stop[i] = p
    BY <1>2
  <2>2. calls[i] \in Added /\ calls[i].call = "stop" /\ calls[i].plugin = p
    BY <1>3, <1>5, <1>6, <1>7, <1>9, <2>1
  <2> QED BY <2>2
<1> QED BY <1>5, <1>8, <1>9

\* What is unloaded is told to stop.
LEMMA IdsReceivedAgrees ==
    ASSUME PluginAssumption, ManagerInv, FrontTypeOK, Together, IdsReceived
    PROVE  Together'
<1> DEFINE gone == Known \ deployed
           new  == deployed \ Known
           stop == SetToSeq(ToStop(gone))
<1>1. /\ load.pc = "ids" /\ up
      /\ running' = (running \/ deployed # {})
      /\ contributions' = [p \in Plugins |-> IF p \in gone THEN "absent" ELSE contributions[p]]
      /\ resets' = resets \ gone
      /\ Post([i \in 1 .. Len(stop) |-> [call |-> "stop", plugin |-> stop[i]]])
      /\ load' = IF new = {} THEN Await("layout") ELSE [Await("plugins") EXCEPT !.plugins = new]
      /\ forgotten' = forgotten \cup {p \in gone : contributions[p] = "starting"}
      /\ UNCHANGED <<reply, task, registry, unreadable, crashed, up, manager>>
  BY DEF IdsReceived, hostVars
<1>2. /\ CallsAdded
      /\ \A c \in Added : c.call = "stop" /\ c.plugin \in gone
      /\ ~Alive => Added = {}
      /\ Alive => \A p \in ToStop(gone) : \E c \in Added : c.call = "stop" /\ c.plugin = p
  <2>1. gone \in SUBSET Plugins
    BY DEF Known
  <2>2. Post(StopCalls(stop))
    BY <1>1 DEF StopCalls
  <2>3. stop = SetToSeq(ToStop(gone))
    OBVIOUS
  <2> HIDE DEF gone, new, stop
  <2> QED BY <2>1, <2>2, <2>3, StopsAdded
<1>3. /\ load'.pc = IF new = {} THEN "layout" ELSE "plugins"
      /\ load'.plugins = IF new = {} THEN load.plugins ELSE new
  BY <1>1, AwaitFields DEF Await, FrontTypeOK
<1>4. /\ \A p \in Plugins : contributions'[p] = IF p \in gone THEN "absent" ELSE contributions[p]
      /\ Known' = {p \in Plugins : contributions'[p] # "absent"}
      /\ new \subseteq Plugins /\ new \cap Known = {} /\ Known \subseteq Plugins
      /\ \A p \in Plugins : p \in Known <=> contributions[p] # "absent"
      /\ Known' \subseteq deployed
  BY <1>1 DEF Known, FrontTypeOK
<1>5. new \subseteq deployed
  OBVIOUS
<1> HIDE DEF new, gone
<1>6. (running => running') /\ (deployed # {} => running')
  BY <1>1
<1>7. Loading'
  <2>1. load'.pc \in {"layout", "plugins"} /\ (load'.pc = "plugins" => load'.plugins = new)
    BY <1>3
  <2>2. Known' # {} \/ new # {} => running'
    BY <1>4, <1>5, <1>6
  <2>3. manager' => up' /\ running'
    BY <1>1, <1>6 DEF Together, Loading
  <2> QED BY <2>1, <2>2, <2>3 DEF Loading, Going
<1>9. Starting'
  BY <1>1, <1>3, <1>4 DEF Together, Starting, Going
<1>10. Talk'
  BY <1>1, <1>2, <1>3, TalkElsewhere DEF Together
<1>11. UnderWay' = UnderWay \cup Added
  BY <1>2, AddedUnderWay
<1>12. ASSUME NEW p \in Plugins, contributions'[p] = "started"
       PROVE  /\ up' /\ running' /\ manager' /\ Reached(p)'
              /\ \A c \in UnderWay' : c.call = "stop" => c.plugin # p
  BY <1>1, <1>2, <1>4, <1>6, <1>11, <1>12 DEF Together, Agreed, Reached
<1>13. ASSUME NEW p \in registry'
       PROVE  \/ contributions'[p] \in {"starting", "started"} \/ p \in forgotten'
              \/ \E c \in UnderWay' : c.call = "stop" /\ c.plugin = p
  <2>1. p \in registry /\ p \in Plugins
    BY <1>1, <1>13 DEF ManagerInv, ManagerTypeOK
  <2>2. \/ contributions[p] \in {"starting", "started"} \/ p \in forgotten
        \/ \E c \in UnderWay : c.call = "stop" /\ c.plugin = p
    BY <2>1 DEF Together, Agreed, Reached
  <2>3. CASE contributions[p] = "started" /\ p \in gone
    <3>1. p \in ToStop(gone) /\ Alive
      BY <2>1, <2>3 DEF ToStop, Together, Agreed, Alive
    <3> QED BY <1>2, <1>11, <3>1
  <2>4. CASE contributions[p] = "starting" /\ p \in gone
    BY <1>1, <2>4
  <2>5. CASE contributions[p] \in {"starting", "started"} /\ p \notin gone
    BY <1>4, <2>1, <2>5
  <2> QED BY <1>1, <1>11, <2>2, <2>3, <2>4, <2>5
<1>14. crashed' => UnderWay' = {} /\ registry' = {} /\ task'.kind = "none"
  BY <1>1, <1>2, <1>11 DEF Together, Agreed, Alive
<1> QED BY <1>7, <1>9, <1>10, <1>12, <1>13, <1>14 DEF Together, Agreed, Reached

LEMMA PluginsReceivedAgrees ==
    ASSUME ManagerInv, FrontTypeOK, Together, PluginsReceived
    PROVE  Together'
<1>1. /\ load.pc = "plugins"
      /\ contributions' = [p \in Plugins |-> IF p \in load.plugins \cap deployed THEN "initializing"
                                             ELSE contributions[p]]
      /\ load' = [Await("layout") EXCEPT !.plugins = {}]
      /\ UNCHANGED <<inbox, reply, task, registry, unreadable, up, running, crashed, forgotten, resets, manager>>
  BY DEF PluginsReceived, managerVars, backVars, hostVars, history
<1>2. load'.pc = "layout"
  BY <1>1 DEF Await, FrontTypeOK
<1>3. CallsAdded /\ Added = {}
  BY <1>1, NothingAdded
<1>4. /\ \A p \in Plugins : contributions'[p] = IF p \in load.plugins \cap deployed THEN "initializing"
                                                ELSE contributions[p]
      /\ \A p \in load.plugins : contributions[p] = "absent"
  BY <1>1 DEF Together, Starting, Going
<1>5. Known' \subseteq Known \cup load.plugins
  BY <1>4 DEF Known
<1>6. Loading'
  BY <1>1, <1>2, <1>5 DEF Together, Loading, Going
<1>7. Starting'
  BY <1>1, <1>2, <1>4 DEF Together, Starting, Going
<1>8. Talk'
  BY <1>1, <1>2, <1>3, TalkElsewhere DEF Together
<1>9. UnderWay' = UnderWay
  BY <1>1 DEF UnderWay
<1>10. \A p \in registry : p \in Plugins
  BY DEF ManagerInv, ManagerTypeOK
<1>11. Agreed'
  BY <1>1, <1>4, <1>9, <1>10 DEF Together, Agreed, Reached
<1> QED BY <1>6, <1>7, <1>8, <1>11 DEF Together

LEMMA LayoutReadyAgrees ==
    ASSUME ManagerInv, FrontTypeOK, Together, LayoutReady
    PROVE  Together'
<1>1. /\ load.pc = "layout"
      /\ UNCHANGED <<inbox, reply, task, registry, unreadable, up, running, crashed, forgotten, manager>>
  BY DEF LayoutReady, managerVars, backVars, hostVars, history
<1>2. CallsAdded /\ Added = {} /\ UnderWay' = UnderWay
  BY <1>1, NothingAdded DEF UnderWay
<1>4. \A p \in registry : p \in Plugins
  BY DEF ManagerInv, ManagerTypeOK
<1>5. CASE load.connected
  <2> DEFINE toStart == {p \in Plugins : contributions[p] \in {"initializing", "loaded"}}
  <2>1. /\ contributions' = [p \in Plugins |-> IF p \in toStart THEN "starting" ELSE contributions[p]]
        /\ resets' = resets \cup toStart
        /\ load' = [Await("widgets") EXCEPT !.plugins = toStart]
    BY <1>5 DEF LayoutReady
  <2>2. load'.pc = "widgets" /\ load'.connected /\ load'.plugins = toStart
    BY <1>5, <2>1, AwaitFields DEF Await, FrontTypeOK
  <2>3. \A p \in Plugins : contributions'[p] = IF p \in toStart THEN "starting" ELSE contributions[p]
    BY <2>1
  <2>4. toStart \subseteq Known /\ \A p \in toStart : contributions[p] # "started"
    BY DEF Known
  <2> HIDE DEF toStart
  <2>5. Loading'
    BY <1>1, <1>5, <2>2, <2>4 DEF Together, Loading, Going
  <2>6. Starting'
    BY <1>1, <2>1, <2>2, <2>3 DEF Together, Starting, Going
  <2>7. Talk'
    BY <1>1, <1>2, <2>2, TalkElsewhere DEF Together
  <2>8. Agreed'
    BY <1>1, <1>2, <1>4, <2>3, <2>4 DEF Together, Agreed, Reached
  <2> QED BY <2>5, <2>6, <2>7, <2>8 DEF Together
<1>6. CASE ~load.connected
  <2>1. load' = NoLoad /\ UNCHANGED <<contributions, resets>>
    BY <1>6 DEF LayoutReady
  <2>2. load'.pc = "none"
    BY <2>1, AwaitFields
  <2>3. Loading'
    BY <1>1, <2>2 DEF Together, Loading, Going
  <2>4. Starting'
    BY <1>1, <2>1, <2>2 DEF Together, Starting, Going
  <2>5. Talk'
    BY <1>1, <1>2, <2>2, TalkElsewhere DEF Together
  <2>6. Agreed'
    BY <1>1, <1>2, <2>1, AgreedOn DEF Together
  <2> QED BY <2>3, <2>4, <2>5, <2>6 DEF Together
<1> QED BY <1>5, <1>6

LEMMA WidgetsReadyAgrees ==
    ASSUME ManagerInv, FrontTypeOK, Together, WidgetsReady
    PROVE  Together'
<1>1. /\ load.pc = "widgets" /\ load' = IF load.connected THEN Await("paths") ELSE NoLoad
      /\ UNCHANGED <<inbox, reply, task, registry, unreadable, up, running, crashed, forgotten, contributions, resets, manager>>
  BY DEF WidgetsReady, managerVars, backVars, hostVars, history
<1>2. /\ load.connected => load'.pc = "paths" /\ load'.connected /\ load'.plugins = load.plugins
      /\ ~load.connected => load'.pc = "none"
      /\ load'.pc # "start"
  BY <1>1, AwaitFields
<1>3. CallsAdded /\ Added = {}
  BY <1>1, NothingAdded
<1>4. Loading'
  BY <1>1, <1>2 DEF Together, Loading, Going
<1>5. Starting'
  BY <1>1, <1>2 DEF Together, Starting, Going
<1>6. Talk'
  BY <1>1, <1>2, <1>3, TalkElsewhere DEF Together
<1>7. Agreed'
  BY <1>1, <1>3, AgreedOn DEF Together
<1> QED BY <1>4, <1>5, <1>6, <1>7 DEF Together

\* A load that has come to its $start, with the manager at hand.
LEMMA StartBegins ==
    ASSUME ManagerInv, FrontTypeOK, Together, load.pc \in {"paths", "init"}, load'.pc = "start",
           load'.connected = load.connected, load'.plugins = load.plugins, Post(<<StartCall>>), manager,
           reply' \in {"none", reply},
           UNCHANGED <<task, registry, unreadable, up, running, crashed, forgotten, contributions, resets, manager>>
    PROVE  Together'
<1>1. /\ CallsAdded /\ \A c \in Added : c.call = "start" /\ c.plugins = load.plugins
      /\ \A i, j \in DOMAIN inbox' \ DOMAIN inbox : i = j
      /\ (~Alive => Added = {})
  BY StartCallAdds
<1>2. Loading'
  BY DEF Together, Loading, Going
<1>3. Starting'
  BY DEF Together, Starting, Going
<1>4. Talk'
  BY <1>1, TalkBegins DEF Together
<1>5. Agreed'
  <2>1. \A c \in Added : c.call # "stop"
    BY <1>1
  <2> QED BY <1>1, <2>1, AgreedOn DEF Together
<1> QED BY <1>2, <1>3, <1>4, <1>5 DEF Together

LEMMA PathsReceivedAgrees ==
    ASSUME PluginAssumption, ManagerInv, FrontTypeOK, Together, PathsReceived
    PROVE  Together'
<1>1. /\ load.pc = "paths" /\ up /\ load.connected
      /\ UNCHANGED <<reply, task, registry, unreadable, up, running, crashed, forgotten, contributions, resets>>
  BY DEF PathsReceived, backVars, Together, Loading, Going, hostVars, history
<1>2. CASE load.plugins = {} /\ FinishStart /\ UNCHANGED manager
  <2>1. CallsAdded /\ (\A c \in Added : c.call = "event") /\ (~Alive => Added = {})
        /\ load'.pc \in {"none", "finished"}
    BY <1>2, FinishAdds
  <2>2. \A c \in Added : c.call # "stop" /\ c.call # "start"
    BY <2>1
  <2>3. Loading'
    BY <1>1, <1>2, <2>1 DEF Together, Loading, Going
  <2>4. Starting'
    BY <1>1, <1>2, <2>1 DEF Together, Starting, Going
  <2>5. Talk'
    BY <1>1, <2>1, <2>2, TalkElsewhere DEF Together
  <2>6. Agreed'
    BY <1>1, <1>2, <2>1, <2>2, AgreedOn DEF Together
  <2> QED BY <2>3, <2>4, <2>5, <2>6 DEF Together
<1>3. CASE load.plugins # {} /\ manager /\ Post(<<StartCall>>) /\ load' = Await("start") /\ UNCHANGED manager
  <2>1. load'.pc = "start" /\ load'.connected = load.connected /\ load'.plugins = load.plugins
    BY <1>3, AwaitFields
  <2> QED BY <1>1, <1>3, <2>1, StartBegins
<1>4. CASE load.plugins # {} /\ manager' = TRUE /\ load' = Await("info") /\ UNCHANGED inbox
  <2>1. load'.pc = "info" /\ load'.connected = load.connected /\ load'.plugins = load.plugins
    BY <1>4, AwaitFields
  <2>2. CallsAdded /\ Added = {} /\ manager'
    BY <1>4, NothingAdded
  <2>3. Loading'
    BY <1>1, <1>4, <2>1 DEF Together, Loading, Going
  <2>4. Starting'
    BY <1>1, <2>1 DEF Together, Starting, Going
  <2>5. Talk'
    BY <1>1, <2>1, <2>2, TalkElsewhere DEF Together
  <2>6. Agreed'
    BY <1>1, <2>2, AgreedOn DEF Together
  <2> QED BY <2>3, <2>4, <2>5, <2>6 DEF Together
<1> QED BY <1>2, <1>3, <1>4 DEF PathsReceived, hostVars

LEMMA InfoReceivedAgrees ==
    ASSUME ManagerInv, FrontTypeOK, Together, InfoReceived
    PROVE  Together'
<1> DEFINE call == [call |-> "init"]
<1>1. /\ load.pc = "info" /\ Post(<<call>>) /\ load' = Await("init")
      /\ UNCHANGED <<reply, task, registry, unreadable, up, running, crashed, forgotten, contributions, resets, manager>>
  BY DEF InfoReceived, backVars, hostVars, history
<1>2. call \in Calls /\ call.call = "init"
  BY DEF Calls
<1> HIDE DEF call
<1>3. CallsAdded /\ Added \subseteq {call} /\ (~Alive => Added = {})
  BY <1>1, <1>2, PostAddsOne
<1>4. load'.pc = "init" /\ load'.connected = load.connected /\ load'.plugins = load.plugins
  BY <1>1, AwaitFields
<1>5. \A c \in Added : c.call # "stop" /\ c.call # "start"
  BY <1>2, <1>3
<1>6. Loading'
  BY <1>1, <1>4 DEF Together, Loading, Going
<1>7. Starting'
  BY <1>1, <1>4 DEF Together, Starting, Going
<1>8. Talk'
  BY <1>1, <1>3, <1>4, <1>5, TalkElsewhere DEF Together
<1>9. Agreed'
  BY <1>1, <1>3, <1>5, AgreedOn DEF Together
<1> QED BY <1>6, <1>7, <1>8, <1>9 DEF Together

LEMMA InitRepliedAgrees ==
    ASSUME ManagerInv, FrontTypeOK, Together, InitReplied
    PROVE  Together'
<1>1. /\ load.pc = "init" /\ reply' = "none" /\ Post(<<StartCall>>) /\ load' = Await("start")
      /\ UNCHANGED <<task, registry, unreadable, up, running, crashed, forgotten, contributions, resets, manager>>
  BY DEF InitReplied, backVars, hostVars, history
<1>2. load'.pc = "start" /\ load'.connected = load.connected /\ load'.plugins = load.plugins
  BY <1>1, AwaitFields
<1>3. manager
  BY <1>1 DEF Together, Loading
<1> QED BY <1>1, <1>2, <1>3, StartBegins

LEMMA StartRepliedAgrees ==
    ASSUME PluginAssumption, ManagerInv, FrontTypeOK, Together, StartReplied
    PROVE  Together'
<1>1. /\ load.pc = "start" /\ reply = "start" /\ reply' = "none"
      /\ contributions' = [p \in Plugins |-> IF p \in load.plugins THEN "started" ELSE contributions[p]]
      /\ FinishStart /\ forgotten' = forgotten \ load.plugins
      /\ UNCHANGED <<task, registry, unreadable, up, running, crashed, resets, manager>>
  BY DEF StartReplied, backVars, hostVars, history
<1>2. CallsAdded /\ (\A c \in Added : c.call = "event") /\ (~Alive => Added = {})
      /\ load'.pc \in {"none", "finished"}
  BY <1>1, FinishAdds
<1>3. /\ manager /\ up /\ running /\ load.connected
      /\ (\A p \in load.plugins : Reached(p)) /\ \A c \in UnderWay : c.call # "stop"
  BY <1>1 DEF Together, Loading, Talk, Going, Answered
<1>4. /\ \A p \in Plugins : contributions'[p] = IF p \in load.plugins THEN "started" ELSE contributions[p]
      /\ \A p \in Plugins : p \in load.plugins => contributions[p] = "starting"
  BY <1>1, <1>3 DEF Together, Starting, Going
<1>5. Loading'
  BY <1>1, <1>2, <1>3 DEF Loading, Going
<1>6. Starting'
  BY <1>1, <1>2, <1>4 DEF Together, Starting, Going
<1>7. Talk'
  BY <1>1, <1>2, TalkEnds DEF Together, Answered
<1>8. UnderWay' = UnderWay \cup Added
  BY <1>2, AddedUnderWay
<1>9. \A p \in registry : p \in Plugins
  BY DEF ManagerInv, ManagerTypeOK
<1>10. Agreed'
  BY <1>1, <1>2, <1>3, <1>4, <1>8, <1>9 DEF Together, Agreed, Reached, Alive
<1> QED BY <1>5, <1>6, <1>7, <1>10 DEF Together

\* What could not be started stays as it is.
LEMMA StartFailedAgrees ==
    ASSUME PluginAssumption, ManagerInv, FrontTypeOK, Together, StartFailed
    PROVE  Together'
<1>1. /\ load.pc = "start" /\ reply = "startRejected" /\ reply' = "none" /\ FinishStart
      /\ UNCHANGED <<task, registry, unreadable, up, running, crashed, forgotten, contributions, resets,
                     manager>>
  BY DEF StartFailed, backVars, hostVars
<1>2. CallsAdded /\ (\A c \in Added : c.call = "event") /\ (~Alive => Added = {})
      /\ load'.pc \in {"none", "finished"}
  BY <1>1, FinishAdds
<1>3. \A c \in Added : c.call # "stop"
  BY <1>2
<1>4. Loading'
  BY <1>1, <1>2 DEF Together, Loading, Going
<1>5. Starting'
  BY <1>1, <1>2 DEF Together, Starting, Going
<1>6. Talk'
  BY <1>1, <1>2, TalkEnds DEF Together, Answered
<1>7. Agreed'
  BY <1>1, <1>2, <1>3, AgreedOn DEF Together
<1> QED BY <1>4, <1>5, <1>6, <1>7 DEF Together

\* A load that gives up sends nothing, and leaves its plug-ins as they are.
LEMMA LoadFailsAgrees ==
    ASSUME ManagerInv, Together, LoadFails
    PROVE  Together'
<1>1. /\ load.pc # "start" /\ load'.pc = "none" /\ reply' \in {"none", reply}
      /\ UNCHANGED <<inbox, task, registry, unreadable, up, running, crashed, forgotten, contributions,
                     resets, manager>>
  BY DEF LoadFails, backVars, NoLoad, hostVars
<1>2. CallsAdded /\ Added = {}
  BY <1>1, NothingAdded
<1>3. Loading'
  BY <1>1 DEF Together, Loading, Going
<1>4. Starting'
  BY <1>1 DEF Together, Starting, Going
<1>5. Talk'
  BY <1>1, <1>2, TalkElsewhere DEF Together
<1>6. Agreed'
  BY <1>1, <1>2, AgreedOn DEF Together
<1> QED BY <1>3, <1>4, <1>5, <1>6 DEF Together

LEMMA FinishedRepliedAgrees ==
    ASSUME ManagerInv, Together, FinishedReplied
    PROVE  Together'
<1>1. /\ load.pc = "finished" /\ load'.pc = "none" /\ reply' = "none"
      /\ UNCHANGED <<inbox, task, registry, unreadable, up, running, crashed, forgotten, contributions, resets, manager>>
  BY DEF FinishedReplied, backVars, NoLoad, hostVars, history
<1>2. CallsAdded /\ Added = {}
  BY <1>1, NothingAdded
<1>3. Loading'
  BY <1>1 DEF Together, Loading, Going
<1>4. Starting'
  BY <1>1 DEF Together, Starting, Going
<1>5. Talk'
  BY <1>1, <1>2, TalkElsewhere DEF Together
<1>6. Agreed'
  BY <1>1, <1>2, AgreedOn DEF Together
<1> QED BY <1>3, <1>4, <1>5, <1>6 DEF Together

LEMMA RaiseEventAgrees ==
    ASSUME PluginAssumption, ManagerInv, Together, NEW e \in Events, RaiseEvent(e)
    PROVE  Together'
<1>1. Raise(e) /\ UNCHANGED <<reply, task, registry, unreadable, up, running, crashed, forgotten, contributions, resets, manager, load>>
  BY DEF RaiseEvent, backVars, hostVars, history
<1>2. CallsAdded /\ Added \subseteq {[call |-> "event", event |-> e]}
      /\ (~Alive => Added = {})
  BY <1>1, RaiseAdds
<1>3. \A c \in Added : c.call = "event" /\ c.call # "stop"
  BY <1>2
<1>4. Loading'
  BY <1>1 DEF Together, Loading, Known
<1>5. Starting'
  BY <1>1 DEF Together, Starting
<1>6. Talk'
  BY <1>1, <1>2, <1>3, TalkOfEvents DEF Together
<1>7. Agreed'
  BY <1>1, <1>2, <1>3, AgreedOn DEF Together
<1> QED BY <1>4, <1>5, <1>6, <1>7 DEF Together

\* A new host knows nobody, and nobody is started.
LEMMA DisconnectAgrees ==
    ASSUME FrontTypeOK, Together, Disconnect
    PROVE  Together'
<1>1. /\ inbox' = <<>> /\ reply' = "none" /\ registry' = {} /\ task'.kind = "none"
      /\ manager' = FALSE /\ crashed' = FALSE
      /\ contributions' = [p \in Plugins |-> IF p \in resets THEN "loaded" ELSE contributions[p]]
      /\ load' = IF load.pc \in {"layout", "widgets"} THEN [load EXCEPT !.connected = FALSE] ELSE NoLoad
  BY DEF Disconnect, Replaced, Ended, Idle
<1>2. load'.pc \in {"none", "layout", "widgets"} /\ (load'.pc \in {"layout", "widgets"} => ~load'.connected)
  BY <1>1, AwaitFields DEF FrontTypeOK
<1>3. \A p \in Plugins : contributions'[p] \notin {"starting", "started"}
  BY <1>1 DEF Together, Starting
<1>4. UnderWay' = {} /\ StartsLast'
  BY <1>1 DEF UnderWay, StartsLast
<1>5. Loading'
  BY <1>1, <1>2 DEF Loading, Going
<1>6. Starting'
  BY <1>2, <1>3 DEF Starting, Going
<1>7. Talk'
  BY <1>1, <1>4 DEF Talk, Answered
<1>8. Agreed'
  BY <1>1, <1>3, <1>4 DEF Agreed, Reached
<1> QED BY <1>5, <1>6, <1>7, <1>8 DEF Together

\* A host that is gone is excused.
LEMMA HostCrashesAgrees ==
    ASSUME Together, HostCrashes
    PROVE  Together'
<1>1. /\ inbox' = <<>> /\ registry' = {} /\ task'.kind = "none" /\ crashed'
      /\ UNCHANGED <<reply, up, running, contributions, resets, manager, load, forgotten>>
  BY DEF HostCrashes, Ended, Idle, frontVars, history
<1>2. UnderWay' = {} /\ StartsLast'
  BY <1>1 DEF UnderWay, StartsLast
<1>3. Loading'
  BY <1>1 DEF Together, Loading, Known
<1>4. Starting'
  BY <1>1 DEF Together, Starting
<1>5. Talk'
  BY <1>1, <1>2 DEF Together, Talk, Reached
<1>6. Agreed'
  BY <1>1, <1>2 DEF Together, Agreed, Reached
<1> QED BY <1>3, <1>4, <1>5, <1>6 DEF Together

\* Each step of the host takes a call, or goes on with its task.
LEMMA HostAgrees ==
    ASSUME PluginAssumption, ManagerInv, Together, Host
    PROVE  Together'
<1>1. Tells /\ UNCHANGED <<up, running, crashed, contributions, resets, manager, load, forgotten>>
  BY HostTells DEF Host, frontVars, backVars, history
<1>2. Loading' /\ Starting'
  BY <1>1 DEF Together, Loading, Starting, Known
<1>3. Talk /\ Agreed /\ StartsLast /\ Starting /\ Loading
  BY DEF Together, Talk
<1> SUFFICES Talk' /\ Agreed'
  BY <1>2 DEF Together
<1>4. CASE Loads
  <2>1. UNCHANGED <<inbox, reply, registry, unreadable, task>> /\ UnderWay' = UnderWay /\ StartsLast'
    BY <1>3, <1>4 DEF Loads, UnderWay, StartsLast
  <2> QED BY <1>1, <1>3, <2>1 DEF Talk, Agreed, Reached, Answered
<1>5. CASE TakesInit
  <2>1. /\ UnderWay = UnderWay' \cup {inbox[1]} /\ StartsLast' /\ inbox[1].call = "init"
        /\ reply' = "init" /\ UNCHANGED <<registry, unreadable, task>>
    BY <1>3, <1>5, TakenUnderWay DEF TakesInit
  <2> QED BY <1>1, <1>3, <2>1 DEF Talk, Agreed, Reached, Answered
<1>6. CASE TakesStart
  <2>1. /\ UnderWay = UnderWay' \cup {inbox[1]} /\ StartsLast' /\ inbox[1].call = "start"
        /\ \A c \in UnderWay' : c.call \notin {"start", "stop"}
        /\ task'.kind = "manifests" /\ task'.plugins = inbox[1].plugins /\ UNCHANGED <<registry, unreadable, reply>>
    BY <1>3, <1>6, TakenUnderWay DEF TakesStart
  <2>2. load.pc = "start" /\ task'.plugins = load.plugins /\ reply \notin Answered
    BY <1>3, <2>1 DEF Talk, Reached, Answered
  <2>3. Talk'
    BY <1>1, <2>1, <2>2 DEF Talk, Reached, Answered
  <2>4. Agreed'
    BY <1>1, <1>3, <2>1 DEF Agreed, Reached
  <2> QED BY <2>3, <2>4
<1>7. CASE ReadsManifests
  <2>1. /\ UnderWay' = UnderWay /\ StartsLast' /\ UNCHANGED reply
        /\ task.kind = "manifests" /\ task'.kind = "events" /\ task'.plugins = task.plugins
    BY <1>3, <1>7 DEF ReadsManifests, UnderWay, StartsLast
  <2>2. PICK read \in SUBSET task.plugins :
          registry' = registry \cup read /\ unreadable' = (unreadable \cup task.plugins) \ read
    BY <1>7 DEF ReadsManifests
  <2>3. /\ load.pc = "start" /\ task.plugins = load.plugins /\ reply \notin Answered /\ load.connected
        /\ ~crashed
    BY <1>3, <2>1 DEF Talk, Loading, Going, Agreed
  <2>4. \A p \in load.plugins \cap Plugins : contributions[p] = "starting"
    BY <1>3, <2>3 DEF Starting, Going
  <2>5. \A p : Reached(p) \/ p \in load.plugins => Reached(p)'
    BY <1>1, <2>2, <2>3 DEF Reached
  <2>6. Talk'
    BY <1>1, <1>3, <2>1, <2>3, <2>5 DEF Talk, Answered
  <2>7. load.plugins \subseteq Plugins
    BY <2>3 DEF ManagerInv, ManagerTypeOK, Tasks
  <2>8. Agreed'
    BY <1>1, <1>3, <2>1, <2>2, <2>3, <2>4, <2>5, <2>7 DEF Agreed
  <2> QED BY <2>6, <2>8
<1>8. CASE AnswersStart
  <2>1. /\ UnderWay' = UnderWay /\ StartsLast' /\ task.kind = "events" /\ task'.kind = "none"
        /\ reply' = "start" /\ UNCHANGED <<registry, unreadable>>
    BY <1>3, <1>8 DEF AnswersStart, UnderWay, StartsLast
  <2> QED BY <1>1, <1>3, <2>1 DEF Talk, Agreed, Reached, Answered
<1>9. CASE AnswersEvent
  <2>1. /\ UnderWay' = UnderWay /\ StartsLast' /\ task'.kind = "none" /\ reply' \in {"event", "eventRejected"}
        /\ UNCHANGED <<registry, unreadable>>
    BY <1>3, <1>9 DEF AnswersEvent, UnderWay, StartsLast
  <2> QED BY <1>1, <1>3, <2>1 DEF Talk, Agreed, Reached, Answered
<1>10. ASSUME NEW e \in Events, PassesOn(e) PROVE Talk' /\ Agreed'
  <2>1. /\ UnderWay' = UnderWay /\ StartsLast' /\ task.kind = "events" /\ task'.kind = "events"
        /\ task'.plugins = task.plugins /\ UNCHANGED <<reply, registry, unreadable>>
    BY <1>3, <1>10 DEF PassesOn, UnderWay, StartsLast
  <2> QED BY <1>1, <1>3, <2>1 DEF Talk, Agreed, Reached, Answered
<1>11. ASSUME NEW e \in Events, TakesEvent(e) PROVE Talk' /\ Agreed'
  <2>1. /\ UnderWay = UnderWay' \cup {inbox[1]} /\ StartsLast' /\ inbox[1].call = "event"
        /\ task'.kind = "event" \/ task' = task
        /\ UNCHANGED <<reply, registry, unreadable>>
    BY <1>3, <1>11, TakenUnderWay DEF TakesEvent
  <2>2. Talk'
    BY <1>1, <1>3, <2>1 DEF Talk, Reached, Answered
  <2>3. Agreed'
    BY <1>1, <1>3, <2>1 DEF Agreed, Reached
  <2> QED BY <2>2, <2>3
<1>12. ASSUME NEW p \in Plugins, TakesStop(p) PROVE Talk' /\ Agreed'
  <2>1. /\ UnderWay = UnderWay' \cup {inbox[1]} /\ StartsLast' /\ inbox[1].call = "stop" /\ inbox[1].plugin = p
        /\ registry' = registry \ {p} /\ UNCHANGED <<reply, task, unreadable>>
    BY <1>3, <1>12, TakenUnderWay DEF TakesStop
  <2>2. task.kind \notin {"manifests", "events"} /\ reply \notin Answered
    BY <1>3, <2>1 DEF Talk, Reached, Answered
  <2>3. Talk'
    BY <1>1, <1>3, <2>1, <2>2 DEF Talk, Reached, Answered
  <2>4. Agreed'
    BY <1>1, <1>3, <2>1 DEF Agreed, Reached
  <2> QED BY <2>3, <2>4
<1>13. CASE RejectsStart
  <2>1. /\ UnderWay' = UnderWay /\ StartsLast' /\ task.kind = "events" /\ task'.kind = "none"
        /\ reply' = "startRejected" /\ UNCHANGED <<registry, unreadable>>
    BY <1>3, <1>13 DEF RejectsStart, UnderWay, StartsLast
  <2> QED BY <1>1, <1>3, <2>1 DEF Talk, Agreed, Reached, Answered
<1> QED BY <1>13, <1>1, <1>4, <1>5, <1>6, <1>7, <1>8, <1>9, <1>10, <1>11, <1>12 DEF Tells

LEMMA TogetherAtFirst ==
    ASSUME Init
    PROVE  Together
<1>1. /\ inbox = <<>> /\ reply = "none" /\ registry = {} /\ task.kind = "none" /\ manager = FALSE
      /\ crashed = FALSE
      /\ load.pc = "none" /\ \A p \in Plugins : contributions[p] = "absent"
  BY DEF Init, Fresh, Idle, NoLoad
<1>2. UnderWay = {} /\ StartsLast
  BY <1>1 DEF UnderWay, StartsLast
<1> QED BY <1>1, <1>2 DEF Together, Loading, Starting, Talk, Agreed, Answered, Going

LEMMA TogetherKept ==
    ASSUME PluginAssumption, PluginInv, Together, [Next]_vars
    PROVE  Together'
<1>1. ManagerInv /\ FrontTypeOK
  BY DEF PluginInv, TypeOK, ManagerInv
<1>2. CASE DebounceTimer \/ Notice \/ Deploy \/ Connect \/ UNCHANGED vars
  <2>1. UNCHANGED <<inbox, reply, task, registry, unreadable, running, crashed, contributions, resets,
                    forgotten, manager, load>>
    BY <1>2 DEF DebounceTimer, Notice, Deploy, Connect, vars, managerVars, frontVars, backVars, hostVars,
                history, history
  <2>2. up => up'
    BY <1>2 DEF DebounceTimer, Notice, Deploy, Connect, vars, backVars
  <2> QED BY <2>1, <2>2, OthersAgree
<1>3. CASE FrontLoads /\ ~DebounceTimer /\ ~Notice
  BY <1>1, <1>3, LoadBeginsAgrees, IdsReceivedAgrees, PluginsReceivedAgrees, LayoutReadyAgrees,
     WidgetsReadyAgrees, PathsReceivedAgrees, InfoReceivedAgrees, InitRepliedAgrees,
     StartRepliedAgrees, StartFailedAgrees, FinishedRepliedAgrees DEF FrontLoads
<1>4. CASE Host
  BY <1>1, <1>4, HostAgrees
<1>5. CASE Disconnect
  BY <1>1, <1>5, DisconnectAgrees
<1>6. CASE \E e \in Events \ {StartupFinished} : RaiseEvent(e)
  BY <1>1, <1>6, RaiseEventAgrees
<1>7. CASE LoadFails
  BY <1>1, <1>7, LoadFailsAgrees
<1>8. CASE HostCrashes
  BY <1>8, HostCrashesAgrees
<1> QED BY <1>2, <1>3, <1>4, <1>5, <1>6, <1>7, <1>8 DEF Next, FrontLoads

LEMMA AgreedIsHostsAgree ==
    ASSUME ManagerInv, Agreed
    PROVE  HostsAgree
<1>1. \A p : StopSent(p) <=> \E c \in UnderWay : c.call = "stop" /\ c.plugin = p
  BY SentByPosition DEF UnderWay
<1>2. \A p \in registry : contributions[p] \in {"starting", "started"} \/ StopSent(p) \/ p \in forgotten
  BY <1>1 DEF Agreed, Reached
<1>3. \A p \in Plugins : contributions[p] = "started" => up /\ running /\ manager /\ Reached(p)
  BY DEF Agreed, Reached
<1> HIDE DEF StopSent
<1> QED BY <1>2, <1>3 DEF HostsAgree, Reached

\* The inductive invariant of the front end and its plug-in host: in every step of a load
\* the host that it needs is there, unless it has crashed, it is told of one $start at a time,
\* what it is told to stop is not held for started, and when $start answers each of its
\* plug-ins is registered, unless its manifest was unreadable.
THEOREM TogetherInvariant == Spec => [](PluginInv /\ Together)
<1>1. Init => PluginInv /\ Together
  BY InitSafe, TogetherAtFirst, PluginAssumption, DeployAssumption
<1>2. PluginInv /\ Together /\ [Next]_vars => (PluginInv /\ Together)'
  BY StepSafe, TogetherKept, PluginAssumption, DeployAssumption
<1> QED BY <1>1, <1>2, PTL DEF Spec

\* What the front end holds for started is registered in the plug-in host of the current
\* connection, unless the host could not read its manifest or has crashed, and the host has
\* no others but those it is being told to start or stop, or that were undeployed after their
\* $start was rejected: whatever is deployed, undeployed and loaded while connections come
\* and go and requests fail.
THEOREM SidesAgree == Spec => []HostsAgree
<1>1. PluginInv /\ Together => HostsAgree
  BY AgreedIsHostsAgree DEF PluginInv, TypeOK, ManagerInv, Together
<1> QED BY <1>1, TogetherInvariant, PTL

-----------------------------------------------------------------------------
(* Events *)

RaisedSoFar == ToSet(activationEvents)
Coming(e) == \E c \in UnderWay : c.call = "event" /\ c.event = e

\* A registered plug-in waits for each of its events, or has begun to be activated.
Waits ==
    /\ ~manager => registry = {}
    /\ \A p \in registry : \A e \in Subscribed[p] : p \in activations[e] \/ loadedPlugins[p] # 0

\* p is held for started, or will be with the answer that $start comes to.
Told(p) ==
    contributions[p] = "started" \/ ((task.kind = "events" \/ reply = "start") /\ p \in load.plugins)

\* e has activated p, or will.
Served(p, e) ==
    \/ loadedPlugins[p] # 0 \/ e \in overlooked \/ Coming(e)
    \/ task.kind = "events" /\ p \in task.plugins /\ e \in ToSet(task.events)

\* What was raised has activated it, or will.
Noticed ==
    \A p \in registry : Told(p) => \A e \in Subscribed[p] \cap RaisedSoFar : Served(p, e)

\* A $start is given what was raised before it, and what is raised later follows it.
Given ==
    /\ task.kind = "manifests" =>
          \A e \in RaisedSoFar : e \in ToSet(task.events) \/ e \in overlooked \/ Coming(e)
    /\ \A i \in DOMAIN inbox : inbox[i].call = "start" =>
          \A e \in RaisedSoFar :
              \/ e \in ToSet(inbox[i].events)
              \/ \E j \in DOMAIN inbox : i < j /\ inbox[j].call = "event" /\ inbox[j].event = e

\* Either answer to the event of the end of the start.
EventAnswers == {"event", "eventRejected"}

\* The end of the start is told to the host once, and the load waits for its answer.
Finishing ==
    /\ Coming(StartupFinished) => load.pc = "finished"
    /\ \A c \in UnderWay : c.call = "event" => c.event \in RaisedSoFar
    /\ \A i, j \in DOMAIN inbox :
          /\ inbox[i].call = "event" /\ inbox[i].event = StartupFinished
          /\ inbox[j].call = "event" /\ inbox[j].event = StartupFinished
          => i = j
    /\ task.kind = "event" \/ reply \in EventAnswers =>
          StartupFinished \in RaisedSoFar /\ ~Coming(StartupFinished)

Passing == Waits /\ Noticed /\ Given /\ Finishing

LEMMA HeadAndRest ==
    ASSUME NEW S, NEW s \in Seq(S), s # <<>>
    PROVE  \A x \in ToSet(s) : x = Head(s) \/ x \in ToSet(Tail(s))
<1>1. Len(s) \in Nat \ {0} /\ DOMAIN s = 1 .. Len(s) /\ Head(s) = s[1]
  BY EmptySeq, LenProperties
<1>2. Tail(s) \in Seq(S) /\ Len(Tail(s)) = Len(s) - 1 /\ \A i \in 1 .. Len(Tail(s)) : Tail(s)[i] = s[i + 1]
  BY HeadTailProperties
<1>3. DOMAIN Tail(s) = 1 .. Len(s) - 1
  BY <1>2, LenProperties
<1> SUFFICES ASSUME NEW i \in DOMAIN s, i # 1 PROVE s[i] \in ToSet(Tail(s))
  BY <1>1 DEF ToSet
<1> SUFFICES ASSUME NEW k, k = i - 1 PROVE s[i] \in ToSet(Tail(s))
  OBVIOUS
<1>4. k \in DOMAIN Tail(s) /\ k + 1 = i
  BY <1>1, <1>3
<1> QED BY <1>2, <1>3, <1>4 DEF ToSet

LEMMA OneMore ==
    ASSUME NEW S, NEW s \in Seq(S), NEW x \in S
    PROVE  ToSet(Append(s, x)) = ToSet(s) \cup {x}
<1> SUFFICES ASSUME NEW t, t = Append(s, x) PROVE ToSet(t) = ToSet(s) \cup {x}
  OBVIOUS
<1>1. Len(s) \in Nat /\ DOMAIN s = 1 .. Len(s)
  BY LenProperties
<1>2. t \in Seq(S) /\ Len(t) = Len(s) + 1 /\ (\A i \in 1 .. Len(s) : t[i] = s[i]) /\ t[Len(s) + 1] = x
  BY AppendProperties
<1>3. DOMAIN t = 1 .. Len(s) + 1
  BY <1>2, LenProperties
<1>4. Len(s) + 1 \in DOMAIN t
  BY <1>1, <1>3
<1>5. \A i \in DOMAIN t : i \in DOMAIN s \/ i = Len(s) + 1
  BY <1>1, <1>3
<1>6. \A i \in DOMAIN s : i \in DOMAIN t /\ t[i] = s[i]
  BY <1>1, <1>2, <1>3
<1> QED BY <1>2, <1>4, <1>5, <1>6 DEF ToSet

\* As long as no $start is answered, nothing comes to be started.
LEMMA NothingNewTold ==
    ASSUME Talk, load.pc # "start", UNCHANGED task, reply' \in {"none", reply},
           \A p \in Plugins : contributions'[p] = "started" => contributions[p] = "started"
    PROVE  \A p \in Plugins : Told(p)' => Told(p)
BY DEF Talk, Told, Answered

\* Calls that are no events, and of which each $start is given all events, change nothing.
LEMMA CallsPass ==
    ASSUME ManagerInv, Passing, CallsAdded, \A p \in Plugins : Told(p)' => Told(p),
           \A c \in Added : c.call # "event" /\ (c.call = "start" => c.events = activationEvents),
           UNCHANGED <<registry, activations, loadedPlugins, task, overlooked, activationEvents>>,
           manager => manager', reply' \in {"none", reply},
           load.pc = "finished" => load'.pc = "finished" \/ ~Coming(StartupFinished)
    PROVE  Passing'
<1>1. UnderWay' = UnderWay \cup Added
  BY AddedUnderWay
<1>2. \A e : Coming(e)' <=> Coming(e)
  BY <1>1 DEF Coming
<1>3. UNCHANGED RaisedSoFar
  BY DEF RaisedSoFar
<1>4. /\ \A i \in DOMAIN inbox : i \in DOMAIN inbox' /\ inbox'[i] = inbox[i]
      /\ \A i \in DOMAIN inbox' : inbox'[i].call = "event" => i \in DOMAIN inbox
      /\ \A i \in DOMAIN inbox' : i \notin DOMAIN inbox /\ inbox'[i].call = "start" =>
            inbox'[i].events = activationEvents
  BY DEF CallsAdded, Added
<1>5. Waits'
  BY DEF Passing, Waits
<1>6. Noticed'
  BY <1>2, <1>3 DEF Passing, Noticed, Served, ManagerInv, ManagerTypeOK
<1>7. Given'
  <2>1. task'.kind = "manifests" =>
          \A e \in RaisedSoFar' : e \in ToSet(task'.events) \/ e \in overlooked' \/ Coming(e)'
    BY <1>2, <1>3 DEF Passing, Given
  <2>2. ASSUME NEW i \in DOMAIN inbox', inbox'[i].call = "start", NEW e \in RaisedSoFar'
        PROVE  \/ e \in ToSet(inbox'[i].events)
               \/ \E j \in DOMAIN inbox' : i < j /\ inbox'[j].call = "event" /\ inbox'[j].event = e
    <3>1. CASE i \in DOMAIN inbox
      BY <1>3, <1>4, <2>2, <3>1 DEF Passing, Given
    <3>2. CASE i \notin DOMAIN inbox
      BY <1>3, <1>4, <2>2, <3>2 DEF RaisedSoFar
    <3> QED BY <3>1, <3>2
  <2> QED BY <2>1, <2>2 DEF Given
<1>8. Finishing'
  BY <1>1, <1>2, <1>3, <1>4 DEF Passing, Finishing, EventAnswers
<1> QED BY <1>5, <1>6, <1>7, <1>8 DEF Passing

\* An event that is raised the first time is passed on.
LEMMA EventRaised ==
    ASSUME PluginAssumption, ManagerInv, FrontTypeOK, Together, Passing,
           NEW e \in Events, e \notin RaisedSoFar, Raise(e),
           UNCHANGED <<registry, activations, loadedPlugins, task, overlooked, manager>>,
           reply' \in {"none", reply}, \A p \in Plugins : Told(p)' => Told(p),
           e = StartupFinished /\ manager => load'.pc = "finished",
           e # StartupFinished => load' = load
    PROVE  Passing'
<1> DEFINE call == [call |-> "event", event |-> e]
<1>1. /\ CallsAdded /\ Added \subseteq {call}
      /\ manager /\ Alive => Added = {call}
      /\ \A i, j \in DOMAIN inbox' \ DOMAIN inbox : i = j
  BY RaiseAdds
<1>2. RaisedSoFar' = RaisedSoFar \cup {e}
  <2>1. activationEvents' = Append(activationEvents, e) /\ activationEvents \in Seq(Events)
    BY DEF Raise, FrontTypeOK
  <2> QED BY <2>1, OneMore DEF RaisedSoFar
<1>3. call.call = "event" /\ call.event = e
  OBVIOUS
<1> HIDE DEF call
<1>4. UnderWay' = UnderWay \cup Added
  BY <1>1, AddedUnderWay
<1>5. \A f : Coming(f) => Coming(f)'
  BY <1>4 DEF Coming
<1>6. \A f : Coming(f)' /\ f # e => Coming(f)
  BY <1>1, <1>3, <1>4 DEF Coming
<1>7. manager /\ ~crashed => call \in Added /\ Coming(e)'
  <2>1. manager /\ ~crashed => Alive
    BY DEF Together, Loading, Alive
  <2> QED BY <1>1, <1>3, <1>4, <2>1 DEF Coming
<1>8. ~Coming(e)
  BY DEF Passing, Finishing, Coming
<1>9. /\ \A i \in DOMAIN inbox : i \in DOMAIN inbox' /\ inbox'[i] = inbox[i]
      /\ \A i \in DOMAIN inbox' : i \notin DOMAIN inbox => inbox'[i] = call
      /\ \A i \in DOMAIN inbox : \A j \in DOMAIN inbox' : j \notin DOMAIN inbox => i < j
  BY <1>1 DEF CallsAdded, Added
<1>10. Waits'
  BY DEF Passing, Waits
<1>11. Noticed'
  <2> SUFFICES ASSUME NEW p \in registry, Told(p)', NEW f \in Subscribed[p] \cap RaisedSoFar'
               PROVE  Served(p, f)'
    BY DEF Noticed
  <2>1. manager /\ ~crashed /\ p \in Plugins
    BY DEF Passing, Waits, Together, Agreed, ManagerInv, ManagerTypeOK
  <2>2. CASE f = e
    BY <1>7, <2>1, <2>2 DEF Served
  <2>3. CASE f # e
    <3>1. Served(p, f)
      BY <1>2, <2>1, <2>3 DEF Passing, Noticed
    <3> QED BY <1>5, <3>1 DEF Served
  <2> QED BY <2>2, <2>3
<1>12. Given'
  <2>1. task.kind = "manifests" => manager /\ ~crashed
    BY DEF Together, Talk, Loading, Agreed
  <2>2. task'.kind = "manifests" =>
          \A f \in RaisedSoFar' : f \in ToSet(task'.events) \/ f \in overlooked' \/ Coming(f)'
    BY <1>2, <1>5, <1>7, <2>1 DEF Passing, Given
  <2>3. ASSUME NEW i \in DOMAIN inbox', inbox'[i].call = "start", NEW f \in RaisedSoFar'
        PROVE  \/ f \in ToSet(inbox'[i].events)
               \/ \E j \in DOMAIN inbox' : i < j /\ inbox'[j].call = "event" /\ inbox'[j].event = f
    <3>1. i \in DOMAIN inbox /\ inbox'[i] = inbox[i]
      BY <1>3, <1>9, <2>3
    <3>2. manager /\ ~crashed
      <4>1. inbox[i] \in UnderWay /\ inbox[i].call = "start"
        BY <2>3, <3>1 DEF UnderWay
      <4> QED BY <4>1 DEF Together, Talk, Loading, Agreed
    <3>3. CASE f \in RaisedSoFar
      BY <1>9, <2>3, <3>1, <3>3 DEF Passing, Given
    <3>4. CASE f = e
      <4>1. PICK j \in DOMAIN inbox' \ DOMAIN inbox : inbox'[j] = call
        BY <1>7, <3>2 DEF Added
      <4> QED BY <1>3, <1>9, <3>1, <3>4, <4>1
    <3> QED BY <1>2, <3>3, <3>4
  <2> QED BY <2>2, <2>3 DEF Given
<1>13. Finishing'
  <2>1. Coming(StartupFinished)' => load'.pc = "finished"
    <3>1. CASE e = StartupFinished
      <4>1. ~manager => Added = {}
        <5>1. ~manager => UNCHANGED inbox
          BY DEF Raise
        <5> QED BY <5>1, NothingAdded
      <4> QED BY <1>4, <1>8, <3>1, <4>1 DEF Coming
    <3>2. CASE e # StartupFinished
      BY <1>6, <3>2 DEF Passing, Finishing
    <3> QED BY <3>1, <3>2
  <2>2. \A c \in UnderWay' : c.call = "event" => c.event \in RaisedSoFar'
    BY <1>1, <1>2, <1>3, <1>4 DEF Passing, Finishing
  <2>3. ASSUME NEW i \in DOMAIN inbox', NEW j \in DOMAIN inbox',
               inbox'[i].call = "event", inbox'[i].event = StartupFinished,
               inbox'[j].call = "event", inbox'[j].event = StartupFinished
        PROVE  i = j
    <3>1. CASE e = StartupFinished
      <4>1. \A k \in DOMAIN inbox : ~(inbox[k].call = "event" /\ inbox[k].event = e)
        BY <1>8 DEF Coming, UnderWay
      <4> QED BY <1>1, <1>9, <2>3, <3>1, <4>1
    <3>2. CASE e # StartupFinished
      <4>1. i \in DOMAIN inbox /\ j \in DOMAIN inbox
        BY <1>3, <1>9, <2>3, <3>2
      <4> QED BY <1>9, <2>3, <4>1 DEF Passing, Finishing
    <3> QED BY <3>1, <3>2
  <2>4. task'.kind = "event" \/ reply' \in EventAnswers =>
            StartupFinished \in RaisedSoFar' /\ ~Coming(StartupFinished)'
    BY <1>2, <1>6 DEF Passing, Finishing, EventAnswers
  <2> QED BY <2>1, <2>2, <2>3, <2>4 DEF Finishing
<1> QED BY <1>10, <1>11, <1>12, <1>13 DEF Passing

\* The activation of those that wait for an event.
LEMMA ActivationReaches ==
    ASSUME NEW e, NEW acts \in [Events \cup {Eager} -> SUBSET Plugins], NEW reg,
           e \in Events \cup {Eager}, Activates(e, acts, reg), reg \subseteq Plugins,
           \A p \in reg : \A f \in Subscribed[p] : f \in Events \cup {Eager},
           \A p \in reg : \A f \in Subscribed[p] : p \in acts[f] \/ loadedPlugins[p] # 0
    PROVE  /\ \A p \in reg : \A f \in Subscribed[p] : p \in activations'[f] \/ loadedPlugins'[p] # 0
           /\ \A p \in reg : e \in Subscribed[p] => loadedPlugins'[p] # 0
<1>1. /\ MoreLoaded /\ activations' = [acts EXCEPT ![e] = {}]
      /\ \A p \in acts[e] \cap reg : loadedPlugins'[p] # 0
  BY DEF Activates
<1>2. \A p \in reg : e \in Subscribed[p] => loadedPlugins'[p] # 0
  BY <1>1 DEF MoreLoaded
<1>3. \A f \in Events \cup {Eager} : f # e => activations'[f] = acts[f]
  BY <1>1
<1> QED BY <1>1, <1>2, <1>3 DEF MoreLoaded

LEMMA SubscribedEvents ==
    ASSUME PluginAssumption
    PROVE  \A p \in Plugins : \A f \in Subscribed[p] : f \in Events \cup {Eager}
BY DEF PluginAssumption

\* The host takes a call; those behind it stay in order.
LEMMA TakenStaysGiven ==
    ASSUME CallTaken, Passing, UNCHANGED activationEvents
    PROVE  /\ \A i \in DOMAIN inbox' : inbox'[i].call = "start" =>
                \A e \in RaisedSoFar' :
                    \/ e \in ToSet(inbox'[i].events)
                    \/ \E j \in DOMAIN inbox' : i < j /\ inbox'[j].call = "event" /\ inbox'[j].event = e
           /\ \A i, j \in DOMAIN inbox' :
                /\ inbox'[i].call = "event" /\ inbox'[i].event = StartupFinished
                /\ inbox'[j].call = "event" /\ inbox'[j].event = StartupFinished
                => i = j
           /\ inbox[1].call = "event" /\ inbox[1].event = StartupFinished => ~Coming(StartupFinished)'
           /\ inbox[1].call = "start" =>
                \A e \in RaisedSoFar : e \in ToSet(inbox[1].events) \/ Coming(e)'
           /\ \A e : Coming(e) => Coming(e)' \/ (inbox[1].call = "event" /\ inbox[1].event = e)
           /\ \A e : Coming(e)' => Coming(e)
           /\ inbox[1] \in UnderWay /\ \A c \in UnderWay' : c \in UnderWay
<1>1. /\ \A i \in DOMAIN inbox' : i + 1 \in DOMAIN inbox /\ inbox'[i] = inbox[i + 1] /\ i \in Nat \ {0}
      /\ \A i \in DOMAIN inbox : i # 1 => i - 1 \in DOMAIN inbox' /\ inbox'[i - 1] = inbox[i]
      /\ 1 \in DOMAIN inbox /\ \A i \in DOMAIN inbox : i \in Nat
  BY DEF CallTaken
<1>2. RaisedSoFar' = RaisedSoFar
  BY DEF RaisedSoFar
<1>3. UnderWay = UnderWay' \cup {inbox[1]}
  BY <1>1 DEF UnderWay
<1>4. ASSUME NEW i \in DOMAIN inbox', inbox'[i].call = "start", NEW e \in RaisedSoFar,
             e \notin ToSet(inbox'[i].events)
      PROVE  \E j \in DOMAIN inbox' : i < j /\ inbox'[j].call = "event" /\ inbox'[j].event = e
  <2> SUFFICES ASSUME NEW k, k = i + 1
               PROVE  \E j \in DOMAIN inbox' : i < j /\ inbox'[j].call = "event" /\ inbox'[j].event = e
    OBVIOUS
  <2>1. k \in DOMAIN inbox /\ inbox[k] = inbox'[i]
    BY <1>1
  <2>2. PICK j \in DOMAIN inbox : k < j /\ inbox[j].call = "event" /\ inbox[j].event = e
    BY <1>4, <2>1 DEF Passing, Given
  <2> SUFFICES ASSUME NEW n, n = j - 1
               PROVE  \E m \in DOMAIN inbox' : i < m /\ inbox'[m].call = "event" /\ inbox'[m].event = e
    OBVIOUS
  <2>3. j # 1 /\ i < n
    BY <1>1, <2>2
  <2>4. n \in DOMAIN inbox' /\ inbox'[n] = inbox[j]
    BY <1>1, <2>3
  <2> QED BY <2>2, <2>3, <2>4
<1>5. ASSUME NEW i \in DOMAIN inbox', NEW j \in DOMAIN inbox',
             inbox'[i].call = "event", inbox'[i].event = StartupFinished,
             inbox'[j].call = "event", inbox'[j].event = StartupFinished
      PROVE  i = j
  <2>1. i + 1 = j + 1
    BY <1>1, <1>5 DEF Passing, Finishing
  <2> QED BY <1>1, <2>1
<1>6. ASSUME inbox[1].call = "event", inbox[1].event = StartupFinished, Coming(StartupFinished)'
      PROVE  FALSE
  <2>1. PICK i \in DOMAIN inbox' : inbox'[i].call = "event" /\ inbox'[i].event = StartupFinished
    BY <1>6 DEF Coming, UnderWay
  <2>2. i + 1 = 1
    BY <1>1, <1>6, <2>1 DEF Passing, Finishing
  <2> QED BY <1>1, <2>1, <2>2
<1>7. ASSUME inbox[1].call = "start", NEW e \in RaisedSoFar, e \notin ToSet(inbox[1].events)
      PROVE  Coming(e)'
  <2>1. PICK j \in DOMAIN inbox : 1 < j /\ inbox[j].call = "event" /\ inbox[j].event = e
    BY <1>1, <1>7 DEF Passing, Given
  <2>2. j # 1 /\ inbox[j] \in UnderWay'
    <3>1. j # 1
      BY <2>1
    <3>2. j - 1 \in DOMAIN inbox' /\ inbox'[j - 1] = inbox[j]
      BY <1>1, <3>1
    <3> QED BY <3>1, <3>2 DEF UnderWay
  <2> QED BY <2>1, <2>2 DEF Coming
<1>8. \A e : Coming(e) => Coming(e)' \/ (inbox[1].call = "event" /\ inbox[1].event = e)
  BY <1>3 DEF Coming
<1>9. \A e : Coming(e)' => Coming(e)
  BY <1>3 DEF Coming
<1> QED BY <1>2, <1>3, <1>4, <1>5, <1>6, <1>7, <1>8, <1>9

\* Nothing is taken: what is under way stays.
LEMMA NotTaken ==
    ASSUME Passing, UNCHANGED <<inbox, activationEvents>>
    PROVE  /\ UnderWay' = UnderWay /\ RaisedSoFar' = RaisedSoFar
           /\ \A e : Coming(e)' <=> Coming(e)
           /\ \A i \in DOMAIN inbox' : inbox'[i].call = "start" =>
                \A e \in RaisedSoFar' :
                    \/ e \in ToSet(inbox'[i].events)
                    \/ \E j \in DOMAIN inbox' : i < j /\ inbox'[j].call = "event" /\ inbox'[j].event = e
           /\ \A i, j \in DOMAIN inbox' :
                /\ inbox'[i].call = "event" /\ inbox'[i].event = StartupFinished
                /\ inbox'[j].call = "event" /\ inbox'[j].event = StartupFinished
                => i = j
<1>1. UnderWay' = UnderWay /\ RaisedSoFar' = RaisedSoFar
  BY DEF UnderWay, RaisedSoFar
<1> QED BY <1>1 DEF Passing, Given, Finishing, Coming

\* The host takes a call that is no event.
LEMMA TakingPasses ==
    ASSUME Together, Passing, TakesInit \/ TakesStart \/ \E p \in Plugins : TakesStop(p),
           registry \subseteq Plugins, loadedPlugins \in [Plugins -> Nat],
           UNCHANGED <<manager, load, activationEvents, contributions>>
    PROVE  Passing'
<1>1. /\ CallTaken /\ inbox[1].call # "event" /\ UNCHANGED <<activations, overlooked>>
      /\ registry' \subseteq registry /\ \A p \in registry' : loadedPlugins'[p] = loadedPlugins[p]
      /\ reply' \in {reply, "init"}
      /\ UNCHANGED task \/ TakesStart
  BY DEF TakesInit, TakesStart, TakesStop
<1>2. RaisedSoFar' = RaisedSoFar
  BY DEF RaisedSoFar
<1>3. /\ \A e : Coming(e)' <=> Coming(e)
      /\ \A c \in UnderWay' : c \in UnderWay
  BY <1>1, TakenStaysGiven
<1>4. TakesStart => /\ task.kind # "events" /\ task'.kind = "manifests" /\ task'.events = inbox[1].events
                    /\ inbox[1].call = "start"
  BY <1>1, TakenStaysGiven DEF TakesStart, Together, Talk
<1>5. Waits'
  BY <1>1 DEF Passing, Waits
<1>6. Noticed'
  <2> SUFFICES ASSUME NEW p \in registry', Told(p)', NEW e \in Subscribed[p] \cap RaisedSoFar
               PROVE  Served(p, e)'
    BY <1>2 DEF Noticed
  <2>1. p \in registry /\ Told(p)
    BY <1>1, <1>4 DEF Told
  <2>2. Served(p, e)
    BY <2>1 DEF Passing, Noticed
  <2> QED BY <1>1, <1>3, <1>4, <2>2 DEF Served
<1>7. Given'
  <2>1. task'.kind = "manifests" =>
          \A e \in RaisedSoFar' : e \in ToSet(task'.events) \/ e \in overlooked' \/ Coming(e)'
    <3>1. CASE TakesStart
      BY <1>1, <1>2, <1>4, <3>1, TakenStaysGiven
    <3>2. CASE UNCHANGED task
      BY <1>1, <1>2, <1>3, <3>2 DEF Passing, Given
    <3> QED BY <1>1, <3>1, <3>2
  <2> QED BY <1>1, <2>1, TakenStaysGiven DEF Given
<1>8. Finishing'
  <2>1. task'.kind = "event" => task.kind = "event"
    BY <1>1, <1>4
  <2>2. reply' \in EventAnswers => reply \in EventAnswers
    BY <1>1 DEF EventAnswers
  <2>3. \A i, j \in DOMAIN inbox' :
                /\ inbox'[i].call = "event" /\ inbox'[i].event = StartupFinished
                /\ inbox'[j].call = "event" /\ inbox'[j].event = StartupFinished
                => i = j
    BY <1>1, TakenStaysGiven
  <2> QED BY <1>2, <1>3, <2>1, <2>2, <2>3 DEF Passing, Finishing
<1> QED BY <1>5, <1>6, <1>7, <1>8 DEF Passing

\* The host takes an event.
LEMMA EventPasses ==
    ASSUME PluginAssumption, ManagerInv, Together, Passing, NEW e \in Events, TakesEvent(e),
           UNCHANGED <<manager, load, activationEvents, contributions>>
    PROVE  Passing'
<1>1. /\ CallTaken /\ inbox[1].call = "event" /\ inbox[1].event = e
      /\ Activates(e, activations, registry)
      /\ IF e = StartupFinished THEN task'.kind = "event" ELSE task' = task
      /\ overlooked' = IF task.kind = "manifests" THEN overlooked \cup {e} ELSE overlooked
      /\ UNCHANGED <<reply, registry>>
  BY DEF TakesEvent
<1>2. RaisedSoFar' = RaisedSoFar
  BY DEF RaisedSoFar
<1>3. /\ \A f : Coming(f) => Coming(f)' \/ f = e
      /\ \A f : Coming(f)' => Coming(f)
      /\ \A c \in UnderWay' : c \in UnderWay
      /\ inbox[1] \in UnderWay
      /\ e = StartupFinished => ~Coming(StartupFinished)'
  BY <1>1, TakenStaysGiven
<1>4. Coming(e)
  BY <1>1, <1>3 DEF Coming
<1>5. e = StartupFinished => task.kind \notin {"manifests", "events"}
  BY <1>4 DEF Together, Talk, Passing, Finishing
<1>6. registry \subseteq Plugins /\ activations \in [Events \cup {Eager} -> SUBSET Plugins]
  BY DEF ManagerInv, ManagerTypeOK
<1>7. /\ \A p \in registry : \A f \in Subscribed[p] : p \in activations'[f] \/ loadedPlugins'[p] # 0
      /\ \A p \in registry : e \in Subscribed[p] => loadedPlugins'[p] # 0
  <2>1. \A p \in registry : \A f \in Subscribed[p] : p \in activations[f] \/ loadedPlugins[p] # 0
    BY DEF Passing, Waits
  <2>2. \A p \in registry : \A f \in Subscribed[p] : f \in Events \cup {Eager}
    BY <1>6, SubscribedEvents
  <2>3. e \in Events \cup {Eager} /\ Activates(e, activations, registry)
    BY <1>1
  <2> QED BY ONLY <1>6, <2>1, <2>2, <2>3, ActivationReaches
<1>8. \A p \in Plugins : loadedPlugins[p] # 0 => loadedPlugins'[p] # 0
  BY <1>1 DEF Activates, MoreLoaded
<1>9. Waits'
  BY <1>1, <1>7 DEF Passing, Waits
<1>10. Noticed'
  <2> SUFFICES ASSUME NEW p \in registry, Told(p)', NEW f \in Subscribed[p] \cap RaisedSoFar
               PROVE  \/ loadedPlugins'[p] # 0 \/ f \in overlooked' \/ Coming(f)'
                      \/ task'.kind = "events" /\ p \in task'.plugins /\ f \in ToSet(task'.events)
    BY <1>1, <1>2 DEF Noticed, Served
  <2>1. \/ loadedPlugins[p] # 0 \/ f \in overlooked \/ Coming(f)
        \/ task.kind = "events" /\ p \in task.plugins /\ f \in ToSet(task.events)
    <3>1. Told(p)
      BY <1>1 DEF Told
    <3> QED BY <3>1 DEF Passing, Noticed, Served
  <2>2. f \in overlooked => f \in overlooked'
    BY <1>1
  <2>3. task.kind = "events" => task' = task
    BY <1>1, <1>5
  <2> QED BY <1>3, <1>6, <1>7, <1>8, <2>1, <2>2, <2>3
<1>11. Given'
  <2>1. ASSUME task'.kind = "manifests", NEW f \in RaisedSoFar'
        PROVE  f \in ToSet(task'.events) \/ f \in overlooked' \/ Coming(f)'
    <3>1. task' = task /\ task.kind = "manifests"
      BY <1>1, <2>1
    <3>2. overlooked' = overlooked \cup {e}
      BY <1>1, <3>1
    <3> QED BY <1>2, <1>3, <2>1, <3>1, <3>2 DEF Passing, Given
  <2> QED BY <1>1, <2>1, TakenStaysGiven DEF Given
<1>12. Finishing'
  <2>1. e \in RaisedSoFar
    BY <1>1, <1>3 DEF Passing, Finishing
  <2>2. task'.kind = "event" => task.kind = "event" \/ e = StartupFinished
    BY <1>1
  <2>3. \A i, j \in DOMAIN inbox' :
                /\ inbox'[i].call = "event" /\ inbox'[i].event = StartupFinished
                /\ inbox'[j].call = "event" /\ inbox'[j].event = StartupFinished
                => i = j
    BY <1>1, TakenStaysGiven
  <2> QED BY <1>1, <1>2, <1>3, <2>1, <2>2, <2>3 DEF Passing, Finishing
<1> QED BY <1>9, <1>10, <1>11, <1>12 DEF Passing

\* $start reads the manifests, and registers its plug-ins for their events.
LEMMA ManifestsPass ==
    ASSUME PluginAssumption, ManagerInv, Together, Passing, ReadsManifests,
           UNCHANGED <<manager, load, activationEvents, contributions>>
    PROVE  Passing'
<1>0. PICK read \in SUBSET task.plugins :
        registry' = registry \cup read /\ Activates(Eager, Waiting(read), registry')
  BY DEF ReadsManifests
<1> DEFINE acts == Waiting(read)
<1>1. /\ task.kind = "manifests" /\ task'.kind = "events"
      /\ task'.plugins = task.plugins /\ task'.events = task.events
      /\ registry' = registry \cup read
      /\ Activates(Eager, acts, registry')
      /\ UNCHANGED <<inbox, reply, overlooked>>
  BY <1>0 DEF ReadsManifests
<1>2. /\ UnderWay' = UnderWay /\ RaisedSoFar' = RaisedSoFar
      /\ \A e : Coming(e)' <=> Coming(e)
  BY <1>1, NotTaken
<1>3. /\ registry \subseteq Plugins /\ task.plugins \subseteq Plugins
      /\ activations \in [Events \cup {Eager} -> SUBSET Plugins]
  BY DEF ManagerInv, ManagerTypeOK, Tasks
<1>4. acts \in [Events \cup {Eager} -> SUBSET Plugins]
  BY <1>3, WaitingTyped DEF ManagerInv
<1>5. \A f \in Events \cup {Eager} : acts[f] = activations[f] \cup {p \in read : f \in Subscribed[p]}
  BY DEF Waiting
<1> HIDE DEF acts
<1>6. registry' \subseteq Plugins /\ \A p \in registry' : \A f \in Subscribed[p] : f \in Events \cup {Eager}
  BY <1>1, <1>3, SubscribedEvents
<1>7. \A p \in registry' : \A f \in Subscribed[p] : p \in acts[f] \/ loadedPlugins[p] # 0
  BY <1>1, <1>5, <1>6 DEF Passing, Waits
<1>8. \A p \in registry' : \A f \in Subscribed[p] : p \in activations'[f] \/ loadedPlugins'[p] # 0
  <2>1. Eager \in Events \cup {Eager} /\ Activates(Eager, acts, registry')
    BY <1>1
  <2> QED BY ONLY <1>4, <1>6, <1>7, <2>1, ActivationReaches
<1>9. MoreLoaded
  BY <1>1 DEF Activates
<1>10. manager
  BY <1>1 DEF Together, Talk, Loading
<1>11. Waits'
  BY <1>8, <1>10 DEF Waits
<1>12. Noticed'
  <2> SUFFICES ASSUME NEW p \in registry', Told(p)', NEW f \in Subscribed[p] \cap RaisedSoFar
               PROVE  \/ loadedPlugins'[p] # 0 \/ f \in overlooked' \/ Coming(f)'
                      \/ task'.kind = "events" /\ p \in task'.plugins /\ f \in ToSet(task'.events)
    BY <1>2 DEF Noticed, Served
  <2>1. CASE p \notin task.plugins
    <3>0. p \in registry /\ Told(p)
      BY <1>1, <2>1 DEF Told, Together, Talk
    <3>1. loadedPlugins[p] # 0 \/ f \in overlooked \/ Coming(f)
      BY <1>1, <3>0 DEF Passing, Noticed, Served
    <3>2. loadedPlugins[p] # 0 => loadedPlugins'[p] # 0
      BY <1>3, <1>9, <3>0 DEF MoreLoaded
    <3> QED BY <1>1, <1>2, <3>1, <3>2
  <2>2. CASE p \in task.plugins
    <3>1. f \in ToSet(task.events) \/ f \in overlooked \/ Coming(f)
      BY <1>1 DEF Passing, Given
    <3> QED BY <1>1, <1>2, <2>2, <3>1
  <2> QED BY <2>1, <2>2
<1>13. Given'
  BY <1>1, NotTaken DEF Given
<1>14. Finishing'
  BY <1>1, <1>2 DEF Passing, Finishing
<1> QED BY <1>11, <1>12, <1>13, <1>14 DEF Passing

\* $start goes on with the next of its events.
LEMMA NextEventPasses ==
    ASSUME PluginAssumption, ManagerInv, Passing, NEW e \in Events, PassesOn(e),
           UNCHANGED <<manager, load, activationEvents, contributions>>
    PROVE  Passing'
<1>1. /\ task.kind = "events" /\ task.events # <<>> /\ e = Head(task.events)
      /\ task'.kind = "events" /\ task'.plugins = task.plugins /\ task'.events = Tail(task.events)
      /\ Activates(e, activations, registry)
      /\ overlooked' = overlooked \ {e}
      /\ UNCHANGED <<inbox, reply, registry>>
  BY DEF PassesOn
<1>2. /\ UnderWay' = UnderWay /\ RaisedSoFar' = RaisedSoFar
      /\ \A f : Coming(f)' <=> Coming(f)
  BY <1>1, NotTaken
<1>3. /\ registry \subseteq Plugins /\ task.events \in Seq(Events)
      /\ activations \in [Events \cup {Eager} -> SUBSET Plugins]
  BY DEF ManagerInv, ManagerTypeOK, Tasks
<1>4. \A f \in ToSet(task.events) : f = e \/ f \in ToSet(Tail(task.events))
  BY <1>1, <1>3, HeadAndRest
<1>5. /\ \A p \in registry : \A f \in Subscribed[p] : p \in activations'[f] \/ loadedPlugins'[p] # 0
      /\ \A p \in registry : e \in Subscribed[p] => loadedPlugins'[p] # 0
  <2>1. \A p \in registry : \A f \in Subscribed[p] : p \in activations[f] \/ loadedPlugins[p] # 0
    BY DEF Passing, Waits
  <2>2. \A p \in registry : \A f \in Subscribed[p] : f \in Events \cup {Eager}
    BY <1>3, SubscribedEvents
  <2>3. e \in Events \cup {Eager} /\ Activates(e, activations, registry)
    BY <1>1
  <2> QED BY ONLY <1>3, <2>1, <2>2, <2>3, ActivationReaches
<1>6. MoreLoaded
  BY <1>1 DEF Activates
<1>7. Waits'
  BY <1>1, <1>5 DEF Passing, Waits
<1>8. Noticed'
  <2> SUFFICES ASSUME NEW p \in registry, Told(p)', NEW f \in Subscribed[p] \cap RaisedSoFar, f # e
               PROVE  \/ loadedPlugins'[p] # 0 \/ f \in overlooked' \/ Coming(f)'
                      \/ task'.kind = "events" /\ p \in task'.plugins /\ f \in ToSet(task'.events)
    BY <1>1, <1>2, <1>5 DEF Noticed, Served
  <2>1. \/ loadedPlugins[p] # 0 \/ f \in overlooked \/ Coming(f)
        \/ p \in task.plugins /\ f \in ToSet(task.events)
    <3>1. Told(p)
      BY <1>1 DEF Told
    <3> QED BY <1>1, <3>1 DEF Passing, Noticed, Served
  <2>2. loadedPlugins[p] # 0 => loadedPlugins'[p] # 0
    BY <1>3, <1>6 DEF MoreLoaded
  <2> QED BY <1>1, <1>2, <1>4, <2>1, <2>2
<1>9. Given'
  BY <1>1, NotTaken DEF Given
<1>10. Finishing'
  BY <1>1, <1>2 DEF Passing, Finishing
<1> QED BY <1>7, <1>8, <1>9, <1>10 DEF Passing

\* Activations go on, and what was asked for is answered.
LEMMA AnswersPass ==
    ASSUME ManagerInv, Together, Passing, Loads \/ AnswersStart \/ RejectsStart \/ AnswersEvent,
           UNCHANGED <<manager, load, activationEvents, contributions>>
    PROVE  Passing'
<1>1. /\ UNCHANGED <<inbox, registry, activations, overlooked>> /\ MoreLoaded
      /\ \/ UNCHANGED <<task, reply>>
         \/ task.kind = "events" /\ task.events = <<>> /\ task'.kind = "none" /\ reply' = "start"
         \/ task.kind = "events" /\ task'.kind = "none" /\ reply' = "startRejected"
         \/ task.kind = "event" /\ task'.kind = "none" /\ reply' \in EventAnswers
  BY DEF Loads, AnswersStart, RejectsStart, AnswersEvent, MoreLoaded, EventAnswers
<1>2. /\ UnderWay' = UnderWay /\ RaisedSoFar' = RaisedSoFar
      /\ \A e : Coming(e)' <=> Coming(e)
  BY <1>1, NotTaken
<1>3. registry \subseteq Plugins /\ \A e : e \notin ToSet(<<>>)
  BY DEF ManagerInv, ManagerTypeOK, ToSet
<1>4. \A p \in registry : loadedPlugins[p] # 0 => loadedPlugins'[p] # 0
  BY <1>1, <1>3 DEF MoreLoaded
<1>5. Waits'
  BY <1>1, <1>4 DEF Passing, Waits
<1>6. Noticed'
  <2> SUFFICES ASSUME NEW p \in registry, Told(p)', NEW e \in Subscribed[p] \cap RaisedSoFar
               PROVE  \/ loadedPlugins'[p] # 0 \/ e \in overlooked \/ Coming(e)
                      \/ task'.kind = "events" /\ p \in task'.plugins /\ e \in ToSet(task'.events)
    BY <1>1, <1>2 DEF Noticed, Served
  <2>0. Told(p)
    BY <1>1 DEF Told, EventAnswers
  <2>1. \/ loadedPlugins[p] # 0 \/ e \in overlooked \/ Coming(e)
        \/ task.kind = "events" /\ p \in task.plugins /\ e \in ToSet(task.events)
    BY <2>0 DEF Passing, Noticed, Served
  <2>2. CASE reply' = "startRejected" /\ task.kind = "events" /\ task'.kind = "none"
    <3>1. contributions[p] = "started" /\ p \in Plugins
      BY <1>1, <1>3, <2>2 DEF Told
    <3>2. p \notin task.plugins
      BY <2>2, <3>1 DEF Together, Talk, Loading, Starting, Going
    <3> QED BY <1>4, <2>1, <3>2
  <2> QED BY <1>1, <1>3, <1>4, <2>1, <2>2
<1>7. Given'
  <2>1. task'.kind = "manifests" => task' = task
    BY <1>1
  <2>2. task'.kind = "manifests" =>
          \A e \in RaisedSoFar' : e \in ToSet(task'.events) \/ e \in overlooked' \/ Coming(e)'
    BY <1>1, <1>2, <2>1 DEF Passing, Given
  <2> QED BY <1>1, <2>2, NotTaken DEF Given
<1>8. Finishing'
  <2>1. task'.kind = "event" \/ reply' \in EventAnswers =>
            task.kind = "event" \/ reply \in EventAnswers
    BY <1>1 DEF EventAnswers
  <2> QED BY <1>1, <1>2, <2>1 DEF Passing, Finishing
<1> QED BY <1>5, <1>6, <1>7, <1>8 DEF Passing

LEMMA HostPasses ==
    ASSUME PluginAssumption, ManagerInv, Together, Passing, Host
    PROVE  Passing'
<1>1. Tells /\ UNCHANGED <<manager, load, activationEvents, contributions>>
  BY HostTells DEF Host, frontVars
<1>2. registry \subseteq Plugins /\ loadedPlugins \in [Plugins -> Nat]
  <2>1. Len(loads) \in Nat /\ registry \subseteq Plugins /\ loadedPlugins \in [Plugins -> 0 .. Len(loads)]
    BY Lengths DEF ManagerInv, ManagerTypeOK
  <2> QED BY <2>1
<1>3. CASE TakesInit \/ TakesStart \/ \E p \in Plugins : TakesStop(p)
  BY <1>1, <1>2, <1>3, TakingPasses
<1>4. CASE ReadsManifests
  BY <1>1, <1>4, ManifestsPass
<1>5. CASE Loads \/ AnswersStart \/ RejectsStart \/ AnswersEvent
  BY <1>1, <1>5, AnswersPass
<1>6. CASE \E e \in Events : PassesOn(e)
  BY <1>1, <1>6, NextEventPasses
<1>7. CASE \E e \in Events : TakesEvent(e)
  BY <1>1, <1>7, EventPasses
<1> QED BY <1>1, <1>3, <1>4, <1>5, <1>6, <1>7 DEF Tells

-----------------------------------------------------------------------------
LEMMA DisconnectPasses ==
    ASSUME Disconnect
    PROVE  Passing'
<1>1. inbox' = <<>> /\ reply' = "none" /\ registry' = {} /\ task'.kind = "none"
  BY DEF Disconnect, Replaced, Ended, Idle
<1>2. UnderWay' = {} /\ \A e : ~Coming(e)'
  BY <1>1 DEF UnderWay, Coming
<1> QED BY <1>1, <1>2 DEF Passing, Waits, Noticed, Given, Finishing, EventAnswers

LEMMA HostCrashesPasses ==
    ASSUME Passing, HostCrashes
    PROVE  Passing'
<1>1. inbox' = <<>> /\ registry' = {} /\ task'.kind = "none" /\ UNCHANGED <<reply, activationEvents>>
  BY DEF HostCrashes, Ended, Idle, frontVars
<1>2. UnderWay' = {} /\ \A e : ~Coming(e)'
  BY <1>1 DEF UnderWay, Coming
<1>3. RaisedSoFar' = RaisedSoFar
  BY <1>1 DEF RaisedSoFar
<1> QED BY <1>1, <1>2, <1>3 DEF Passing, Waits, Noticed, Given, Finishing

LEMMA LocalPasses ==
    ASSUME ManagerInv, FrontTypeOK, Together, Passing,
           \/ DebounceTimer \/ LoadBegins \/ PluginsReceived \/ LayoutReady \/ WidgetsReady \/ FinishedReplied
           \/ LoadFails \/ Notice \/ Deploy \/ Connect \/ UNCHANGED vars
    PROVE  Passing'
<1>1. /\ UNCHANGED <<inbox, registry, activations, loadedPlugins, task, overlooked, activationEvents, manager>>
      /\ reply' \in {"none", reply}
  BY DEF DebounceTimer, LoadBegins, PluginsReceived, LayoutReady, WidgetsReady, FinishedReplied,
         LoadFails, Notice, Deploy, Connect, vars, managerVars, frontVars, hostVars
<1>2. load.pc = "finished" => load' = load \/ reply \in EventAnswers
  BY DEF DebounceTimer, LoadBegins, PluginsReceived, LayoutReady, WidgetsReady, FinishedReplied,
         LoadFails, Notice, Deploy, Connect, vars, frontVars, EventAnswers
<1>3. load.pc = "finished" => load'.pc = "finished" \/ ~Coming(StartupFinished)
  BY <1>2 DEF Passing, Finishing
<1>4. CallsAdded /\ Added = {}
  BY <1>1, NothingAdded
<1>5. \A p \in Plugins : Told(p)' => Told(p)
  <2>1. CASE load.pc = "start"
    <3>1. UNCHANGED <<load, task, reply, contributions>>
      BY <2>1 DEF DebounceTimer, LoadBegins, PluginsReceived, LayoutReady, WidgetsReady,
         FinishedReplied, LoadFails, Notice, Deploy, Connect, vars, managerVars, frontVars, hostVars
    <3> QED BY <3>1 DEF Told
  <2>2. CASE load.pc # "start"
    <3>1. \A p \in Plugins : contributions'[p] = "started" => contributions[p] = "started"
      BY DEF DebounceTimer, LoadBegins, PluginsReceived, LayoutReady, WidgetsReady,
         FinishedReplied, LoadFails, Notice, Deploy, Connect, vars, frontVars
    <3> QED BY <1>1, <2>2, <3>1, NothingNewTold DEF Together
  <2> QED BY <2>1, <2>2
<1> QED BY <1>1, <1>3, <1>4, <1>5, CallsPass

LEMMA AskingPasses ==
    ASSUME PluginAssumption, ManagerInv, FrontTypeOK, Together, Passing,
           IdsReceived \/ InfoReceived \/ InitReplied
    PROVE  Passing'
<1>1. /\ UNCHANGED <<registry, activations, loadedPlugins, task, overlooked, activationEvents, manager>>
      /\ reply' \in {"none", reply} /\ load.pc # "finished"
  BY DEF IdsReceived, InfoReceived, InitReplied, hostVars
<1>0. \A p \in Plugins : Told(p)' => Told(p)
  <2>1. load.pc # "start" /\ \A p \in Plugins : contributions'[p] = "started" => contributions[p] = "started"
    BY DEF IdsReceived, InfoReceived, InitReplied
  <2> QED BY <1>1, <2>1, NothingNewTold DEF Together
<1>2. CASE IdsReceived
  <2> DEFINE gone == Known \ deployed
             stop == SetToSeq(ToStop(gone))
  <2>1. Post(StopCalls(stop)) /\ gone \in SUBSET Plugins
    BY <1>2 DEF IdsReceived, Known, StopCalls
  <2>0. stop = SetToSeq(ToStop(gone))
    OBVIOUS
  <2> HIDE DEF gone, stop
  <2>2. CallsAdded /\ \A c \in Added : c.call = "stop" /\ c.plugin \in gone
    BY <2>0, <2>1, StopsAdded
  <2>3. \A c \in Added : c.call # "event" /\ c.call # "start"
    BY <2>2
  <2> QED BY <1>0, <1>1, <2>2, <2>3, CallsPass
<1>3. CASE InfoReceived
  <2> DEFINE call == [call |-> "init"]
  <2>1. call \in Calls /\ call.call = "init" /\ Post(<<call>>)
    BY <1>3 DEF Calls, InfoReceived, hostVars
  <2> HIDE DEF call
  <2>2. CallsAdded /\ Added \subseteq {call}
    BY <2>1, PostAddsOne
  <2>3. \A c \in Added : c.call # "event" /\ c.call # "start"
    BY <2>1, <2>2
  <2> QED BY <1>0, <1>1, <2>2, <2>3, CallsPass
<1>4. CASE InitReplied
  <2>1. Post(<<StartCall>>)
    BY <1>4 DEF InitReplied, hostVars
  <2>2. CallsAdded /\ \A c \in Added : c.call # "event" /\ c.events = activationEvents
    BY <2>1, StartCallAdds
  <2> QED BY <1>0, <1>1, <2>2, CallsPass
<1> QED BY <1>2, <1>3, <1>4

\* The end of startPlugins raises onStartupFinished.
LEMMA FinishPasses ==
    ASSUME PluginAssumption, ManagerInv, FrontTypeOK, Together, Passing, FinishStart, load.pc # "finished",
           UNCHANGED <<registry, activations, loadedPlugins, task, overlooked, manager>>,
           reply' \in {"none", reply}, \A p \in Plugins : Told(p)' => Told(p)
    PROVE  Passing'
<1>1. CASE StartupFinished \in ToSet(activationEvents)
  <2>1. UNCHANGED <<inbox, activationEvents>>
    BY <1>1 DEF FinishStart
  <2>2. CallsAdded /\ Added = {}
    BY <2>1, NothingAdded
  <2> QED BY <2>1, <2>2, CallsPass
<1>2. CASE StartupFinished \notin ToSet(activationEvents)
  <2>1. Raise(StartupFinished) /\ (manager => load' = Await("finished"))
    BY <1>2 DEF FinishStart
  <2>2. manager => load'.pc = "finished"
    BY <2>1, AwaitFields
  <2>3. StartupFinished \in Events /\ StartupFinished \notin RaisedSoFar
    BY <1>2 DEF PluginAssumption, RaisedSoFar
  <2> QED BY <2>1, <2>2, <2>3, EventRaised
<1> QED BY <1>1, <1>2

LEMMA StartingPasses ==
    ASSUME PluginAssumption, ManagerInv, FrontTypeOK, Together, Passing,
           PathsReceived \/ StartReplied \/ StartFailed
    PROVE  Passing'
<1>1. /\ UNCHANGED <<registry, activations, loadedPlugins, task, overlooked>>
      /\ reply' \in {"none", reply} /\ load.pc # "finished"
  BY DEF PathsReceived, StartReplied, StartFailed, hostVars
<1>0. \A p \in Plugins : Told(p)' => Told(p)
  <2>1. CASE PathsReceived
    <3>1. load.pc # "start" /\ UNCHANGED contributions
      BY <2>1 DEF PathsReceived
    <3> QED BY <1>1, <3>1, NothingNewTold DEF Together
  <2>2. CASE StartReplied \/ StartFailed
    <3>1. reply \in Answered /\ reply' = "none" /\ UNCHANGED task
      BY <2>2 DEF StartReplied, StartFailed, Answered, hostVars
    <3>2. task.kind # "events"
      BY <3>1 DEF Together, Talk
    <3>3. \A p \in Plugins : contributions'[p] = "started" =>
            contributions[p] = "started" \/ (reply = "start" /\ p \in load.plugins)
      BY <2>2 DEF StartReplied, StartFailed
    <3> QED BY <3>1, <3>2, <3>3 DEF Told
  <2> QED BY <2>1, <2>2
<1>2. CASE FinishStart /\ UNCHANGED manager
  BY <1>0, <1>1, <1>2, FinishPasses
<1>3. CASE Post(<<StartCall>>) /\ UNCHANGED <<activationEvents, manager>>
  <2>1. CallsAdded /\ \A c \in Added : c.call # "event" /\ c.events = activationEvents
    BY <1>3, StartCallAdds
  <2> QED BY <1>0, <1>1, <1>3, <2>1, CallsPass
<1>4. CASE manager' = TRUE /\ UNCHANGED <<inbox, activationEvents>>
  <2>1. CallsAdded /\ Added = {} /\ manager'
    BY <1>4, NothingAdded
  <2> QED BY <1>0, <1>1, <1>4, <2>1, CallsPass
<1> QED BY <1>2, <1>3, <1>4 DEF PathsReceived, StartReplied, StartFailed, hostVars

LEMMA RaiseEventPasses ==
    ASSUME PluginAssumption, ManagerInv, FrontTypeOK, Together, Passing,
           NEW e \in Events \ {StartupFinished}, RaiseEvent(e)
    PROVE  Passing'
<1>1. /\ Raise(e) /\ e \notin RaisedSoFar
      /\ UNCHANGED <<reply, registry, activations, loadedPlugins, task, overlooked, manager, load,
                     contributions>>
  BY DEF RaiseEvent, RaisedSoFar, hostVars
<1>2. \A p \in Plugins : Told(p)' => Told(p)
  BY <1>1 DEF Told
<1> QED BY <1>1, <1>2, EventRaised

LEMMA PassingAtFirst ==
    ASSUME Init
    PROVE  Passing
<1>1. inbox = <<>> /\ reply = "none" /\ registry = {} /\ task.kind = "none"
  BY DEF Init, Fresh, Idle
<1>2. UnderWay = {} /\ \A e : ~Coming(e)
  BY <1>1 DEF UnderWay, Coming
<1> QED BY <1>1, <1>2 DEF Passing, Waits, Noticed, Given, Finishing, EventAnswers

LEMMA PassingKept ==
    ASSUME PluginAssumption, PluginInv, Together, Passing, [Next]_vars
    PROVE  Passing'
<1>1. ManagerInv /\ FrontTypeOK
  BY DEF PluginInv, TypeOK, ManagerInv
<1>2. CASE Host
  BY <1>1, <1>2, HostPasses
<1>3. CASE FrontLoads \/ LoadFails \/ Deploy \/ Connect \/ UNCHANGED vars
  BY <1>1, <1>3, LocalPasses, AskingPasses, StartingPasses DEF FrontLoads
<1>4. CASE Disconnect
  BY <1>4, DisconnectPasses
<1>5. CASE \E e \in Events \ {StartupFinished} : RaiseEvent(e)
  BY <1>1, <1>5, RaiseEventPasses
<1>6. CASE HostCrashes
  BY <1>6, HostCrashesPasses
<1> QED BY <1>2, <1>3, <1>4, <1>5, <1>6 DEF Next

LEMMA PassingActivates ==
    ASSUME PluginInv, Together, Passing
    PROVE  EventsActivate
<1>1. ManagerInv
  BY DEF PluginInv, TypeOK, ManagerInv
<1>2. \A e : EventSent(e) <=> Coming(e)
  BY <1>1, SentByPosition DEF Coming, UnderWay
<1> HIDE DEF EventSent
<1> SUFFICES ASSUME NEW p \in Plugins, NEW e \in ToSet(activationEvents), contributions[p] = "started",
                    e \in Subscribed[p], e \notin overlooked, ~Coming(e), p \notin unreadable, ~crashed
             PROVE  loadedPlugins[p] # 0
  BY <1>2 DEF EventsActivate
<1>3. p \in registry
  BY DEF Together, Agreed, Reached
<1>4. loadedPlugins[p] # 0 \/ (task.kind = "events" /\ p \in task.plugins)
  BY <1>3 DEF Passing, Noticed, Served, Told, RaisedSoFar
<1>5. ~(task.kind = "events" /\ p \in task.plugins)
  BY DEF Together, Talk, Loading, Starting, Going
<1> QED BY <1>4, <1>5

\* The inductive invariant of activation events: each that was raised has activated those
\* registered for it, or is on its way to them, by itself or with the $start that registers
\* them, whatever activations and stops the host is busy with.  Followed are the plug-ins that
\* the front end holds for started, or will with the answer $start comes to.
THEOREM EventsInvariant == Spec => [](PluginInv /\ Together /\ Passing)
<1>1. Init => Passing
  BY PassingAtFirst
<1>2. PluginInv /\ Together /\ Passing /\ [Next]_vars => Passing'
  BY PassingKept, PluginAssumption
<1> QED BY <1>1, <1>2, TogetherInvariant, PTL DEF Spec

\* Every activation event raised so far, before or after a plug-in was started, has reached
\* what is started and subscribed to it; the exceptions are an event that came while $start
\* was reading manifests, a plug-in whose manifest the host could not read, which it never
\* activates, and a host that has crashed.
THEOREM EventsGetThrough == Spec => []EventsActivate
<1>1. PluginInv /\ Together /\ Passing => EventsActivate
  BY PassingActivates
<1> QED BY <1>1, EventsInvariant, PTL

-----------------------------------------------------------------------------
(* Dependencies *)

Ran(p) == \E l \in DOMAIN loads : loads[l].plugin = p /\ loads[l].pc \in {"started", "stopped"}

Failed(l) == loads[l].pc \in {"failed", "rejected"}

\* Activations in progress that have been begun for the same one.
Active(l) == l \in DOMAIN loads /\ loads[l].pc \in InProgress
SameTree(l, m) == Active(l) /\ Active(m) /\ loads[l].root = loads[m].root

\* The maps lead to activations of the plug-in, and to those that have ended.
Entries ==
    /\ \A p \in Plugins : loadedPlugins[p] # 0 => loads[loadedPlugins[p]].plugin = p
    /\ \A p \in Plugins :
          activatedPlugins[p] # 0 => loads[activatedPlugins[p]].pc \in {"started", "stopped"}

\* What an activation waits for is one of its next dependency.
Upcoming ==
    \A l \in DOMAIN loads : Active(l) =>
        /\ loads[l].dep <= Len(DependsOn[loads[l].plugin])
        /\ loads[l].on # 0 =>
              /\ loads[l].pc = "dependencies"
              /\ loads[l].dep < Len(DependsOn[loads[l].plugin])
              /\ loads[loads[l].on].plugin = DependsOn[loads[l].plugin][loads[l].dep + 1]

\* The dependencies it has gone past have been started.
Gone ==
    Acyclic => \A l \in DOMAIN loads : Active(l) =>
        \A i \in 1 .. loads[l].dep : \A q \in Plugins : q = DependsOn[loads[l].plugin][i] => Ran(q)

\* The activations of a tree that are in progress wait for each other in a chain.
Chain ==
    \A l, m \in DOMAIN loads : SameTree(l, m) /\ l < m =>
        l < loads[l].on /\ loads[l].on <= m /\ SameTree(l, loads[l].on)

\* One begun for another is waited for.
Awaited ==
    \A m \in DOMAIN loads : Active(m) /\ loads[m].root # m =>
        \E l \in DOMAIN loads : SameTree(l, m) /\ loads[l].on = m

\* Along the chain, plug-ins only come nearer to those that depend on nothing.
Ranks == [Plugins -> 1 .. Cardinality(Plugins)]
Decreasing(rank) == \A p \in Plugins : \A q \in ToSet(DependsOn[p]) : rank[q] < rank[p]
Ranked ==
    \A rank \in Ranks : Decreasing(rank) =>
        \A l, m \in DOMAIN loads : SameTree(l, m) /\ l < m =>
            rank[loads[m].plugin] < rank[loads[l].plugin]

\* What has been visited was started, or an activation of the chain is for it, waits for it,
\* or is about to fail.
Justifies(m, q) ==
    \/ loads[m].plugin = q
    \/ loads[m].on # 0 /\ (loads[loads[m].on].plugin = q \/ Failed(loads[m].on))
Accounted ==
    \A l \in DOMAIN loads : Active(l) =>
        \A q \in loads[loads[l].root].visited :
            Ran(q) \/ \E m \in DOMAIN loads : SameTree(l, m) /\ Justifies(m, q)

Dependencies == Entries /\ Upcoming /\ Gone /\ Chain /\ Awaited /\ Ranked /\ Accounted

LEMMA RanIsHasStarted ==
    ASSUME ManagerInv
    PROVE  \A p : HasStarted(p) <=> Ran(p)
<1>1. DOMAIN loads = 1 .. Len(loads)
  BY Lengths DEF ManagerInv
<1> QED BY <1>1 DEF HasStarted, Ran

LEMMA LoadFields ==
    ASSUME PluginAssumption, ManagerInv, NEW l \in DOMAIN loads
    PROVE  /\ loads[l] \in Activations /\ loads[l].plugin \in Plugins
           /\ loads[l].dep \in Nat /\ loads[l].on \in Nat /\ loads[l].visited \subseteq Plugins
           /\ l \in Nat \ {0} /\ loads[l].root \in DOMAIN loads /\ loads[l].root <= l
           /\ loads[l].on # 0 => loads[l].on \in DOMAIN loads
           /\ Len(DependsOn[loads[l].plugin]) \in Nat
<1>1. Len(loads) \in Nat /\ DOMAIN loads = 1 .. Len(loads)
  BY Lengths DEF ManagerInv
<1>2. loads[l] \in Activations /\ loads[l].root <= l /\ loads[l].on <= Len(loads)
  BY LoadIsTyped DEF ManagerInv, ManagerTypeOK
<1>3. /\ loads[l].plugin \in Plugins /\ loads[l].dep \in Nat /\ loads[l].on \in Nat
      /\ loads[l].root \in Nat \ {0} /\ loads[l].visited \subseteq Plugins
  BY <1>2 DEF Activations
<1>4. DependsOn[loads[l].plugin] \in Seq(Plugins)
  BY <1>3 DEF PluginAssumption
<1>5. Len(DependsOn[loads[l].plugin]) \in Nat
  BY <1>4, LenProperties
<1> QED BY <1>1, <1>2, <1>3, <1>5

\* The next dependency of an activation is lower than its plug-in.
LEMMA NextIsLower ==
    ASSUME PluginAssumption, ManagerInv, NEW l \in DOMAIN loads,
           loads[l].dep < Len(DependsOn[loads[l].plugin])
    PROVE  /\ DependsOn[loads[l].plugin][loads[l].dep + 1] \in Plugins
           /\ \A rank \in Ranks : Decreasing(rank) =>
                 rank[DependsOn[loads[l].plugin][loads[l].dep + 1]] < rank[loads[l].plugin]
<1>1. loads[l].plugin \in Plugins /\ loads[l].dep \in Nat
  BY LoadFields
<1> DEFINE s == DependsOn[loads[l].plugin]
<1>2. s \in Seq(Plugins) /\ Len(s) \in Nat /\ DOMAIN s = 1 .. Len(s)
  BY <1>1, LenProperties DEF PluginAssumption
<1>3. loads[l].dep + 1 \in DOMAIN s
  BY <1>1, <1>2
<1>4. s[loads[l].dep + 1] \in ToSet(s) /\ s[loads[l].dep + 1] \in Plugins
  BY <1>2, <1>3, ElementOfSeq DEF ToSet
<1> QED BY <1>1, <1>4 DEF Decreasing

LEMMA RanksAreNumbers ==
    ASSUME PluginAssumption, NEW rank \in Ranks
    PROVE  \A p \in Plugins : rank[p] \in Int
<1>1. Cardinality(Plugins) \in Nat
  BY FS_CardinalityType DEF PluginAssumption
<1> QED BY <1>1 DEF Ranks

\* One that does not wait for another in progress is the last of its chain.
LEMMA LastOfChain ==
    ASSUME PluginAssumption, ManagerInv, Chain, NEW l, Active(l),
           loads[l].on = 0 \/ loads[loads[l].on].pc \notin InProgress
    PROVE  /\ \A m : SameTree(l, m) => m <= l
           /\ \A m : SameTree(m, l) /\ m # l => m < l
<1> SUFFICES ASSUME NEW m, Active(m), loads[m].root = loads[l].root PROVE m <= l
  BY LoadFields DEF SameTree, Active
<1>1. m \in Nat /\ l \in Nat /\ m \in DOMAIN loads /\ l \in DOMAIN loads
  BY LoadFields DEF Active
<1>2. CASE l < m
  <2>1. l < loads[l].on /\ Active(loads[l].on)
    BY <1>1, <1>2 DEF Chain, SameTree
  <2> QED BY <1>1, <2>1, LoadFields DEF Active
<1> QED BY <1>1, <1>2

\* In the absence of cycles, what has been visited before by others has been started.
LEMMA VisitedRan ==
    ASSUME PluginAssumption, ManagerInv, Dependencies, Acyclic, NEW l, Active(l), loads[l].on = 0,
           loads[l].dep < Len(DependsOn[loads[l].plugin]),
           Visited(l, DependsOn[loads[l].plugin][loads[l].dep + 1])
    PROVE  Ran(DependsOn[loads[l].plugin][loads[l].dep + 1])
<1> DEFINE q == DependsOn[loads[l].plugin][loads[l].dep + 1]
<1>1. PICK rank \in Ranks : Decreasing(rank)
  BY DEF Acyclic, Decreasing, Ranks
<1>2. l \in DOMAIN loads /\ l \in Nat /\ loads[l].plugin \in Plugins
  BY LoadFields DEF Active
<1>3. q \in Plugins /\ rank[q] < rank[loads[l].plugin] /\ q \in loads[loads[l].root].visited
  BY <1>1, <1>2, NextIsLower DEF Visited
<1>4. \A p \in Plugins : rank[p] \in Int
  BY RanksAreNumbers
<1> SUFFICES ASSUME NEW m \in DOMAIN loads, SameTree(l, m), Justifies(m, q) PROVE FALSE
  BY <1>2, <1>3 DEF Dependencies, Accounted
<1> HIDE DEF q
<1>5. /\ \A k : SameTree(l, k) => k <= l
  BY LastOfChain DEF Dependencies
<1>6. ASSUME NEW k, SameTree(l, k) PROVE loads[k].plugin # q
  <2>1. k \in DOMAIN loads /\ k \in Nat /\ k <= l /\ loads[k].plugin \in Plugins /\ SameTree(k, l)
    BY <1>5, <1>6, LoadFields DEF SameTree, Active
  <2>2. CASE k = l
    BY <1>2, <1>3, <1>4, <2>2
  <2>3. CASE k < l
    <3>1. rank[loads[l].plugin] < rank[loads[k].plugin]
      BY <1>1, <1>2, <2>1, <2>3 DEF Dependencies, Ranked
    <3> QED BY <1>2, <1>3, <1>4, <2>1, <3>1
  <2> QED BY <1>2, <2>1, <2>2, <2>3
<1>7. m \in Nat /\ m <= l /\ SameTree(m, l)
  BY <1>5, LoadFields DEF SameTree
<1>8. loads[m].on # 0 => m < l
  BY <1>2, <1>7
<1>9. loads[m].on # 0 => SameTree(l, loads[m].on) /\ Active(loads[m].on)
  <2>1. loads[m].on # 0 => SameTree(m, loads[m].on)
    BY <1>2, <1>7, <1>8 DEF Dependencies, Chain
  <2> QED BY <1>7, <2>1 DEF SameTree
<1> QED BY <1>6, <1>9 DEF Justifies, Failed, Active, InProgress

\* What the steps of the manager do with the activations: at most l goes on.
Others(l) ==
    /\ DOMAIN loads \subseteq DOMAIN loads'
    /\ \A k \in DOMAIN loads :
          /\ loads'[k].plugin = loads[k].plugin /\ loads'[k].root = loads[k].root
          /\ k # l => /\ loads'[k].pc = loads[k].pc /\ loads'[k].dep = loads[k].dep
                      /\ loads'[k].on = loads[k].on
NoneVisited == \A k \in DOMAIN loads : loads'[k].visited = loads[k].visited
OnlyChanges(l) ==
    /\ Others(l) /\ NoneVisited /\ DOMAIN loads' = DOMAIN loads /\ Active(l) /\ loadedPlugins' = loadedPlugins

GoesOn(l) ==
    /\ OnlyChanges(l) /\ UNCHANGED activatedPlugins
    /\ loads'[l].dep = loads[l].dep /\ loads'[l].on = loads[l].on
    /\ \/ loads[l].pc = "progress" /\ loads'[l].pc = "dependencies"
       \/ /\ loads[l].pc = "dependencies" /\ loads'[l].pc = "starting"
          /\ loads[l].on = 0 /\ loads[l].dep = Len(DependsOn[loads[l].plugin])
GoesPast(l) ==
    /\ OnlyChanges(l) /\ UNCHANGED activatedPlugins
    /\ loads[l].pc = "dependencies" /\ loads'[l].pc = "dependencies"
    /\ loads'[l].dep = loads[l].dep + 1 /\ loads'[l].on = 0
    /\ \/ /\ loads[l].on = 0 /\ loads[l].dep < Len(DependsOn[loads[l].plugin])
          /\ Visited(l, DependsOn[loads[l].plugin][loads[l].dep + 1])
       \/ loads[l].on # 0 /\ loads[loads[l].on].pc \in {"started", "stopped"}
Ends(l) ==
    /\ OnlyChanges(l)
    /\ loads'[l].dep = loads[l].dep /\ loads'[l].on = loads[l].on
    /\ \/ /\ loads[l].pc = "starting" /\ loads'[l].pc = "started"
          /\ activatedPlugins' = [activatedPlugins EXCEPT ![loads[l].plugin] = l]
       \/ /\ loads[l].pc # "dependencies" \/ loads[l].on = 0 \/ Failed(loads[l].on)
          /\ loads'[l].pc \in {"failed", "rejected"} /\ UNCHANGED activatedPlugins
BeginsToWait(l, q, entry) ==
    /\ Others(l) /\ UNCHANGED activatedPlugins /\ Active(l)
    /\ loads[l].pc = "dependencies" /\ loads'[l].pc = "dependencies"
    /\ loads[l].on = 0 /\ loads'[l].on = entry /\ loads'[l].dep = loads[l].dep
    /\ loads[l].dep < Len(DependsOn[loads[l].plugin])
    /\ q = DependsOn[loads[l].plugin][loads[l].dep + 1]
    /\ \A k \in DOMAIN loads :
          loads'[k].visited = loads[k].visited \cup (IF k = loads[l].root THEN {q} ELSE {})
    /\ loadedPlugins' = [loadedPlugins EXCEPT ![q] = entry]
    /\ \/ DOMAIN loads' = DOMAIN loads /\ entry # 0 /\ entry = loadedPlugins[q]
       \/ /\ loadedPlugins[q] = 0
          /\ entry \notin DOMAIN loads /\ DOMAIN loads' = DOMAIN loads \cup {entry}
          /\ \A k \in DOMAIN loads : k < entry
          /\ loads'[entry] = NewLoad(q, loads[l].root)
BeginsNew ==
    /\ Others(0) /\ NoneVisited /\ UNCHANGED activatedPlugins
    /\ \A l \in DOMAIN loads' : l \notin DOMAIN loads =>
          /\ loads'[l] = NewLoad(loads'[l].plugin, l)
          /\ loadedPlugins'[loads'[l].plugin] = l
    /\ \A p \in Plugins : loadedPlugins'[p] # loadedPlugins[p] =>
          loads'[loadedPlugins'[p]].plugin = p
Stops(p) ==
    /\ DOMAIN loads' = DOMAIN loads /\ NoneVisited
    /\ \A k \in DOMAIN loads :
          /\ loads'[k].plugin = loads[k].plugin /\ loads'[k].root = loads[k].root
          /\ loads'[k].dep = loads[k].dep /\ loads'[k].on = loads[k].on
          /\ loads'[k].pc = IF k = activatedPlugins[p] THEN "stopped" ELSE loads[k].pc
    /\ loadedPlugins' = [loadedPlugins EXCEPT ![p] = 0]
    /\ activatedPlugins' = [activatedPlugins EXCEPT ![p] = 0]

Steps ==
    \/ UNCHANGED <<loads, loadedPlugins, activatedPlugins>>
    \/ \E l \in DOMAIN loads : GoesOn(l) \/ GoesPast(l) \/ Ends(l)
    \/ \E l \in DOMAIN loads, q \in Plugins : \E entry : BeginsToWait(l, q, entry)
    \/ BeginsNew
    \/ \E p \in Plugins : Stops(p)

\* One activation changes.
LEMMA OneChanged ==
    ASSUME ManagerInv, NEW l \in DOMAIN loads, NEW r \in Activations,
           r.plugin = loads[l].plugin, r.root = loads[l].root, r.visited = loads[l].visited,
           loads' = [loads EXCEPT ![l] = r], loads[l].pc \in InProgress, UNCHANGED loadedPlugins
    PROVE  /\ OnlyChanges(l) /\ loads'[l].pc = r.pc /\ loads'[l].dep = r.dep /\ loads'[l].on = r.on
<1>1. Len(loads) \in Nat /\ DOMAIN loads = 1 .. Len(loads) /\ loads \in Seq(Activations)
  BY Lengths DEF ManagerInv, ManagerTypeOK
<1>2. /\ loads' \in Seq(Activations) /\ Len(loads') = Len(loads)
      /\ \A k \in DOMAIN loads : loads'[k] = IF k = l THEN r ELSE loads[k]
  BY <1>1, ExceptSeq
<1>3. DOMAIN loads' = DOMAIN loads
  BY <1>1, <1>2, LenProperties
<1>4. loads'[l] = r /\ \A k \in DOMAIN loads : k # l => loads'[k] = loads[k]
  BY <1>2
<1>5. Others(l)
  BY <1>3, <1>4 DEF Others
<1>6. NoneVisited
  BY <1>4 DEF NoneVisited
<1> QED BY <1>3, <1>4, <1>5, <1>6 DEF OnlyChanges, Active

LEMMA OneLoadSteps ==
    ASSUME PluginAssumption, ManagerInv, NEW l \in DOMAIN loads,
           \/ ProgressShown(l) \/ ProgressFails(l) \/ DependencyLoaded(l)
           \/ CallStart(l) \/ StartReturns(l) \/ StartThrows(l)
    PROVE  Steps
<1>1. loads[l] \in Activations /\ loads[l].dep + 1 \in Nat
  BY LoadFields
<1> DEFINE a == loads[l]
<1>0. a = loads[l]
  OBVIOUS
<1> HIDE DEF a
<1>2. ASSUME NEW pc \in {"dependencies", "starting", "started", "failed", "rejected"},
             loads' = [loads EXCEPT ![l].pc = pc], loads[l].pc \in InProgress, UNCHANGED loadedPlugins
      PROVE  /\ OnlyChanges(l) /\ loads'[l].pc = pc
             /\ loads'[l].dep = loads[l].dep /\ loads'[l].on = loads[l].on
  <2> DEFINE r == [a EXCEPT !.pc = pc]
  <2>1. /\ r \in Activations /\ r.plugin = a.plugin /\ r.root = a.root /\ r.visited = a.visited
        /\ r.pc = pc /\ r.dep = a.dep /\ r.on = a.on
    BY <1>0, <1>1 DEF Activations
  <2>2. loads' = [loads EXCEPT ![l] = r]
    BY <1>0, <1>2
  <2> HIDE DEF r
  <2> QED BY <1>0, <1>2, <2>1, <2>2, OneChanged
<1>3. CASE ProgressShown(l)
  <2>1. /\ loads[l].pc = "progress" /\ loads' = [loads EXCEPT ![l].pc = "dependencies"]
        /\ UNCHANGED <<loadedPlugins, activatedPlugins>>
    BY <1>3 DEF ProgressShown
  <2>2. GoesOn(l)
    BY <1>2, <2>1 DEF GoesOn, InProgress
  <2> QED BY <2>2 DEF Steps
<1>4. CASE CallStart(l)
  <2>1. /\ loads[l].pc = "dependencies" /\ loads' = [loads EXCEPT ![l].pc = "starting"]
        /\ loads[l].on = 0 /\ loads[l].dep = Len(DependsOn[loads[l].plugin])
        /\ UNCHANGED <<loadedPlugins, activatedPlugins>>
    BY <1>4 DEF CallStart
  <2>2. GoesOn(l)
    BY <1>2, <2>1 DEF GoesOn, InProgress
  <2> QED BY <2>2 DEF Steps
<1>5. CASE StartReturns(l)
  <2>1. /\ loads[l].pc = "starting" /\ loads' = [loads EXCEPT ![l].pc = "started"]
        /\ activatedPlugins' = [activatedPlugins EXCEPT ![loads[l].plugin] = l]
        /\ UNCHANGED loadedPlugins
    BY <1>5 DEF StartReturns
  <2>2. Ends(l)
    BY <1>2, <2>1 DEF Ends, InProgress
  <2> QED BY <2>2 DEF Steps
<1>6. CASE StartThrows(l)
  <2>1. /\ loads[l].pc = "starting" /\ loads' = [loads EXCEPT ![l].pc = "failed"]
        /\ UNCHANGED <<loadedPlugins, activatedPlugins>>
    BY <1>6 DEF StartThrows
  <2>2. Ends(l)
    BY <1>2, <2>1 DEF Ends, InProgress
  <2> QED BY <2>2 DEF Steps
<1>7. CASE ProgressFails(l)
  <2>1. /\ loads[l].pc = "progress" /\ loads' = [loads EXCEPT ![l].pc = "rejected"]
        /\ UNCHANGED <<loadedPlugins, activatedPlugins>>
    BY <1>7 DEF ProgressFails
  <2>2. Ends(l)
    BY <1>2, <2>1 DEF Ends, InProgress
  <2> QED BY <2>2 DEF Steps
<1>8. CASE DependencyLoaded(l)
  <2>1. /\ loads[l].pc = "dependencies" /\ loads[l].on # 0 /\ Done(loads[l].on)
        /\ UNCHANGED <<loadedPlugins, activatedPlugins>>
    BY <1>8 DEF DependencyLoaded
  <2>2. CASE Failed(loads[l].on)
    <3>1. loads' = [loads EXCEPT ![l].pc = "failed"]
      BY <1>8, <2>2 DEF DependencyLoaded, Failed
    <3>2. Ends(l)
      BY <1>2, <2>1, <2>2, <3>1 DEF Ends, InProgress
    <3> QED BY <3>2 DEF Steps
  <2>3. CASE ~Failed(loads[l].on)
    <3>1. loads' = [loads EXCEPT ![l].dep = @ + 1, ![l].on = 0]
      BY <1>8, <2>3 DEF DependencyLoaded, Failed
    <3> DEFINE r == [a EXCEPT !.dep = @ + 1, !.on = 0]
    <3>2. /\ r \in Activations /\ r.plugin = a.plugin /\ r.root = a.root /\ r.visited = a.visited
          /\ r.pc = a.pc /\ r.dep = a.dep + 1 /\ r.on = 0
      BY <1>0, <1>1 DEF Activations
    <3>3. loads' = [loads EXCEPT ![l] = r]
      BY <1>0, <3>1
    <3> HIDE DEF r
    <3>4. /\ OnlyChanges(l) /\ loads'[l].pc = "dependencies" /\ loads'[l].dep = loads[l].dep + 1
          /\ loads'[l].on = 0
      BY <1>0, <2>1, <3>2, <3>3, OneChanged DEF InProgress
    <3>5. GoesPast(l)
      BY <2>1, <2>3, <3>4 DEF GoesPast, Done, Failed
    <3> QED BY <3>5 DEF Steps
  <2> QED BY <2>2, <2>3
<1> QED BY <1>3, <1>4, <1>5, <1>6, <1>7, <1>8

LEMMA NextDependencySteps ==
    ASSUME PluginAssumption, ManagerInv, NEW l \in DOMAIN loads, NextDependency(l)
    PROVE  Steps
<1> DEFINE q == DependsOn[loads[l].plugin][loads[l].dep + 1]
           root == loads[l].root
           entry == IF loadedPlugins[q] # 0 THEN loadedPlugins[q] ELSE Len(loads) + 1
           waiting == [loads EXCEPT ![root].visited = @ \cup {q}, ![l].on = entry]
           a == loads[l]
<1>1. /\ a \in Activations /\ a.dep + 1 \in Nat /\ root \in DOMAIN loads /\ root \in Nat \ {0}
      /\ ManagerTypeOK /\ loadedPlugins \in [Plugins -> 0 .. Len(loads)] /\ registry \subseteq Plugins
      /\ Len(loads) \in Nat /\ DOMAIN loads = 1 .. Len(loads)
  <2>1. /\ loads[l] \in Activations /\ loads[l].dep \in Nat /\ loads[l].root \in DOMAIN loads
    BY LoadFields
  <2>2. ManagerTypeOK /\ Len(loads) \in Nat /\ DOMAIN loads = 1 .. Len(loads)
    BY Lengths DEF ManagerInv
  <2>3. loadedPlugins \in [Plugins -> 0 .. Len(loads)] /\ registry \subseteq Plugins
    BY <2>2 DEF ManagerTypeOK
  <2> HIDE DEF q, entry, waiting
  <2> QED BY <2>1, <2>2, <2>3
<1>2. /\ loads[l].pc = "dependencies" /\ loads[l].on = 0 /\ UNCHANGED activatedPlugins
      /\ loads[l].dep < Len(DependsOn[loads[l].plugin]) /\ loads[l].pc \in InProgress
  BY DEF NextDependency, InProgress
<1>3. q \in Plugins
  BY <1>2, NextIsLower
<1>4. \/ loads' = [loads EXCEPT ![l].pc = "failed"] /\ UNCHANGED loadedPlugins
      \/ Visited(l, q) /\ loads' = [loads EXCEPT ![l].dep = @ + 1] /\ UNCHANGED loadedPlugins
      \/ /\ loads' = IF loadedPlugins[q] # 0 THEN waiting ELSE Append(waiting, NewLoad(q, root))
         /\ loadedPlugins' = [loadedPlugins EXCEPT ![q] = entry]
  BY DEF NextDependency
<1>5. /\ entry = IF loadedPlugins[q] # 0 THEN loadedPlugins[q] ELSE Len(loads) + 1
      /\ waiting = [loads EXCEPT ![root].visited = @ \cup {q}, ![l].on = entry]
      /\ q = DependsOn[loads[l].plugin][loads[l].dep + 1] /\ root = loads[l].root /\ a = loads[l]
  OBVIOUS
<1> HIDE DEF q, root, entry, waiting, a
<1>6. CASE loads' = [loads EXCEPT ![l].pc = "failed"] /\ UNCHANGED loadedPlugins
  <2> DEFINE r == [a EXCEPT !.pc = "failed"]
  <2>1. /\ r \in Activations /\ r.plugin = a.plugin /\ r.root = a.root /\ r.visited = a.visited
        /\ r.pc = "failed" /\ r.dep = a.dep /\ r.on = a.on
    BY <1>1 DEF Activations
  <2>2. loads' = [loads EXCEPT ![l] = r]
    BY <1>5, <1>6
  <2> HIDE DEF r
  <2>3. OnlyChanges(l) /\ loads'[l].pc = "failed" /\ loads'[l].dep = loads[l].dep /\ loads'[l].on = loads[l].on
    BY <1>2, <1>5, <1>6, <2>1, <2>2, OneChanged
  <2>4. Ends(l)
    BY <1>2, <2>3 DEF Ends
  <2> QED BY <2>4 DEF Steps
<1>7. CASE Visited(l, q) /\ loads' = [loads EXCEPT ![l].dep = @ + 1] /\ UNCHANGED loadedPlugins
  <2> DEFINE r == [a EXCEPT !.dep = @ + 1]
  <2>1. /\ r \in Activations /\ r.plugin = a.plugin /\ r.root = a.root /\ r.visited = a.visited
        /\ r.pc = a.pc /\ r.dep = a.dep + 1 /\ r.on = a.on
    BY <1>1 DEF Activations
  <2>2. loads' = [loads EXCEPT ![l] = r]
    BY <1>5, <1>7
  <2> HIDE DEF r
  <2>3. /\ OnlyChanges(l) /\ loads'[l].pc = "dependencies" /\ loads'[l].dep = loads[l].dep + 1
        /\ loads'[l].on = 0
    BY <1>2, <1>5, <1>7, <2>1, <2>2, OneChanged
  <2>4. GoesPast(l)
    BY <1>2, <1>5, <1>7, <2>3 DEF GoesPast
  <2> QED BY <2>4 DEF Steps
<1>8. CASE /\ loads' = IF loadedPlugins[q] # 0 THEN waiting ELSE Append(waiting, NewLoad(q, root))
           /\ loadedPlugins' = [loadedPlugins EXCEPT ![q] = entry]
  <2>1. entry \in Nat
    BY <1>1, <1>3, <1>5
  <2>2. /\ waiting \in Seq(Activations) /\ Len(waiting) = Len(loads) /\ DOMAIN waiting = DOMAIN loads
        /\ \A k \in DOMAIN loads :
              /\ waiting[k].root = loads[k].root
              /\ waiting[k].plugin = loads[k].plugin
              /\ waiting[k].pc = loads[k].pc
              /\ waiting[k].on = IF k = l THEN entry ELSE loads[k].on
              /\ waiting[k].dep = loads[k].dep
              /\ waiting[k].visited = loads[k].visited \cup (IF k = root THEN {q} ELSE {})
    <3>1. WaitsFor(l, entry, waiting) /\ Remembers(root, q, waiting)
      <4>1. waiting = [loads EXCEPT ![root].visited = @ \cup {q}, ![l].on = entry] /\ l \in DOMAIN loads
        BY <1>5
      <4> QED BY ONLY <1>1, <1>3, <2>1, <4>1, WaitingFor
    <3> QED BY <3>1 DEF WaitsFor, Remembers
  <2>3. ASSUME \A k \in DOMAIN loads : k \in DOMAIN loads' /\ loads'[k] = waiting[k]
        PROVE  /\ Others(l) /\ loads'[l].pc = "dependencies" /\ loads'[l].on = entry
               /\ loads'[l].dep = loads[l].dep
               /\ \A k \in DOMAIN loads :
                     loads'[k].visited = loads[k].visited \cup (IF k = loads[l].root THEN {q} ELSE {})
    <3>1. Others(l)
      BY <2>2, <2>3 DEF Others
    <3>2. loads'[l].pc = "dependencies" /\ loads'[l].on = entry /\ loads'[l].dep = loads[l].dep
      BY <1>2, <2>2, <2>3
    <3>3. \A k \in DOMAIN loads :
             loads'[k].visited = loads[k].visited \cup (IF k = root THEN {q} ELSE {})
      BY <2>2, <2>3
    <3> QED BY <1>5, <3>1, <3>2, <3>3
  <2>4. CASE loadedPlugins[q] # 0
    <3>1. loads' = waiting /\ entry = loadedPlugins[q] /\ entry # 0 /\ DOMAIN loads' = DOMAIN loads
      BY <1>5, <1>8, <2>2, <2>4
    <3>2. BeginsToWait(l, q, entry)
      BY <1>2, <1>5, <1>8, <2>2, <2>3, <3>1 DEF BeginsToWait, Active
    <3> QED BY <1>3, <3>2 DEF Steps
  <2>5. CASE loadedPlugins[q] = 0
    <3> DEFINE added == NewLoad(q, root)
    <3>1. loads' = Append(waiting, added) /\ entry = Len(loads) + 1
      BY <1>5, <1>8, <2>5
    <3>2. added \in Activations /\ added = NewLoad(q, loads[l].root)
      BY <1>1, <1>3, <1>5 DEF NewLoad, Activations
    <3> HIDE DEF added
    <3>3. /\ loads' \in Seq(Activations) /\ Len(loads') = Len(loads) + 1
          /\ loads'[entry] = added
          /\ \A k \in DOMAIN loads : loads'[k] = waiting[k]
      BY <1>1, <2>2, <3>1, <3>2, AppendProperties
    <3>4. DOMAIN loads' = 1 .. Len(loads) + 1
      BY <3>3, LenProperties
    <3>5. /\ entry \notin DOMAIN loads /\ DOMAIN loads' = DOMAIN loads \cup {entry}
          /\ \A k \in DOMAIN loads : k < entry
      BY <1>1, <3>1, <3>4
    <3>6. BeginsToWait(l, q, entry)
      BY <1>2, <1>5, <1>8, <2>3, <2>5, <3>2, <3>3, <3>5 DEF BeginsToWait, Active
    <3> QED BY <1>3, <3>6 DEF Steps
  <2> QED BY <2>4, <2>5
<1> QED BY <1>4, <1>6, <1>7, <1>8

LEMMA ActivateSteps ==
    ASSUME PluginAssumption, ManagerInv, NEW e, e \in Events \cup {Eager},
           NEW acts, acts \in [Events \cup {Eager} -> SUBSET Plugins],
           NEW reg, reg \subseteq Plugins,
           NEW next, next = Activate(e, acts, reg),
           loads' = next.loads, loadedPlugins' = next.loadedPlugins, UNCHANGED activatedPlugins
    PROVE  Steps
<1>1. ManagerTypeOK /\ Len(loads) \in Nat /\ DOMAIN loads = 1 .. Len(loads)
  BY Lengths DEF ManagerInv
<1>2. Begun(next, reg)
  BY <1>1, ActivateLoads
<1>3. /\ loads' \in Seq(Activations) /\ Len(loads) <= Len(loads')
      /\ \A l \in DOMAIN loads : loads'[l] = loads[l]
      /\ \A l \in DOMAIN loads' : l \notin DOMAIN loads =>
            /\ loadedPlugins'[loads'[l].plugin] = l
            /\ loads'[l] = NewLoad(loads'[l].plugin, l)
      /\ \A p \in Plugins : loadedPlugins'[p] # loadedPlugins[p] =>
            loads'[loadedPlugins'[p]].plugin = p
  BY <1>2 DEF Begun
<1>4. DOMAIN loads' = 1 .. Len(loads') /\ Len(loads') \in Nat
  BY <1>3, LenProperties
<1>5. DOMAIN loads \subseteq DOMAIN loads'
  BY <1>1, <1>3, <1>4
<1>6. Others(0) /\ NoneVisited
  BY <1>3, <1>5 DEF Others, NoneVisited
<1>7. BeginsNew
  BY <1>3, <1>6 DEF BeginsNew
<1> QED BY <1>7 DEF Steps

LEMMA StopSteps ==
    ASSUME PluginAssumption, ManagerInv, HandleStop
    PROVE  Steps
<1> DEFINE p == Head(inbox).plugin
           l == activatedPlugins[p]
<1>1. /\ loads \in Seq(Activations) /\ Len(loads) \in Nat /\ DOMAIN loads = 1 .. Len(loads)
      /\ activatedPlugins \in [Plugins -> 0 .. Len(loads)]
      /\ \A k \in DOMAIN loads : loads[k] \in Activations
  BY Lengths, LoadIsTyped DEF ManagerInv, ManagerTypeOK
<1>2. Head(inbox) \in Calls /\ Head(inbox).call = "stop"
  BY TakingFirst DEF HandleStop
<1>3. p \in Plugins
  BY <1>2 DEF Calls
<1>4. /\ loadedPlugins' = [loadedPlugins EXCEPT ![p] = 0]
      /\ activatedPlugins' = [activatedPlugins EXCEPT ![p] = 0]
      /\ loads' = IF l = 0 THEN loads ELSE [loads EXCEPT ![l].pc = "stopped"]
  BY DEF HandleStop
<1>0. l = activatedPlugins[p]
  OBVIOUS
<1> HIDE DEF p, l
<1>5. CASE l = 0
  <2>1. loads' = loads /\ l \notin DOMAIN loads
    BY <1>1, <1>4, <1>5
  <2>2. Stops(p)
    BY <1>0, <1>4, <2>1 DEF Stops, NoneVisited
  <2> QED BY <1>3, <2>2 DEF Steps
<1>6. CASE l # 0
  <2> DEFINE r == [loads[l] EXCEPT !.pc = "stopped"]
  <2>1. l \in DOMAIN loads
    BY <1>0, <1>1, <1>3, <1>6
  <2>2. /\ r \in Activations /\ r.root = loads[l].root /\ r.on = loads[l].on /\ r.dep = loads[l].dep
        /\ r.plugin = loads[l].plugin /\ r.pc = "stopped" /\ r.visited = loads[l].visited
    BY <1>1, <2>1 DEF Activations
  <2>3. loads' = [loads EXCEPT ![l] = r]
    BY <1>4, <1>6
  <2> HIDE DEF r
  <2>4. /\ loads' \in Seq(Activations) /\ Len(loads') = Len(loads)
        /\ \A k \in DOMAIN loads : loads'[k] = IF k = l THEN r ELSE loads[k]
    BY <1>1, <2>1, <2>2, <2>3, ExceptSeq
  <2>5. DOMAIN loads' = DOMAIN loads
    BY <1>1, <2>4, LenProperties
  <2>6. loads'[l] = r /\ \A k \in DOMAIN loads : k # l => loads'[k] = loads[k]
    BY <2>1, <2>4
  <2>7. ASSUME NEW k \in DOMAIN loads
        PROVE  /\ loads'[k].plugin = loads[k].plugin /\ loads'[k].root = loads[k].root
               /\ loads'[k].dep = loads[k].dep /\ loads'[k].on = loads[k].on
               /\ loads'[k].pc = IF k = l THEN "stopped" ELSE loads[k].pc
               /\ loads'[k].visited = loads[k].visited
    BY <2>2, <2>6
  <2>8. Stops(p)
    BY <1>0, <1>4, <2>5, <2>7 DEF Stops, NoneVisited
  <2> QED BY <1>3, <2>8 DEF Steps
<1> QED BY <1>5, <1>6

LEMMA ManagerSteps ==
    ASSUME PluginAssumption, ManagerInv, ManagerStep
    PROVE  Steps
<1>1. /\ ManagerTypeOK /\ DOMAIN loads = 1 .. Len(loads) /\ task \in Tasks
      /\ activations \in [Events \cup {Eager} -> SUBSET Plugins] /\ registry \subseteq Plugins
      /\ task.plugins \subseteq Plugins /\ task.events \in Seq(Events)
  BY Lengths DEF ManagerInv, ManagerTypeOK, Tasks
<1>2. ASSUME NEW l \in 1 .. Len(loads),
             \/ ProgressShown(l) \/ ProgressFails(l) \/ NextDependency(l) \/ DependencyLoaded(l)
             \/ CallStart(l) \/ StartReturns(l) \/ StartThrows(l)
      PROVE  Steps
  BY <1>1, <1>2, NextDependencySteps, OneLoadSteps
<1>3. CASE HandleInit \/ HandleStart \/ EventDone \/ RejectStart
  BY <1>3 DEF HandleInit, HandleStart, EventDone, RejectStart, Steps
<1>4. CASE ManifestsRead
  <2>1. PICK read \in SUBSET task.plugins :
           LET eager == Activate(Eager, Waiting(read), registry \cup read)
           IN  loads' = eager.loads /\ loadedPlugins' = eager.loadedPlugins /\ UNCHANGED activatedPlugins
    BY <1>4 DEF ManifestsRead
  <2> DEFINE waiting == Waiting(read)
             reg == registry \cup read
             next == Activate(Eager, waiting, reg)
  <2>2. reg \subseteq Plugins
    BY <1>1
  <2>3. waiting \in [Events \cup {Eager} -> SUBSET Plugins]
    BY <1>1 DEF Waiting
  <2>4. loads' = next.loads /\ loadedPlugins' = next.loadedPlugins /\ UNCHANGED activatedPlugins
    BY <2>1
  <2>5. next = Activate(Eager, waiting, reg)
    OBVIOUS
  <2> HIDE DEF waiting, reg, next
  <2> QED BY <2>2, <2>3, <2>4, <2>5, ActivateSteps
<1>5. CASE NextEvent
  <2>1. CASE task.events = <<>>
    BY <1>5, <2>1 DEF NextEvent, Steps
  <2>2. CASE task.events # <<>>
    <3> DEFINE e == Head(task.events)
               next == Activate(e, activations, registry)
    <3>1. e \in Events
      BY <1>1, <2>2, HeadTailProperties
    <3>2. loads' = next.loads /\ loadedPlugins' = next.loadedPlugins /\ UNCHANGED activatedPlugins
      BY <1>5, <2>2 DEF NextEvent
    <3>3. next = Activate(e, activations, registry)
      OBVIOUS
    <3> HIDE DEF e, next
    <3> QED BY <1>1, <3>1, <3>2, <3>3, ActivateSteps
  <2> QED BY <2>1, <2>2
<1>6. CASE HandleEvent
  <2> DEFINE e == Head(inbox).event
             next == Activate(e, activations, registry)
  <2>1. Head(inbox) \in Calls /\ Head(inbox).call = "event"
    BY <1>6, TakingFirst DEF HandleEvent
  <2>2. e \in Events
    BY <2>1 DEF Calls
  <2>3. loads' = next.loads /\ loadedPlugins' = next.loadedPlugins /\ UNCHANGED activatedPlugins
    BY <1>6 DEF HandleEvent
  <2>4. next = Activate(e, activations, registry)
    OBVIOUS
  <2> HIDE DEF e, next
  <2> QED BY <1>1, <2>2, <2>3, <2>4, ActivateSteps
<1>7. CASE HandleStop
  BY <1>7, StopSteps
<1> QED BY <1>2, <1>3, <1>4, <1>5, <1>6, <1>7 DEF ManagerStep

-----------------------------------------------------------------------------
LEMMA RanStays ==
    ASSUME \A k \in DOMAIN loads :
              /\ k \in DOMAIN loads' /\ loads'[k].plugin = loads[k].plugin
              /\ loads[k].pc \in {"started", "stopped"} => loads'[k].pc \in {"started", "stopped"}
    PROVE  \A q : Ran(q) => Ran(q)'
BY DEF Ran

LEMMA EntriesKept ==
    ASSUME ManagerInv, Entries,
           \A k \in DOMAIN loads :
              /\ loads'[k].plugin = loads[k].plugin
              /\ loads[k].pc \in {"started", "stopped"} => loads'[k].pc \in {"started", "stopped"},
           \A p \in Plugins :
              /\ \/ loadedPlugins'[p] \in {0, loadedPlugins[p]} \/ loads'[loadedPlugins'[p]].plugin = p
              /\ \/ activatedPlugins'[p] \in {0, activatedPlugins[p]}
                 \/ loads'[activatedPlugins'[p]].pc \in {"started", "stopped"}
    PROVE  Entries'
<1>1. /\ loadedPlugins \in [Plugins -> 0 .. Len(loads)] /\ activatedPlugins \in [Plugins -> 0 .. Len(loads)]
      /\ Len(loads) \in Nat /\ DOMAIN loads = 1 .. Len(loads)
  BY Lengths DEF ManagerInv, ManagerTypeOK
<1>2. ASSUME NEW p \in Plugins, loadedPlugins'[p] # 0 PROVE loads'[loadedPlugins'[p]].plugin = p
  <2>1. CASE loadedPlugins'[p] = loadedPlugins[p]
    <3> SUFFICES ASSUME NEW k, k = loadedPlugins[p], k # 0 PROVE loads'[k].plugin = p
      BY <1>2, <2>1
    <3>1. k \in DOMAIN loads /\ loads[k].plugin = p
      BY <1>1 DEF Entries
    <3> QED BY <3>1
  <2> QED BY <1>2, <2>1
<1>3. ASSUME NEW p \in Plugins, activatedPlugins'[p] # 0
      PROVE  loads'[activatedPlugins'[p]].pc \in {"started", "stopped"}
  <2>1. CASE activatedPlugins'[p] = activatedPlugins[p]
    <3> SUFFICES ASSUME NEW k, k = activatedPlugins[p], k # 0
                 PROVE  loads'[k].pc \in {"started", "stopped"}
      BY <1>3, <2>1
    <3>1. k \in DOMAIN loads /\ loads[k].pc \in {"started", "stopped"}
      BY <1>1 DEF Entries
    <3> QED BY <3>1
  <2> QED BY <1>3, <2>1
<1> QED BY <1>2, <1>3 DEF Entries

\* No activation ends or begins, and none waits for another than before.
LEMMA UnmovedKeeps ==
    ASSUME PluginAssumption, ManagerInv, Dependencies, Entries', DOMAIN loads' = DOMAIN loads,
           \A k \in DOMAIN loads :
              /\ loads'[k].plugin = loads[k].plugin /\ loads'[k].root = loads[k].root
              /\ loads'[k].dep = loads[k].dep /\ loads'[k].on = loads[k].on
              /\ loads'[k].visited = loads[k].visited
              /\ loads'[k].pc \in InProgress <=> loads[k].pc \in InProgress
              /\ loads[k].pc \in {"started", "stopped"} => loads'[k].pc \in {"started", "stopped"}
              /\ loads[k].pc \in {"failed", "rejected"} => loads'[k].pc = loads[k].pc
              /\ loads[k].pc = "dependencies" /\ loads[k].on # 0 => loads'[k].pc = "dependencies"
    PROVE  Dependencies'
<1>1. \A k \in DOMAIN loads :
         /\ k \in DOMAIN loads' /\ loads'[k].plugin = loads[k].plugin /\ loads'[k].root = loads[k].root
         /\ loads'[k].dep = loads[k].dep /\ loads'[k].on = loads[k].on /\ loads'[k].visited = loads[k].visited
  OBVIOUS
<1>2. DOMAIN loads' = DOMAIN loads
  OBVIOUS
<1>3. /\ \A k : Active(k)' <=> Active(k)
      /\ \A k, m : SameTree(k, m)' <=> SameTree(k, m)
      /\ \A q : Ran(q) => Ran(q)'
  BY RanStays DEF Active, SameTree
<1>5. ASSUME NEW k \in DOMAIN loads, loads[k].on # 0 PROVE loads[k].on \in DOMAIN loads
  BY <1>5, LoadFields
<1>6. Upcoming'
  <2> SUFFICES ASSUME NEW k \in DOMAIN loads, Active(k)
               PROVE  /\ loads'[k].dep <= Len(DependsOn[loads'[k].plugin])
                      /\ loads'[k].on # 0 =>
                            /\ loads'[k].pc = "dependencies"
                            /\ loads'[k].dep < Len(DependsOn[loads'[k].plugin])
                            /\ loads'[loads'[k].on].plugin = DependsOn[loads'[k].plugin][loads'[k].dep + 1]
    BY <1>2, <1>3 DEF Upcoming
  <2>1. /\ loads[k].dep <= Len(DependsOn[loads[k].plugin])
        /\ loads[k].on # 0 =>
              /\ loads[k].pc = "dependencies"
              /\ loads[k].dep < Len(DependsOn[loads[k].plugin])
              /\ loads[loads[k].on].plugin = DependsOn[loads[k].plugin][loads[k].dep + 1]
    BY DEF Dependencies, Upcoming
  <2> QED BY <1>1, <1>5, <2>1
<1>10. Gone'
  <2>1. Acyclic' <=> Acyclic
    BY DEF Acyclic
  <2> SUFFICES ASSUME Acyclic, NEW k \in DOMAIN loads', Active(k)', NEW i \in 1 .. loads'[k].dep,
                      NEW q \in Plugins, q = DependsOn[loads'[k].plugin][i]
               PROVE  Ran(q)'
    BY <2>1 DEF Gone
  <2>2. k \in DOMAIN loads /\ Active(k) /\ i \in 1 .. loads[k].dep /\ q = DependsOn[loads[k].plugin][i]
    BY <1>1, <1>2, <1>3
  <2> QED BY <1>3, <2>2 DEF Dependencies, Gone
<1>7. Chain' /\ Awaited'
  <2>1. Chain'
    BY <1>1, <1>2, <1>3 DEF Dependencies, Chain
  <2>2. Awaited'
    <3> SUFFICES ASSUME NEW m \in DOMAIN loads, Active(m), loads[m].root # m
                 PROVE  \E l \in DOMAIN loads : SameTree(l, m) /\ loads'[l].on = m
      BY <1>1, <1>2, <1>3 DEF Awaited
    <3>1. PICK l \in DOMAIN loads : SameTree(l, m) /\ loads[l].on = m
      BY DEF Dependencies, Awaited
    <3> QED BY <1>1, <3>1
  <2> QED BY <2>1, <2>2
<1>8. Ranked'
  BY <1>1, <1>2, <1>3 DEF Dependencies, Ranked
<1>9. Accounted'
  <2> SUFFICES ASSUME NEW k \in DOMAIN loads', Active(k)', NEW q \in loads'[loads'[k].root].visited
               PROVE  Ran(q)' \/ \E m \in DOMAIN loads' : SameTree(k, m)' /\ Justifies(m, q)'
    BY DEF Accounted
  <2>2. k \in DOMAIN loads /\ Active(k) /\ loads[k].root \in DOMAIN loads
    BY <1>2, <1>3, LoadFields
  <2>3. q \in loads[loads[k].root].visited
    BY <1>1, <2>2
  <2>1. ASSUME NEW m \in DOMAIN loads, Justifies(m, q) PROVE Justifies(m, q)'
    BY <1>1, <1>5, <2>1 DEF Justifies, Failed
  <2>4. Ran(q) \/ \E m \in DOMAIN loads : SameTree(k, m) /\ Justifies(m, q)
    BY <2>2, <2>3 DEF Dependencies, Accounted
  <2> QED BY <1>2, <1>3, <2>1, <2>4
<1> QED BY <1>6, <1>7, <1>8, <1>9, <1>10 DEF Dependencies

LEMMA GoingOnKeeps ==
    ASSUME PluginAssumption, ManagerInv, Dependencies, NEW l \in DOMAIN loads, GoesOn(l)
    PROVE  Dependencies'
<1>1. /\ DOMAIN loads' = DOMAIN loads /\ UNCHANGED <<loadedPlugins, activatedPlugins>>
      /\ loads[l].on = 0 /\ loads[l].pc \in InProgress /\ loads'[l].pc \in InProgress
  BY DEF GoesOn, OnlyChanges, Dependencies, Upcoming, InProgress, Active
<1>2. \A k \in DOMAIN loads :
         /\ loads'[k].plugin = loads[k].plugin /\ loads'[k].root = loads[k].root
         /\ loads'[k].dep = loads[k].dep /\ loads'[k].on = loads[k].on
         /\ loads'[k].visited = loads[k].visited
         /\ k # l => loads'[k].pc = loads[k].pc
  BY DEF GoesOn, OnlyChanges, Others, NoneVisited
<1>3. Entries'
  BY <1>1, <1>2, EntriesKept DEF Dependencies, InProgress
<1> QED BY <1>1, <1>2, <1>3, UnmovedKeeps DEF InProgress

LEMMA StoppingKeeps ==
    ASSUME PluginAssumption, ManagerInv, Dependencies, NEW p \in Plugins, Stops(p)
    PROVE  Dependencies'
<1>1. /\ activatedPlugins \in [Plugins -> Nat] /\ loadedPlugins \in [Plugins -> Nat]
      /\ 0 \notin DOMAIN loads
  <2>1. /\ loadedPlugins \in [Plugins -> 0 .. Len(loads)] /\ activatedPlugins \in [Plugins -> 0 .. Len(loads)]
        /\ Len(loads) \in Nat /\ DOMAIN loads = 1 .. Len(loads)
    BY Lengths DEF ManagerInv, ManagerTypeOK
  <2> QED BY <2>1
<1>2. DOMAIN loads' = DOMAIN loads
  BY DEF Stops
<1>3. ASSUME NEW k \in DOMAIN loads
      PROVE  /\ loads'[k].plugin = loads[k].plugin /\ loads'[k].root = loads[k].root
             /\ loads'[k].dep = loads[k].dep /\ loads'[k].on = loads[k].on
             /\ loads'[k].visited = loads[k].visited
             /\ \/ loads'[k].pc = loads[k].pc
                \/ loads[k].pc \in {"started", "stopped"} /\ loads'[k].pc = "stopped"
  <2>1. k = activatedPlugins[p] => loads[k].pc \in {"started", "stopped"}
    BY <1>1 DEF Dependencies, Entries
  <2> QED BY <2>1 DEF Stops, NoneVisited
<1>4. Entries'
  <2>1. \A q \in Plugins : /\ loadedPlugins'[q] \in {0, loadedPlugins[q]}
                           /\ activatedPlugins'[q] \in {0, activatedPlugins[q]}
    BY <1>1 DEF Stops
  <2> QED BY <1>3, <2>1, EntriesKept DEF Dependencies
<1> QED BY <1>2, <1>3, <1>4, UnmovedKeeps DEF InProgress

\* The last of a chain moves: the others, and the chain they make, stay.
LastMoves(l) ==
    /\ Others(l) /\ Active(l)
    /\ loads[l].on = 0 \/ loads[loads[l].on].pc \notin InProgress
TreesStay ==
    /\ \A k, m \in DOMAIN loads : SameTree(k, m)' /\ k < m =>
          \E n \in DOMAIN loads : n = loads'[k].on /\ k < n /\ n <= m /\ SameTree(k, n)'
    /\ \A m \in DOMAIN loads : Active(m)' /\ loads'[m].root # m =>
          \E k \in DOMAIN loads : SameTree(k, m)' /\ loads'[k].on = m
    /\ \A k, m \in DOMAIN loads : SameTree(k, m)' => SameTree(k, m)

LEMMA LastMovesAlone ==
    ASSUME PluginAssumption, ManagerInv, Dependencies, NEW l, LastMoves(l)
    PROVE  /\ l \in DOMAIN loads
           /\ \A m : SameTree(l, m) => m <= l
           /\ \A m : SameTree(m, l) /\ m # l => m < l
           /\ \A m \in DOMAIN loads : Active(m)' => Active(m)
           /\ \A m \in DOMAIN loads : Active(m) /\ m # l => Active(m)'
           /\ \A k, m \in DOMAIN loads : SameTree(k, m)' => SameTree(k, m)
           /\ \A k, m \in DOMAIN loads : Active(k)' /\ Active(m)' /\ SameTree(k, m) => SameTree(k, m)'
<1>1. l \in DOMAIN loads /\ Active(l) /\ Others(l)
  BY DEF LastMoves, Active
<1>2. (\A m : SameTree(l, m) => m <= l) /\ (\A m : SameTree(m, l) /\ m # l => m < l)
  BY LastOfChain DEF LastMoves, Dependencies
<1>3. \A m \in DOMAIN loads : (Active(m)' => Active(m)) /\ (Active(m) /\ m # l => Active(m)')
  BY <1>1 DEF Others, Active
<1>4. \A m \in DOMAIN loads : loads'[m].root = loads[m].root
  BY <1>1 DEF Others
<1>5. \A k, m \in DOMAIN loads : SameTree(k, m)' => SameTree(k, m)
  BY <1>3, <1>4 DEF SameTree
<1>6. \A k, m \in DOMAIN loads : Active(k)' /\ Active(m)' /\ SameTree(k, m) => SameTree(k, m)'
  BY <1>4 DEF SameTree
<1> QED BY <1>1, <1>2, <1>3, <1>5, <1>6

LEMMA LastKeepsTrees ==
    ASSUME PluginAssumption, ManagerInv, Dependencies, NEW l, LastMoves(l)
    PROVE  TreesStay
<1>1. /\ l \in DOMAIN loads
      /\ \A m : SameTree(l, m) => m <= l
      /\ \A m \in DOMAIN loads : Active(m)' => Active(m)
      /\ \A m \in DOMAIN loads : Active(m) /\ m # l => Active(m)'
      /\ \A k, m \in DOMAIN loads : SameTree(k, m)' => SameTree(k, m)
      /\ \A k, m \in DOMAIN loads : Active(k)' /\ Active(m)' /\ SameTree(k, m) => SameTree(k, m)'
  BY LastMovesAlone
<1>2. \A k \in DOMAIN loads : loads'[k].root = loads[k].root /\ (k # l => loads'[k].on = loads[k].on)
  BY DEF LastMoves, Others
<1>3. \A k \in DOMAIN loads : k \in Nat \ {0}
  BY LoadFields
<1>4. ASSUME NEW k \in DOMAIN loads, NEW m \in DOMAIN loads, SameTree(k, m)', k < m
      PROVE  \E n \in DOMAIN loads : n = loads'[k].on /\ k < n /\ n <= m /\ SameTree(k, n)'
  <2>1. SameTree(k, m) /\ Active(k)' /\ Active(m)' /\ k \in Nat /\ m \in Nat /\ l \in Nat
    BY <1>1, <1>3, <1>4 DEF SameTree
  <2>2. k # l
    BY <1>1, <1>4, <2>1
  <2> SUFFICES ASSUME NEW n, n = loads[k].on
               PROVE  n \in DOMAIN loads /\ k < n /\ n <= m /\ SameTree(k, n)'
    BY <1>2, <2>2
  <2>3. k < n /\ n <= m /\ SameTree(k, n)
    BY <1>4, <2>1 DEF Dependencies, Chain
  <2>4. n \in DOMAIN loads /\ Active(n)
    BY <2>3 DEF SameTree, Active
  <2>5. Active(n)'
    <3>1. CASE n # l
      BY <1>1, <2>4, <3>1
    <3>2. CASE n = l
      <4>1. SameTree(l, m)
        BY <2>1, <2>3, <3>2 DEF SameTree
      <4>2. m = l
        BY <1>1, <2>1, <2>3, <3>2, <4>1
      <4> QED BY <2>1, <3>2, <4>2
    <3> QED BY <3>1, <3>2
  <2> QED BY <1>1, <2>1, <2>3, <2>4, <2>5
<1>5. ASSUME NEW m \in DOMAIN loads, Active(m)', loads'[m].root # m
      PROVE  \E k \in DOMAIN loads : SameTree(k, m)' /\ loads'[k].on = m
  <2>1. Active(m) /\ loads[m].root # m /\ m # 0
    BY <1>1, <1>2, <1>3, <1>5
  <2>2. PICK k \in DOMAIN loads : SameTree(k, m) /\ loads[k].on = m
    BY <2>1 DEF Dependencies, Awaited
  <2>3. k # l
    BY <2>1, <2>2 DEF LastMoves, Active
  <2>4. Active(k)'
    BY <1>1, <2>2, <2>3 DEF SameTree
  <2> QED BY <1>1, <1>2, <1>5, <2>2, <2>3, <2>4
<1> QED BY <1>1, <1>4, <1>5 DEF TreesStay

LEMMA TreesStaying ==
    ASSUME TreesStay, Ranked, DOMAIN loads' = DOMAIN loads,
           \A k \in DOMAIN loads : loads'[k].plugin = loads[k].plugin
    PROVE  Chain' /\ Awaited' /\ Ranked'
<1>1. Chain'
  BY DEF TreesStay, Chain
<1>2. Awaited'
  BY DEF TreesStay, Awaited
<1>3. Ranked'
  BY DEF TreesStay, Ranked
<1> QED BY <1>1, <1>2, <1>3

LEMMA UpcomingKept ==
    ASSUME PluginAssumption, ManagerInv, Upcoming, NEW l, Others(l),
           \A k \in DOMAIN loads' : Active(k)' /\ (k = l \/ k \notin DOMAIN loads) =>
              /\ loads'[k].dep <= Len(DependsOn[loads'[k].plugin])
              /\ loads'[k].on # 0 =>
                    /\ loads'[k].pc = "dependencies"
                    /\ loads'[k].dep < Len(DependsOn[loads'[k].plugin])
                    /\ loads'[loads'[k].on].plugin = DependsOn[loads'[k].plugin][loads'[k].dep + 1]
    PROVE  Upcoming'
<1> SUFFICES ASSUME NEW k \in DOMAIN loads', Active(k)', k \in DOMAIN loads, k # l
             PROVE  /\ loads'[k].dep <= Len(DependsOn[loads'[k].plugin])
                    /\ loads'[k].on # 0 =>
                          /\ loads'[k].pc = "dependencies"
                          /\ loads'[k].dep < Len(DependsOn[loads'[k].plugin])
                          /\ loads'[loads'[k].on].plugin = DependsOn[loads'[k].plugin][loads'[k].dep + 1]
  BY DEF Upcoming
<1>1. /\ loads'[k].plugin = loads[k].plugin /\ loads'[k].pc = loads[k].pc
      /\ loads'[k].dep = loads[k].dep /\ loads'[k].on = loads[k].on
  BY DEF Others
<1>2. Active(k)
  BY <1>1 DEF Active
<1>3. loads[k].on # 0 => loads'[loads[k].on].plugin = loads[loads[k].on].plugin
  <2> SUFFICES ASSUME NEW n, n = loads[k].on, n # 0 PROVE loads'[n].plugin = loads[n].plugin
    OBVIOUS
  <2>1. n \in DOMAIN loads
    BY LoadFields
  <2> QED BY <2>1 DEF Others
<1>4. /\ loads[k].dep <= Len(DependsOn[loads[k].plugin])
      /\ loads[k].on # 0 =>
            /\ loads[k].pc = "dependencies"
            /\ loads[k].dep < Len(DependsOn[loads[k].plugin])
            /\ loads[loads[k].on].plugin = DependsOn[loads[k].plugin][loads[k].dep + 1]
  BY <1>2 DEF Upcoming
<1> QED BY <1>1, <1>3, <1>4

LEMMA GoneKept ==
    ASSUME Gone, NEW l, Others(l), \A q : Ran(q) => Ran(q)',
           \A k \in DOMAIN loads' : Acyclic /\ Active(k)' /\ (k = l \/ k \notin DOMAIN loads) =>
              \A i \in 1 .. loads'[k].dep : \A q \in Plugins : q = DependsOn[loads'[k].plugin][i] => Ran(q)'
    PROVE  Gone'
<1>1. Acyclic' <=> Acyclic
  BY DEF Acyclic
<1> SUFFICES ASSUME Acyclic, NEW k \in DOMAIN loads', Active(k)', k \in DOMAIN loads, k # l,
                    NEW i \in 1 .. loads'[k].dep,
                    NEW q \in Plugins, q = DependsOn[loads'[k].plugin][i]
             PROVE  Ran(q)'
  BY <1>1 DEF Gone
<1>2. /\ loads'[k].plugin = loads[k].plugin /\ loads'[k].pc = loads[k].pc
      /\ loads'[k].dep = loads[k].dep
  BY DEF Others
<1>3. Active(k) /\ i \in 1 .. loads[k].dep /\ q = DependsOn[loads[k].plugin][i]
  BY <1>2 DEF Active
<1> QED BY <1>3 DEF Gone

\* What was justified by others stays so; l passes it on to the one that waits for it when it fails.
LEMMA LastKeepsAccounts ==
    ASSUME PluginAssumption, ManagerInv, Dependencies, NEW l, LastMoves(l),
           \A q : Ran(q) => Ran(q)',
           \A q : Justifies(l, q) => Ran(q)' \/ (Active(l)' /\ Justifies(l, q)')
               \/ loads'[l].pc \in {"failed", "rejected"},
           NEW k \in DOMAIN loads, Active(k)', NEW q \in loads[loads[k].root].visited
    PROVE  Ran(q)' \/ \E m \in DOMAIN loads : SameTree(k, m)' /\ Justifies(m, q)'
<1>1. /\ l \in DOMAIN loads
      /\ \A m : SameTree(m, l) /\ m # l => m < l
      /\ \A m \in DOMAIN loads : Active(m)' => Active(m)
      /\ \A m \in DOMAIN loads : Active(m) /\ m # l => Active(m)'
      /\ \A i, m \in DOMAIN loads : Active(i)' /\ Active(m)' /\ SameTree(i, m) => SameTree(i, m)'
  BY LastMovesAlone
<1>2. \A m \in DOMAIN loads :
         /\ loads'[m].plugin = loads[m].plugin
         /\ m # l => loads'[m].on = loads[m].on /\ loads'[m].pc = loads[m].pc
  BY DEF LastMoves, Others
<1>3. \A m \in DOMAIN loads : m \in Nat \ {0} /\ loads[m].root <= m /\ loads[m].root \in DOMAIN loads
  BY LoadFields
<1>4. SUFFICES ASSUME NEW m \in DOMAIN loads, SameTree(k, m), Justifies(m, q)
               PROVE  Ran(q)' \/ \E n \in DOMAIN loads : SameTree(k, n)' /\ Justifies(n, q)'
  BY <1>1 DEF Dependencies, Accounted
<1>5. CASE m # l
  <2>1. SameTree(k, m)'
    BY <1>1, <1>4, <1>5 DEF SameTree
  <2>2. Justifies(m, q)'
    <3>1. CASE loads[m].plugin = q
      BY <1>2, <3>1 DEF Justifies
    <3>2. CASE loads[m].on # 0 /\ (loads[loads[m].on].plugin = q \/ Failed(loads[m].on))
      <4> SUFFICES ASSUME NEW n, n = loads[m].on PROVE Justifies(m, q)'
        OBVIOUS
      <4>1. n \in DOMAIN loads
        BY <3>2, LoadFields
      <4>2. Failed(n) => n # l
        BY DEF LastMoves, Active, InProgress, Failed
      <4>3. loads'[n].plugin = loads[n].plugin /\ (Failed(n) => Failed(n)')
        BY <1>2, <4>1, <4>2 DEF Failed
      <4>4. loads'[m].on = n /\ n # 0
        BY <1>2, <1>5, <3>2
      <4> QED BY <3>2, <4>3, <4>4 DEF Justifies
    <3> QED BY <1>4, <3>1, <3>2 DEF Justifies
  <2> QED BY <2>1, <2>2
<1>6. CASE m = l
  <2>1. CASE Ran(q)'
    BY <2>1
  <2>2. CASE Active(l)' /\ Justifies(l, q)'
    BY <1>1, <1>4, <1>6, <2>2
  <2>3. CASE loads'[l].pc \in {"failed", "rejected"}
    <3>1. k # l
      BY <2>3 DEF Active, InProgress
    <3>2. k < l /\ loads[k].root = loads[l].root
      BY <1>1, <1>4, <1>6, <3>1 DEF SameTree
    <3>3. loads[l].root # l
      <4>1. loads[l].root <= k /\ k < l /\ k \in Nat /\ l \in Nat
        BY <1>1, <1>3, <3>2
      <4> QED BY ONLY <4>1
    <3>4. PICK n \in DOMAIN loads : SameTree(n, l) /\ loads[n].on = l
      BY <1>1, <3>3 DEF Dependencies, Awaited, LastMoves
    <3>5. n # l
      BY <1>1, <1>3, <3>4 DEF LastMoves, Active
    <3>6. Active(n)' /\ SameTree(k, n)
      BY <1>1, <1>4, <1>6, <3>4, <3>5 DEF SameTree
    <3>7. Justifies(n, q)'
      BY <1>1, <1>2, <1>3, <2>3, <3>4, <3>5 DEF Justifies, Failed
    <3> QED BY <1>1, <3>6, <3>7
  <2> QED BY <1>4, <1>6, <2>1, <2>2, <2>3
<1> QED BY <1>5, <1>6

LEMMA OnlyLastChanges ==
    ASSUME PluginAssumption, ManagerInv, Dependencies, NEW l \in DOMAIN loads, OnlyChanges(l),
           loads[l].on = 0 \/ loads[loads[l].on].pc \notin InProgress,
           \A q : Justifies(l, q) => Ran(q)' \/ (Active(l)' /\ Justifies(l, q)')
               \/ loads'[l].pc \in {"failed", "rejected"}
    PROVE  /\ \A q : Ran(q) => Ran(q)'
           /\ Chain' /\ Awaited' /\ Ranked' /\ Accounted'
           /\ Others(l) /\ DOMAIN loads' = DOMAIN loads /\ loadedPlugins' = loadedPlugins
<1>1. LastMoves(l) /\ Others(l) /\ NoneVisited /\ DOMAIN loads' = DOMAIN loads /\ loadedPlugins' = loadedPlugins
  BY DEF OnlyChanges, LastMoves
<1>2. \A q : Ran(q) => Ran(q)'
  <2>1. \A k \in DOMAIN loads :
           /\ k \in DOMAIN loads' /\ loads'[k].plugin = loads[k].plugin
           /\ loads[k].pc \in {"started", "stopped"} => k # l /\ loads'[k].pc = loads[k].pc
    BY <1>1 DEF Others, LastMoves, Active, InProgress
  <2> QED BY <2>1, RanStays
<1>3. TreesStay
  BY <1>1, LastKeepsTrees
<1>4. \A k \in DOMAIN loads : loads'[k].plugin = loads[k].plugin /\ loads'[k].root = loads[k].root
  BY <1>1 DEF Others
<1>5. Chain' /\ Awaited' /\ Ranked'
  BY <1>1, <1>3, <1>4, TreesStaying DEF Dependencies
<1>6. Accounted'
  <2> SUFFICES ASSUME NEW k \in DOMAIN loads', Active(k)', NEW q \in loads'[loads'[k].root].visited
               PROVE  Ran(q)' \/ \E m \in DOMAIN loads' : SameTree(k, m)' /\ Justifies(m, q)'
    BY DEF Accounted
  <2>1. k \in DOMAIN loads /\ loads[k].root \in DOMAIN loads
    BY <1>1, LoadFields
  <2>2. q \in loads[loads[k].root].visited
    BY <1>1, <1>4, <2>1 DEF NoneVisited
  <2> QED BY <1>1, <1>2, <2>1, <2>2, LastKeepsAccounts
<1> QED BY <1>1, <1>2, <1>5, <1>6

LEMMA GoingPastKeeps ==
    ASSUME PluginAssumption, ManagerInv, Dependencies, NEW l \in DOMAIN loads, GoesPast(l)
    PROVE  Dependencies'
<1>1. /\ OnlyChanges(l) /\ UNCHANGED activatedPlugins
      /\ loads[l].pc = "dependencies" /\ loads'[l].pc = "dependencies"
      /\ loads'[l].dep = loads[l].dep + 1 /\ loads'[l].on = 0
      /\ loads[l].on = 0 \/ loads[loads[l].on].pc \in {"started", "stopped"}
      /\ Active(l) /\ Others(l)
  BY DEF GoesPast, OnlyChanges
<1>2. Active(l)' /\ loads'[l].plugin = loads[l].plugin
  BY <1>1 DEF Active, InProgress, Others, OnlyChanges
<1>3. /\ loads[l].dep \in Nat /\ loads[l].on \in Nat /\ loads[l].plugin \in Plugins
      /\ Len(DependsOn[loads[l].plugin]) \in Nat
      /\ loads[l].on # 0 => loads[l].on \in DOMAIN loads
  BY LoadFields
<1>4. \A q : Ran(q) => Ran(q)'
  <2>1. \A k \in DOMAIN loads :
           /\ k \in DOMAIN loads' /\ loads'[k].plugin = loads[k].plugin
           /\ loads[k].pc \in {"started", "stopped"} => k # l /\ loads'[k].pc = loads[k].pc
    BY <1>1 DEF Others
  <2> QED BY <2>1, RanStays
<1>5. ASSUME NEW q, Justifies(l, q) PROVE Ran(q)' \/ Justifies(l, q)'
  <2>1. CASE loads[l].plugin = q
    BY <1>2, <2>1 DEF Justifies
  <2>2. CASE loads[l].on # 0 /\ loads[loads[l].on].plugin = q
    <3>1. Ran(q)
      BY <1>1, <1>3, <2>2 DEF Ran
    <3> QED BY <1>4, <3>1
  <2> QED BY <1>1, <1>5, <2>1, <2>2 DEF Justifies, Failed
<1>6. /\ Chain' /\ Awaited' /\ Ranked' /\ Accounted'
      /\ DOMAIN loads' = DOMAIN loads /\ loadedPlugins' = loadedPlugins
  BY <1>1, <1>2, <1>5, OnlyLastChanges DEF InProgress
<1>7. loads[l].dep < Len(DependsOn[loads[l].plugin])
  BY <1>1 DEF GoesPast, Dependencies, Upcoming
<1>8. Upcoming'
  BY <1>1, <1>2, <1>3, <1>6, <1>7, UpcomingKept DEF Dependencies
<1>9. Acyclic => Ran(DependsOn[loads[l].plugin][loads[l].dep + 1])
  <2>1. CASE loads[l].on = 0
    BY <1>1, <2>1, VisitedRan DEF GoesPast
  <2>2. CASE loads[l].on # 0
    <3>1. loads[loads[l].on].plugin = DependsOn[loads[l].plugin][loads[l].dep + 1]
      BY <1>1, <2>2 DEF Dependencies, Upcoming
    <3> QED BY <1>1, <1>3, <2>2, <3>1 DEF Ran
  <2> QED BY <2>1, <2>2
<1>10. ASSUME Acyclic, NEW i \in 1 .. loads'[l].dep, NEW q \in Plugins, q = DependsOn[loads'[l].plugin][i]
       PROVE  Ran(q)'
  <2>1. i \in 1 .. loads[l].dep \/ i = loads[l].dep + 1
    BY <1>1, <1>3
  <2>2. q = DependsOn[loads[l].plugin][i]
    BY <1>2, <1>10
  <2>3. CASE i \in 1 .. loads[l].dep
    BY <1>1, <1>4, <1>10, <2>2, <2>3 DEF Dependencies, Gone
  <2>4. CASE i = loads[l].dep + 1
    BY <1>4, <1>9, <1>10, <2>2, <2>4
  <2> QED BY <2>1, <2>3, <2>4
<1>11. Gone'
  BY <1>1, <1>4, <1>6, <1>10, GoneKept DEF Dependencies
<1>12. Entries'
  <2>1. \A k \in DOMAIN loads :
           /\ loads'[k].plugin = loads[k].plugin
           /\ loads[k].pc \in {"started", "stopped"} => loads'[k].pc = loads[k].pc
    BY <1>1 DEF Others
  <2> QED BY <1>1, <1>6, <2>1, EntriesKept DEF Dependencies
<1> QED BY <1>6, <1>8, <1>11, <1>12 DEF Dependencies

LEMMA EndingKeeps ==
    ASSUME PluginAssumption, ManagerInv, Dependencies, NEW l \in DOMAIN loads, Ends(l)
    PROVE  Dependencies'
<1>1. /\ OnlyChanges(l) /\ Active(l) /\ Others(l)
      /\ loads'[l].dep = loads[l].dep /\ loads'[l].on = loads[l].on /\ loads'[l].plugin = loads[l].plugin
      /\ loads'[l].pc \in {"started", "failed", "rejected"}
  BY DEF Ends, OnlyChanges, Others
<1>2. loads[l].pc # "dependencies" => loads[l].on = 0
  BY <1>1 DEF Dependencies, Upcoming
<1>3. loads[l].on = 0 \/ loads[loads[l].on].pc \notin InProgress
  BY <1>2 DEF Ends, Failed, InProgress
<1>4. loads'[l].pc = "started" => loads[l].on = 0
  BY <1>2 DEF Ends
<1>5. ASSUME NEW q, Justifies(l, q) PROVE Ran(q)' \/ loads'[l].pc \in {"failed", "rejected"}
  <2>1. CASE loads'[l].pc = "started"
    <3>1. loads[l].plugin = q
      BY <1>4, <1>5, <2>1 DEF Justifies
    <3>2. l \in DOMAIN loads'
      BY <1>1 DEF OnlyChanges
    <3> QED BY <1>1, <2>1, <3>1, <3>2 DEF Ran
  <2> QED BY <1>1, <2>1
<1>6. /\ Chain' /\ Awaited' /\ Ranked' /\ Accounted' /\ (\A q : Ran(q) => Ran(q)')
      /\ DOMAIN loads' = DOMAIN loads /\ loadedPlugins' = loadedPlugins
  BY <1>1, <1>3, <1>5, OnlyLastChanges
<1>7. ~Active(l)'
  BY <1>1 DEF Active, InProgress
<1>8. Upcoming'
  BY <1>1, <1>6, <1>7, UpcomingKept DEF Dependencies
<1>9. Gone'
  BY <1>1, <1>6, <1>7, GoneKept DEF Dependencies
<1>10. Entries'
  <2>1. \A k \in DOMAIN loads :
           /\ loads'[k].plugin = loads[k].plugin
           /\ loads[k].pc \in {"started", "stopped"} => loads'[k].pc \in {"started", "stopped"}
    BY <1>1 DEF Others, Active, InProgress
  <2>2. activatedPlugins \in [Plugins -> 0 .. Len(loads)]
    BY DEF ManagerInv, ManagerTypeOK
  <2>3. ASSUME NEW p \in Plugins
        PROVE  \/ activatedPlugins'[p] \in {0, activatedPlugins[p]}
               \/ loads'[activatedPlugins'[p]].pc \in {"started", "stopped"}
    <3>1. CASE UNCHANGED activatedPlugins
      BY <3>1
    <3>2. CASE /\ loads'[l].pc = "started"
               /\ activatedPlugins' = [activatedPlugins EXCEPT ![loads[l].plugin] = l]
      BY <2>2, <3>2
    <3> QED BY <3>1, <3>2 DEF Ends
  <2> QED BY <1>6, <2>1, <2>3, EntriesKept DEF Dependencies
<1> QED BY <1>6, <1>8, <1>9, <1>10 DEF Dependencies

\* The last of a chain begins to wait for a dependency: one more activation may join the chain.
LEMMA BeginningToWaitKeeps ==
    ASSUME PluginAssumption, ManagerInv, ManagerInv', Dependencies,
           NEW l \in DOMAIN loads, NEW q \in Plugins, NEW entry, BeginsToWait(l, q, entry)
    PROVE  Dependencies'
<1>1. /\ Others(l) /\ LastMoves(l) /\ Active(l) /\ UNCHANGED activatedPlugins
      /\ loads[l].pc = "dependencies" /\ loads'[l].pc = "dependencies"
      /\ loads[l].on = 0 /\ loads'[l].on = entry /\ loads'[l].dep = loads[l].dep
      /\ loads[l].dep < Len(DependsOn[loads[l].plugin])
      /\ q = DependsOn[loads[l].plugin][loads[l].dep + 1]
      /\ loadedPlugins' = [loadedPlugins EXCEPT ![q] = entry]
  BY DEF BeginsToWait, LastMoves
<1>2. \A k \in DOMAIN loads :
         /\ k \in DOMAIN loads' /\ loads'[k].plugin = loads[k].plugin /\ loads'[k].root = loads[k].root
         /\ loads'[k].pc = loads[k].pc
         /\ loads'[k].visited = loads[k].visited \cup (IF k = loads[l].root THEN {q} ELSE {})
  <2>1. \A k \in DOMAIN loads :
           /\ k \in DOMAIN loads' /\ loads'[k].plugin = loads[k].plugin /\ loads'[k].root = loads[k].root
           /\ loads'[k].pc = loads[k].pc
    BY <1>1 DEF Others
  <2> QED BY <2>1 DEF BeginsToWait
<1>3. /\ \A k \in DOMAIN loads : k \in Nat \ {0} /\ loads[k].root \in DOMAIN loads /\ loads[k].plugin \in Plugins
      /\ loads[l].dep \in Nat /\ Len(DependsOn[loads[l].plugin]) \in Nat
      /\ loadedPlugins \in [Plugins -> Nat]
      /\ \A p \in Plugins : loadedPlugins[p] # 0 => loadedPlugins[p] \in DOMAIN loads
  <2>1. loadedPlugins \in [Plugins -> 0 .. Len(loads)] /\ Len(loads) \in Nat /\ DOMAIN loads = 1 .. Len(loads)
    BY Lengths DEF ManagerInv, ManagerTypeOK
  <2>2. /\ loadedPlugins \in [Plugins -> Nat]
        /\ \A p \in Plugins : loadedPlugins[p] # 0 => loadedPlugins[p] \in DOMAIN loads
    BY <2>1
  <2> QED BY <2>2, LoadFields
<1>4. \/ DOMAIN loads' = DOMAIN loads /\ entry \in DOMAIN loads /\ loads[entry].plugin = q
      \/ /\ entry \notin DOMAIN loads /\ DOMAIN loads' = DOMAIN loads \cup {entry}
         /\ \A k \in DOMAIN loads : k < entry
         /\ loads'[entry] = NewLoad(q, loads[l].root)
  BY <1>3 DEF BeginsToWait, Dependencies, Entries
<1>5. entry \notin DOMAIN loads =>
         /\ \A k \in DOMAIN loads : k < entry
         /\ loads'[entry].plugin = q /\ loads'[entry].root = loads[l].root
         /\ loads'[entry].dep = 0 /\ loads'[entry].on = 0 /\ loads'[entry].pc = "progress"
  BY <1>4 DEF NewLoad
<1>6. /\ entry \in DOMAIN loads' /\ loads'[entry].plugin = q /\ entry \in Nat \ {0}
      /\ \A k \in DOMAIN loads' : k \in DOMAIN loads \/ (k = entry /\ entry \notin DOMAIN loads)
  <2>1. Len(loads') \in Nat /\ DOMAIN loads' = 1 .. Len(loads')
    BY LenProperties DEF ManagerInv, ManagerTypeOK
  <2>2. entry \in DOMAIN loads' /\ loads'[entry].plugin = q
    <3>1. CASE entry \in DOMAIN loads
      BY <1>2, <1>4, <3>1
    <3>2. CASE entry \notin DOMAIN loads
      BY <1>4, <1>5, <3>2
    <3> QED BY <3>1, <3>2
  <2>3. \A k \in DOMAIN loads' : k \in DOMAIN loads \/ (k = entry /\ entry \notin DOMAIN loads)
    BY <1>4
  <2> QED BY <2>1, <2>2, <2>3
<1>7. /\ l \in DOMAIN loads' /\ Active(l)' /\ (entry \notin DOMAIN loads => Active(entry)')
      /\ Justifies(l, q)'
      /\ \A r : Justifies(l, r) => Justifies(l, r)'
  <2>1. l \in DOMAIN loads' /\ Active(l)' /\ loads'[l].plugin = loads[l].plugin
    BY <1>1, <1>2 DEF Active, InProgress
  <2>2. entry \notin DOMAIN loads => Active(entry)'
    BY <1>5, <1>6 DEF Active, InProgress
  <2>3. Justifies(l, q)'
    BY <1>1, <1>6 DEF Justifies
  <2>4. \A r : Justifies(l, r) => Justifies(l, r)'
    BY <1>1, <2>1 DEF Justifies
  <2> QED BY <2>1, <2>2, <2>3, <2>4
<1>8. TreesStay
  BY <1>1, LastKeepsTrees
<1>9. \A r : Ran(r) => Ran(r)'
  BY <1>2, RanStays
\* The chain behind the last one.
<1>10. ASSUME NEW k \in DOMAIN loads, entry \notin DOMAIN loads, SameTree(k, entry)'
       PROVE  SameTree(k, l)' /\ (k = l \/ (k < l /\ SameTree(k, l)))
  <2>1. SameTree(k, l)'
    BY <1>2, <1>5, <1>7, <1>10 DEF SameTree
  <2>2. SameTree(k, l)
    BY <1>8, <2>1 DEF TreesStay
  <2> QED BY <1>1, <2>1, <2>2, LastMovesAlone
<1>11. entry \notin DOMAIN loads => SameTree(l, entry)'
  BY <1>2, <1>5, <1>7 DEF SameTree
<1>12. Chain'
  <2> SUFFICES ASSUME NEW k \in DOMAIN loads', NEW m \in DOMAIN loads', SameTree(k, m)', k < m,
                      NEW n, n = loads'[k].on
               PROVE  k < n /\ n <= m /\ SameTree(k, n)'
    BY DEF Chain
  <2>1. CASE k \in DOMAIN loads /\ m \in DOMAIN loads
    BY <1>8, <2>1 DEF TreesStay
  <2>2. CASE k \in DOMAIN loads /\ m = entry /\ entry \notin DOMAIN loads
    <3>1. CASE k = l
      <4>1. n = entry /\ l < entry
        BY <1>1, <1>5, <2>2, <3>1
      <4>2. entry <= entry
        BY <1>6
      <4> QED BY <1>11, <2>2, <3>1, <4>1, <4>2
    <3>2. CASE k < l /\ SameTree(k, l)'
      <4>1. k < n /\ n <= l /\ SameTree(k, n)' /\ n \in DOMAIN loads
        BY <1>8, <2>2, <3>2 DEF TreesStay
      <4>2. n < entry
        BY <1>5, <2>2, <4>1
      <4>3. n \in Nat /\ entry \in Nat
        BY <1>3, <1>6, <4>1
      <4> QED BY <2>2, <4>1, <4>2, <4>3
    <3> QED BY <1>10, <2>2, <3>1, <3>2
  <2>3. CASE k = entry /\ entry \notin DOMAIN loads
    <3>1. m \in DOMAIN loads \/ m = entry
      BY <1>6
    <3> QED BY <1>3, <1>5, <1>6, <2>3, <3>1
  <2> QED BY <1>6, <2>1, <2>2, <2>3
<1>13. Awaited'
  <2> SUFFICES ASSUME NEW m \in DOMAIN loads', Active(m)', loads'[m].root # m
               PROVE  \E k \in DOMAIN loads' : SameTree(k, m)' /\ loads'[k].on = m
    BY DEF Awaited
  <2>1. CASE m \in DOMAIN loads
    BY <1>2, <1>8, <2>1 DEF TreesStay
  <2>2. CASE m = entry /\ entry \notin DOMAIN loads
    BY <1>1, <1>7, <1>11, <2>2
  <2> QED BY <1>6, <2>1, <2>2
<1>14. Ranked'
  <2> SUFFICES ASSUME NEW rank \in Ranks, Decreasing(rank), NEW k \in DOMAIN loads', NEW m \in DOMAIN loads',
                      SameTree(k, m)', k < m
               PROVE  rank[loads'[m].plugin] < rank[loads'[k].plugin]
    BY DEF Ranked, Ranks, Decreasing
  <2>1. CASE k \in DOMAIN loads /\ m \in DOMAIN loads
    <3>1. SameTree(k, m)
      BY <1>8, <2>1 DEF TreesStay
    <3> QED BY <1>2, <2>1, <3>1 DEF Dependencies, Ranked
  <2>2. CASE k \in DOMAIN loads /\ m = entry /\ entry \notin DOMAIN loads
    <3>1. rank[q] < rank[loads[l].plugin]
      BY <1>1, NextIsLower
    <3>2. loads'[m].plugin = q /\ loads'[k].plugin = loads[k].plugin
      BY <1>2, <1>5, <2>2
    <3>3. CASE k = l
      BY <3>1, <3>2, <3>3
    <3>4. CASE k < l /\ SameTree(k, l)
      <4>1. rank[loads[l].plugin] < rank[loads[k].plugin]
        BY <2>2, <3>4 DEF Dependencies, Ranked
      <4>2. rank[q] \in Int /\ rank[loads[l].plugin] \in Int /\ rank[loads[k].plugin] \in Int
        BY <1>3, <2>2, RanksAreNumbers
      <4> QED BY <3>1, <3>2, <4>1, <4>2
    <3> QED BY <1>10, <2>2, <3>3, <3>4
  <2>3. CASE k = entry /\ entry \notin DOMAIN loads
    <3>1. m \in DOMAIN loads \/ m = entry
      BY <1>6
    <3> QED BY <1>3, <1>5, <1>6, <2>3, <3>1
  <2> QED BY <1>6, <2>1, <2>2, <2>3
<1>15. ASSUME NEW k \in DOMAIN loads, Active(k)', NEW r \in loads'[loads'[k].root].visited
       PROVE  Ran(r)' \/ \E m \in DOMAIN loads : SameTree(k, m)' /\ Justifies(m, r)'
  <2>1. loads'[k].root = loads[k].root /\ loads[k].root \in DOMAIN loads
    BY <1>2, <1>3
  <2>2. CASE r \in loads[loads[k].root].visited
    BY <1>1, <1>7, <1>9, <1>15, <2>2, LastKeepsAccounts
  <2>3. CASE loads[k].root = loads[l].root /\ r = q
    <3>1. SameTree(k, l)'
      BY <1>2, <1>7, <1>15, <2>3 DEF SameTree
    <3> QED BY <1>7, <2>3, <3>1
  <2> QED BY <1>2, <1>15, <2>1, <2>2, <2>3
<1>16. Accounted'
  <2> SUFFICES ASSUME NEW k \in DOMAIN loads', Active(k)', NEW r \in loads'[loads'[k].root].visited
               PROVE  Ran(r)' \/ \E m \in DOMAIN loads' : SameTree(k, m)' /\ Justifies(m, r)'
    BY DEF Accounted
  <2>1. CASE k \in DOMAIN loads
    BY <1>2, <1>15, <2>1
  <2>2. CASE k = entry /\ entry \notin DOMAIN loads
    <3>1. loads'[k].root = loads'[l].root
      BY <1>2, <1>5, <2>2
    <3>2. Ran(r)' \/ \E m \in DOMAIN loads : SameTree(l, m)' /\ Justifies(m, r)'
      BY <1>7, <1>15, <3>1
    <3>3. \A m : SameTree(l, m)' => SameTree(k, m)'
      BY <3>1 DEF SameTree
    <3> QED BY <1>2, <3>2, <3>3
  <2> QED BY <1>6, <2>1, <2>2
<1>17. Upcoming'
  <2>1. ASSUME NEW k \in DOMAIN loads', k = l \/ k \notin DOMAIN loads
        PROVE  /\ loads'[k].dep <= Len(DependsOn[loads'[k].plugin])
               /\ loads'[k].on # 0 =>
                     /\ loads'[k].pc = "dependencies"
                     /\ loads'[k].dep < Len(DependsOn[loads'[k].plugin])
                     /\ loads'[loads'[k].on].plugin = DependsOn[loads'[k].plugin][loads'[k].dep + 1]
    <3>1. CASE k = l
      <4>1. loads[l].dep <= Len(DependsOn[loads[l].plugin])
        BY <1>1, <1>3
      <4> QED BY <1>1, <1>2, <1>6, <3>1, <4>1
    <3>2. CASE k = entry /\ entry \notin DOMAIN loads
      <4>1. DependsOn[q] \in Seq(Plugins)
        BY DEF PluginAssumption
      <4>2. Len(DependsOn[q]) \in Nat
        BY <4>1, LenProperties
      <4> QED BY <1>5, <3>2, <4>2
    <3> QED BY <1>6, <2>1, <3>1, <3>2
  <2> QED BY <1>1, <2>1, UpcomingKept DEF Dependencies
<1>18. Gone'
  <2>1. ASSUME Acyclic, NEW k \in DOMAIN loads', k = l \/ k \notin DOMAIN loads,
               NEW i \in 1 .. loads'[k].dep, NEW r \in Plugins, r = DependsOn[loads'[k].plugin][i]
        PROVE  Ran(r)'
    <3>1. CASE k = l
      <4>1. i \in 1 .. loads[l].dep /\ r = DependsOn[loads[l].plugin][i]
        BY <1>1, <1>2, <2>1, <3>1
      <4> QED BY <1>1, <1>9, <2>1, <4>1 DEF Dependencies, Gone
    <3>2. CASE k = entry /\ entry \notin DOMAIN loads
      BY <1>5, <2>1, <3>2
    <3> QED BY <1>6, <2>1, <3>1, <3>2
  <2> QED BY <1>1, <1>9, <2>1, GoneKept DEF Dependencies
<1>19. Entries'
  <2>1. \A p \in Plugins : loadedPlugins'[p] = loadedPlugins[p] \/ (p = q /\ loadedPlugins'[p] = entry)
    BY <1>1, <1>3
  <2> QED BY <1>1, <1>2, <1>6, <2>1, EntriesKept DEF Dependencies
<1> QED BY <1>12, <1>13, <1>14, <1>16, <1>17, <1>18, <1>19 DEF Dependencies

LEMMA BeginningKeeps ==
    ASSUME PluginAssumption, ManagerInv, ManagerInv', Dependencies, BeginsNew
    PROVE  Dependencies'
<1>1. 0 \notin DOMAIN loads /\ Others(0) /\ NoneVisited
  BY LoadFields DEF BeginsNew
<1>2. \A k \in DOMAIN loads :
         /\ k \in DOMAIN loads' /\ loads'[k].plugin = loads[k].plugin /\ loads'[k].root = loads[k].root
         /\ loads'[k].dep = loads[k].dep /\ loads'[k].on = loads[k].on /\ loads'[k].pc = loads[k].pc
         /\ loads'[k].visited = loads[k].visited
  BY <1>1 DEF Others, NoneVisited
<1>3. \A k \in DOMAIN loads : k \in Nat \ {0} /\ loads[k].root \in DOMAIN loads
                              /\ (loads[k].on # 0 => loads[k].on \in DOMAIN loads)
  BY LoadFields
<1>4. ASSUME NEW k \in DOMAIN loads', k \notin DOMAIN loads
      PROVE  /\ loads'[k].root = k /\ loads'[k].dep = 0 /\ loads'[k].on = 0
             /\ loads'[k].visited = {loads'[k].plugin} /\ Active(k)'
  BY <1>4 DEF BeginsNew, NewLoad, Active, InProgress
<1>5. /\ \A k \in DOMAIN loads : Active(k)' <=> Active(k)
      /\ \A k, m \in DOMAIN loads : SameTree(k, m)' <=> SameTree(k, m)
  <2>1. \A k \in DOMAIN loads : Active(k)' <=> Active(k)
    BY <1>2 DEF Active
  <2> QED BY <1>2, <2>1 DEF SameTree
<1>6. ASSUME NEW k \in DOMAIN loads', NEW m \in DOMAIN loads', SameTree(k, m)', k # m
      PROVE  k \in DOMAIN loads /\ m \in DOMAIN loads /\ SameTree(k, m)
  <2>1. CASE k \in DOMAIN loads /\ m \in DOMAIN loads
    BY <1>5, <1>6, <2>1
  <2>2. CASE k \notin DOMAIN loads /\ m \in DOMAIN loads
    BY <1>2, <1>3, <1>4, <1>6, <2>2 DEF SameTree
  <2>3. CASE k \in DOMAIN loads /\ m \notin DOMAIN loads
    BY <1>2, <1>3, <1>4, <1>6, <2>3 DEF SameTree
  <2>4. CASE k \notin DOMAIN loads /\ m \notin DOMAIN loads
    BY <1>4, <1>6, <2>4 DEF SameTree
  <2> QED BY <2>1, <2>2, <2>3, <2>4
<1>7. \A r : Ran(r) => Ran(r)'
  BY <1>2, RanStays
<1>8. Chain'
  <2> SUFFICES ASSUME NEW k \in DOMAIN loads', NEW m \in DOMAIN loads', SameTree(k, m)', k < m,
                      NEW n, n = loads'[k].on
               PROVE  k < n /\ n <= m /\ SameTree(k, n)'
    BY DEF Chain
  <2>1. \A i \in DOMAIN loads' : i \in Nat
    BY LenProperties DEF ManagerInv, ManagerTypeOK
  <2>2. k \in DOMAIN loads /\ m \in DOMAIN loads /\ SameTree(k, m) /\ n = loads[k].on
    BY <1>2, <1>6, <2>1
  <2>3. k < n /\ n <= m /\ SameTree(k, n)
    BY <2>2 DEF Dependencies, Chain
  <2>4. n \in DOMAIN loads
    BY <2>3 DEF SameTree, Active
  <2> QED BY <1>5, <2>2, <2>3, <2>4
<1>9. Awaited'
  <2> SUFFICES ASSUME NEW m \in DOMAIN loads', Active(m)', loads'[m].root # m
               PROVE  \E k \in DOMAIN loads' : SameTree(k, m)' /\ loads'[k].on = m
    BY DEF Awaited
  <2>1. m \in DOMAIN loads /\ Active(m) /\ loads[m].root # m
    BY <1>2, <1>4, <1>5
  <2>2. PICK k \in DOMAIN loads : SameTree(k, m) /\ loads[k].on = m
    BY <2>1 DEF Dependencies, Awaited
  <2> QED BY <1>2, <1>5, <2>1, <2>2
<1>10. Ranked'
  <2> SUFFICES ASSUME NEW rank \in Ranks, Decreasing(rank), NEW k \in DOMAIN loads', NEW m \in DOMAIN loads',
                      SameTree(k, m)', k < m
               PROVE  rank[loads'[m].plugin] < rank[loads'[k].plugin]
    BY DEF Ranked, Ranks, Decreasing
  <2>1. \A i \in DOMAIN loads' : i \in Nat
    BY LenProperties DEF ManagerInv, ManagerTypeOK
  <2>2. k \in DOMAIN loads /\ m \in DOMAIN loads /\ SameTree(k, m)
    BY <1>6, <2>1
  <2> QED BY <1>2, <2>2 DEF Dependencies, Ranked
<1>11. Accounted'
  <2> SUFFICES ASSUME NEW k \in DOMAIN loads', Active(k)', NEW r \in loads'[loads'[k].root].visited
               PROVE  Ran(r)' \/ \E m \in DOMAIN loads' : SameTree(k, m)' /\ Justifies(m, r)'
    BY DEF Accounted
  <2>1. CASE k \in DOMAIN loads
    <3>1. Active(k) /\ r \in loads[loads[k].root].visited
      BY <1>2, <1>3, <1>5, <2>1
    <3>2. ASSUME NEW m \in DOMAIN loads, Justifies(m, r) PROVE Justifies(m, r)'
      <4> SUFFICES ASSUME NEW n, n = loads[m].on PROVE Justifies(m, r)'
        OBVIOUS
      <4>1. n # 0 => n \in DOMAIN loads
        BY <1>3
      <4> QED BY <1>2, <3>2, <4>1 DEF Justifies, Failed
    <3>3. Ran(r) \/ \E m \in DOMAIN loads : SameTree(k, m) /\ Justifies(m, r)
      BY <2>1, <3>1 DEF Dependencies, Accounted
    <3> QED BY <1>2, <1>5, <1>7, <2>1, <3>2, <3>3
  <2>2. CASE k \notin DOMAIN loads
    <3>1. r = loads'[k].plugin /\ SameTree(k, k)'
      BY <1>4, <2>2 DEF SameTree
    <3> QED BY <3>1 DEF Justifies
  <2> QED BY <2>1, <2>2
<1>12. Upcoming'
  <2>1. ASSUME NEW k \in DOMAIN loads', k \notin DOMAIN loads
        PROVE  loads'[k].dep <= Len(DependsOn[loads'[k].plugin]) /\ loads'[k].on = 0
    <3>1. loads'[k].plugin \in Plugins
      <4>1. loads' \in Seq(Activations) /\ DOMAIN loads' = 1 .. Len(loads')
        BY LenProperties DEF ManagerInv, ManagerTypeOK
      <4>2. loads'[k] \in Activations
        BY <2>1, <4>1, ElementOfSeq
      <4> QED BY <4>2 DEF Activations
    <3>2. DependsOn[loads'[k].plugin] \in Seq(Plugins)
      BY <3>1 DEF PluginAssumption
    <3>3. Len(DependsOn[loads'[k].plugin]) \in Nat
      BY <3>2, LenProperties
    <3> QED BY <1>4, <2>1, <3>3
  <2> QED BY <1>1, <2>1, UpcomingKept DEF Dependencies
<1>13. Gone'
  <2>1. ASSUME NEW k \in DOMAIN loads', k \notin DOMAIN loads, NEW i \in 1 .. loads'[k].dep PROVE FALSE
    BY <1>4, <2>1
  <2> QED BY <1>1, <1>7, <2>1, GoneKept DEF Dependencies
<1>14. Entries'
  BY <1>2, EntriesKept DEF Dependencies, BeginsNew
<1> QED BY <1>8, <1>9, <1>10, <1>11, <1>12, <1>13, <1>14 DEF Dependencies

LEMMA DependenciesAtFirst ==
    ASSUME loads = <<>>, \A p \in Plugins : loadedPlugins[p] = 0 /\ activatedPlugins[p] = 0
    PROVE  Dependencies
<1>1. DOMAIN loads = {}
  OBVIOUS
<1> QED BY <1>1 DEF Dependencies, Entries, Upcoming, Gone, Chain, Awaited, Ranked, Accounted

\* Only after it has gone past all its dependencies is a plug-in started.
StartsAfterDependencies ==
    \A l \in DOMAIN loads :
        loads[l].pc = "dependencies" /\ l \in DOMAIN loads' /\ loads'[l].pc = "starting" =>
            loads[l].dep = Len(DependsOn[loads[l].plugin])

LEMMA StepsKeepDependencies ==
    ASSUME PluginAssumption, ManagerInv, ManagerInv', Dependencies, Steps
    PROVE  Dependencies' /\ StartsAfterDependencies
<1>1. CASE UNCHANGED <<loads, loadedPlugins, activatedPlugins>>
  <2>1. Entries'
    BY <1>1 DEF Dependencies, Entries
  <2>2. Dependencies'
    BY <1>1, <2>1, UnmovedKeeps
  <2> QED BY <1>1, <2>2 DEF StartsAfterDependencies
<1>2. CASE \E l \in DOMAIN loads : GoesOn(l) \/ GoesPast(l) \/ Ends(l)
  <2>1. PICK l \in DOMAIN loads : GoesOn(l) \/ GoesPast(l) \/ Ends(l)
    BY <1>2
  <2>2. Dependencies'
    BY <2>1, GoingOnKeeps, GoingPastKeeps, EndingKeeps
  <2>3. \A k \in DOMAIN loads : k # l => loads'[k].pc = loads[k].pc
    BY <2>1 DEF GoesOn, GoesPast, Ends, OnlyChanges, Others
  <2>4. loads'[l].pc = "starting" => loads[l].dep = Len(DependsOn[loads[l].plugin])
    BY <2>1 DEF GoesOn, GoesPast, Ends
  <2> QED BY <2>2, <2>3, <2>4 DEF StartsAfterDependencies
<1>3. CASE \E l \in DOMAIN loads, q \in Plugins : \E entry : BeginsToWait(l, q, entry)
  <2>1. PICK l \in DOMAIN loads, q \in Plugins : \E entry : BeginsToWait(l, q, entry)
    BY <1>3
  <2>2. PICK entry : BeginsToWait(l, q, entry)
    BY <2>1
  <2>3. Dependencies'
    BY <2>2, BeginningToWaitKeeps
  <2>4. \A k \in DOMAIN loads : loads'[k].pc = loads[k].pc
    BY <2>2 DEF BeginsToWait, Others
  <2> QED BY <2>3, <2>4 DEF StartsAfterDependencies
<1>4. CASE BeginsNew
  <2>1. \A k \in DOMAIN loads : k # 0 => loads'[k].pc = loads[k].pc
    BY <1>4 DEF BeginsNew, Others
  <2>2. 0 \notin DOMAIN loads
    BY LoadFields
  <2> QED BY <1>4, <2>1, <2>2, BeginningKeeps DEF StartsAfterDependencies
<1>5. CASE \E p \in Plugins : Stops(p)
  <2>1. \A k \in DOMAIN loads : loads'[k].pc \in {"stopped", loads[k].pc}
    BY <1>5 DEF Stops
  <2> QED BY <1>5, <2>1, StoppingKeeps DEF StartsAfterDependencies
<1> QED BY <1>1, <1>2, <1>3, <1>4, <1>5 DEF Steps

LEMMA DependenciesKept ==
    ASSUME PluginAssumption, ManagerInv, ManagerInv', Dependencies, [Next]_vars
    PROVE  Dependencies' /\ StartsAfterDependencies
<1>1. CASE Host
  BY <1>1, ManagerSteps, StepsKeepDependencies DEF Host
<1>2. CASE UNCHANGED <<loads, loadedPlugins, activatedPlugins>>
  BY <1>2, StepsKeepDependencies DEF Steps
<1>3. CASE Disconnect \/ HostCrashes
  <2>1. loads' = <<>> /\ \A p \in Plugins : loadedPlugins'[p] = 0 /\ activatedPlugins'[p] = 0
    BY <1>3 DEF Disconnect, HostCrashes, Replaced, Ended
  <2>2. DOMAIN loads' = {}
    BY <2>1
  <2>3. Dependencies'
    BY <2>2, <2>1 DEF Dependencies, Entries, Upcoming, Gone, Chain, Awaited, Ranked, Accounted
  <2> QED BY <2>2, <2>3 DEF StartsAfterDependencies
<1>4. CASE FrontLoads \/ (\E e \in Events \ {StartupFinished} : RaiseEvent(e)) \/ Deploy \/ Connect
           \/ LoadFails \/ UNCHANGED vars
  <2>1. UNCHANGED <<loads, loadedPlugins, activatedPlugins>>
    BY <1>4 DEF FrontLoads, RaiseEvent, Deploy, Connect, LoadFails, vars, managerVars, hostVars,
                DebounceTimer, LoadBegins, IdsReceived, PluginsReceived, LayoutReady, WidgetsReady,
                PathsReceived, InfoReceived, InitReplied, StartReplied, StartFailed, FinishedReplied,
                Notice
  <2> QED BY <1>2, <2>1
<1> QED BY <1>1, <1>3, <1>4 DEF Next

\* What has gone past all its dependencies has them started.
LEMMA AllDependenciesRan ==
    ASSUME PluginAssumption, ManagerInv, Dependencies, StartsAfterDependencies,
           NEW l \in 1 .. Len(loads), loads[l].pc = "dependencies", Len(loads') >= l,
           loads'[l].pc = "starting", Acyclic, ManagerInv'
    PROVE  \A q \in ToSet(DependsOn[loads[l].plugin]) : HasStarted(q)
<1>1. DOMAIN loads = 1 .. Len(loads) /\ Len(loads) \in Nat
  BY Lengths DEF ManagerInv
<1>2. DOMAIN loads' = 1 .. Len(loads') /\ Len(loads') \in Nat
  BY LenProperties DEF ManagerInv, ManagerTypeOK
<1>3. l \in DOMAIN loads /\ l \in DOMAIN loads'
  BY <1>1, <1>2
<1>4. loads[l].dep = Len(DependsOn[loads[l].plugin]) /\ Active(l)
  BY <1>3 DEF StartsAfterDependencies, Active, InProgress
<1>5. DependsOn[loads[l].plugin] \in Seq(Plugins)
  BY <1>3, LoadFields DEF PluginAssumption
<1> SUFFICES ASSUME NEW s, s = DependsOn[loads[l].plugin], NEW i \in DOMAIN s PROVE Ran(s[i])
  BY RanIsHasStarted DEF ToSet
<1>6. s \in Seq(Plugins) /\ Len(s) \in Nat /\ DOMAIN s = 1 .. Len(s)
  BY <1>5, LenProperties
<1>7. i \in 1 .. loads[l].dep /\ s[i] \in Plugins
  BY <1>4, <1>6, ElementOfSeq
<1> QED BY <1>3, <1>4, <1>7 DEF Dependencies, Gone

\* The inductive invariant of dependencies: activations begun for one another wait in a chain
\* whose plug-ins are ever nearer to those that need nothing, what was visited has been started
\* or is on the chain, and so an activation has gone past nothing but what was started.
THEOREM DependenciesInvariant == Spec => [](PluginInv /\ Dependencies)
<1>1. Init => Dependencies
  BY DependenciesAtFirst DEF Init, Fresh
<1>2. PluginInv /\ PluginInv' /\ Dependencies /\ [Next]_vars => Dependencies'
  BY DependenciesKept, PluginAssumption DEF PluginInv, TypeOK, ManagerInv
<1> QED BY <1>1, <1>2, PluginInvariant, PTL DEF Spec

\* A plug-in is started after everything it depends on, however many events load plug-ins
\* at the same time, share what they need, fail, or are told to stop.
THEOREM DependenciesStartFirst == Spec => DependenciesFirst
<1>1. PluginInv /\ PluginInv' /\ Dependencies /\ [Next]_vars =>
        [\A l \in 1 .. Len(loads) :
            loads[l].pc = "dependencies" /\ Len(loads') >= l /\ loads'[l].pc = "starting" /\ Acyclic =>
                \A q \in ToSet(DependsOn[loads[l].plugin]) : HasStarted(q)]_vars
  BY DependenciesKept, AllDependenciesRan, PluginAssumption DEF PluginInv, TypeOK, ManagerInv
<1> QED BY <1>1, DependenciesInvariant, PTL DEF Spec, DependenciesFirst
=============================================================================

----------------------------- MODULE StorageProofs -----------------------------
(***************************************************************************)
(* Proofs about Storage, for every set of disks, partitions and requests.  *)
(*                                                                         *)
(* The lock of a disk is given back by disk, not by holder, and a helper   *)
(* may outlive the request that started it, so that neither OneFormatter   *)
(* nor NothingWipedInUse is inductive. What makes them so: a request that  *)
(* formats holds the lock of its disk from its first step to its last      *)
(* (HolderHolds), a helper that somebody waits for is the one that this    *)
(* request asked for (HelpersKnown), and what a helper works on is not     *)
(* mounted and, once it is wiped, has no file system that could be mounted *)
(* (Apart).                                                                *)
(*                                                                         *)
(* What storage.json says and what is served rest on Agreeing: whose step  *)
(* it is between a mount and its save, and whom the NAS root may hold.     *)
(***************************************************************************)
EXTENDS Storage, SequenceTheorems, TLAPS

Formats == {"format", "erase"}
Holding == {"formatting", "mkfs", "mounting", "mounted", "starting"}

\* What a request is about at each of its steps, and what the start mounts.
Fits(o) ==
    /\ o.pc \in {"mounting", "mounted", "starting", "backup_mounting", "backup_mounted"}
          => o.dev \in Parts
    /\ o.pc = "looking" =>
          \/ o.call \in {"activate", "erase"} /\ o.dev \in Disks
          \/ o.call \in {"mount", "backup_mount"} /\ o.dev \in Parts
    /\ o.pc \in {"formatting", "mkfs"} =>
          \/ o.call = "format" /\ o.dev \in Parts
          \/ o.call = "erase" /\ o.dev \in Disks
DevKnown ==
    /\ boot = "mount" => found \in Parts
    /\ \A r \in Requests : Fits(op[r])

\* A request that formats has the lock of its disk until it ends.
HolderHolds ==
    \A r \in Requests :
        op[r].call \in Formats /\ op[r].pc \in Holding => busy[DiskNamed(op[r].dev)] = r

\* A helper works on its own disk, and whoever waits for it has asked for it.
HelpersKnown ==
    \A m \in mkfs :
        /\ DiskOf[m.part] = m.disk
        /\ m.by # Nobody => op[m.by].pc = "mkfs" /\ m = Helper(m.by, m.by)

\* A helper has its disk for itself, unless one was started beside one that nobody waits
\* for; what it works on is not mounted, unless a mount got in before the wipe, and has no
\* file system after the wipe.
Spoilt(d) == \E why \in disturbed : why[1] = d
Bare(p) == fs[p] \in {"wiped", "gone"}
Free(m) == \A p \in Parts :
    Covers(m, p) => ~Mounted(p) /\ (Key(m) \notin early => Bare(p))
Alone == \A m, n \in mkfs : m.disk = n.disk /\ ~Spoilt(m.disk) => m = n
AllFree == \A m \in mkfs : ~Spoilt(m.disk) => Free(m)
Apart == Alone /\ AllFree

Known == DevKnown /\ HolderHolds /\ HelpersKnown
IInv == TypeOK /\ Known /\ Apart

USE StorageAssumption

------------------------------------------------------------------------------
\* Types.

LEMMA InitTypeOK == Init => TypeOK
<1> SUFFICES ASSUME Init PROVE TypeOK
  OBVIOUS
<1>1. /\ plugged \subseteq Disks /\ fs \in [Parts -> Filesystems]
      /\ marked \subseteq Parts /\ trusted \subseteq Parts /\ svc \in BOOLEAN
      /\ {state, drive, found} \subseteq Parts \cup {Nobody}
      /\ busy \in [Disks -> Requests \cup {Nobody}]
  BY DEF Init
<1>2. stack \in [Targets -> Seq(Parts)]
  BY DEF Init
<1>3. /\ job \in [Requests -> {"none", "running"} \cup Finished]
      /\ saved \in [Requests -> {"none"} \cup Finished]
  BY DEF Init
<1>4. op \in [Requests -> Ops]
  BY DEF Init, Idle, Ops, Phases
<1>5. mkfs \subseteq Helpers /\ early \subseteq [disk : Disks, part : Parts, whole : BOOLEAN]
  BY DEF Init
<1> QED BY <1>1, <1>2, <1>3, <1>4, <1>5, Zenon DEF TypeOK

\* A request that goes on, and one that begins.
LEMMA PhaseType ==
  /\ \A o \in Ops, pc \in Phases : [o EXCEPT !.pc = pc] \in Ops
  /\ \A o \in Ops, dev \in Parts, pc \in Phases : [o EXCEPT !.dev = dev, !.pc = pc] \in Ops
  /\ \A call \in AllCalls, dev \in Parts \cup Disks \cup {Nobody}, pc \in Phases :
        [call |-> call, dev |-> dev, pc |-> pc] \in Ops
  BY DEF Ops

LEMMA GotoType ==
  ASSUME TypeOK, NEW r \in Requests, NEW pc \in Phases, Goto(r, pc)
  PROVE  op' \in [Requests -> Ops]
<1>1. op' = [op EXCEPT ![r] = [op[r] EXCEPT !.pc = pc]]
  BY DEF Goto
<1> QED BY <1>1, PhaseType DEF TypeOK

\* A helper that nobody waits for any more.
LEMMA OrphanType ==
  ASSUME NEW m \in Helpers
  PROVE  /\ [m EXCEPT !.by = Nobody] \in Helpers
         /\ [m EXCEPT !.by = Nobody].by = Nobody
         /\ [m EXCEPT !.by = Nobody].disk = m.disk /\ [m EXCEPT !.by = Nobody].part = m.part
         /\ [m EXCEPT !.by = Nobody].whole = m.whole
  BY DEF Helpers

LEMMA KeyType ==
  ASSUME NEW m \in Helpers
  PROVE  Key(m) \in [disk : Disks, part : Parts, whole : BOOLEAN]
  BY DEF Key, Helpers

\* The helper of a request that is formatting.
LEMMA HelperType ==
  ASSUME TypeOK, DevKnown, NEW r \in Requests, op[r].pc \in {"formatting", "mkfs"},
         NEW by \in Requests \cup {Nobody}
  PROVE  /\ Helper(r, by) \in Helpers
         /\ DiskAsked(r) \in Disks /\ Made(r) \in Parts /\ DiskOf[Made(r)] = DiskAsked(r)
         /\ Whole(r) => op[r].dev = DiskAsked(r)
         /\ Helper(r, by).disk = DiskAsked(r) /\ Helper(r, by).part = Made(r)
         /\ Helper(r, by).whole = Whole(r) /\ Helper(r, by).by = by
         /\ op[r].call \in Formats
<1>1. CASE op[r].call = "format" /\ op[r].dev \in Parts
  BY <1>1 DEF Helper, Helpers, DiskAsked, Made, Whole, DiskNamed, Formats
<1>2. CASE op[r].call = "erase" /\ op[r].dev \in Disks
  BY <1>2 DEF Helper, Helpers, DiskAsked, Made, Whole, DiskNamed, Formats
<1> QED BY <1>1, <1>2 DEF DevKnown, Fits

\* mount and umount on the host.
LEMMA HostMountType ==
  ASSUME TypeOK, NEW p \in Parts, NEW t \in Targets, NEW rc \in {0, 1}, HostMount(p, t, rc)
  PROVE  stack' \in [Targets -> Seq(Parts)]
<1>1. Append(stack[t], p) \in Seq(Parts)
  BY DEF TypeOK
<1>2. CASE stack' = stack
  BY <1>2 DEF TypeOK
<1>3. CASE stack' = [stack EXCEPT ![t] = Append(@, p)]
  BY <1>1, <1>3 DEF TypeOK
<1> QED BY <1>2, <1>3 DEF HostMount

LEMMA FrontIsSeq ==
  ASSUME NEW s \in Seq(Parts), s # << >>
  PROVE  Front(s) \in Seq(Parts)
<1>1. Len(s) \in Nat \ {0} /\ \A i \in 1..Len(s) : s[i] \in Parts
  BY EmptySeq
<1> QED BY <1>1, SubSeqProperties DEF Front

LEMMA HostUmountType ==
  ASSUME TypeOK, NEW t \in Targets, NEW rc \in {0, 1}, HostUmount(t, rc)
  PROVE  stack' \in [Targets -> Seq(Parts)]
<1>1. stack[t] # << >> => Front(stack[t]) \in Seq(Parts)
  BY FrontIsSeq DEF TypeOK
<1>2. CASE stack' = stack
  BY <1>2 DEF TypeOK
<1>3. CASE stack' = [stack EXCEPT ![t] = Front(@)] /\ stack[t] # << >>
  BY <1>1, <1>3 DEF TypeOK
<1> QED BY <1>2, <1>3 DEF HostUmount

\* What is mounted last is a partition.
LEMMA TopType ==
  ASSUME TypeOK, NEW t \in Targets
  PROVE  Top(t) \in Parts \cup {Nobody}
<1>1. ASSUME stack[t] # << >> PROVE Last(stack[t]) \in Parts
  <2>1. stack[t] \in Seq(Parts) /\ Len(stack[t]) \in 1..Len(stack[t])
    BY <1>1, EmptySeq DEF TypeOK
  <2> QED BY <2>1, ElementOfSeq DEF Last
<1> QED BY <1>1 DEF Top

\* The end of a job.
LEMMA ConcludeType ==
  ASSUME TypeOK, NEW r \in Requests, NEW status \in Finished, Conclude(r, status)
  PROVE  /\ job' \in [Requests -> {"none", "running"} \cup Finished]
         /\ saved' \in [Requests -> {"none"} \cup Finished]
         /\ busy' \in [Disks -> Requests \cup {Nobody}]
         /\ op' = [op EXCEPT ![r].pc = "done"]
         /\ op' \in [Requests -> Ops]
<1>1. busy' \in [Disks -> Requests \cup {Nobody}]
  BY DEF Conclude, Release, TypeOK
<1>2. job' \in [Requests -> {"none", "running"} \cup Finished]
  BY DEF Conclude, EndJob, TypeOK
<1>3. saved' \in [Requests -> {"none"} \cup Finished]
  BY DEF Conclude, EndJob, TypeOK, Finished
<1>4. op' = [op EXCEPT ![r].pc = "done"]
  BY DEF Conclude, Goto
<1>5. op' \in [Requests -> Ops]
  BY GotoType DEF Conclude, Phases
<1> QED BY <1>1, <1>2, <1>3, <1>4, <1>5, Zenon

\* A new job.
LEMMA CreateType ==
  ASSUME TypeOK, NEW r \in Requests, CreateJob(r)
  PROVE  job' \in [Requests -> {"none", "running"} \cup Finished]
  BY DEF CreateJob, TypeOK

LEMMA BeginType ==
  ASSUME TypeOK, NEW r \in Requests, NEW call \in AllCalls, NEW dev \in Parts \cup Disks,
         NEW pc \in Phases, Begin(r, call, dev, pc)
  PROVE  op' \in [Requests -> Ops]
  BY PhaseType DEF Begin, TypeOK

\* The calls of an admin.
LEMMA CallType ==
  ASSUME TypeOK, NEW r \in Requests, Call(r)
  PROVE  TypeOK'
<1> USE DEF media, kept
<1>1. ASSUME NEW p \in Parts, Format(r, p) PROVE TypeOK'
  <2>1. op' \in [Requests -> Ops]
    BY <1>1, BeginType DEF Format, AllCalls, Phases
  <2>2. busy' \in [Disks -> Requests \cup {Nobody}]
    BY <1>1 DEF Format, Claim, TypeOK
  <2> QED BY <1>1, <2>1, <2>2, CreateType DEF Format, TypeOK
<1>2. ASSUME NEW p \in Parts, Mount(r, p) \/ BackupMount(r, p) PROVE TypeOK'
  <2>1. op' \in [Requests -> Ops]
    BY <1>2, BeginType DEF Mount, BackupMount, AllCalls, Phases
  <2> QED BY <1>2, <2>1 DEF Mount, BackupMount, TypeOK
<1>3. ASSUME NEW d \in Disks, Activate(r, d) PROVE TypeOK'
  <2>1. op' \in [Requests -> Ops]
    BY <1>3, BeginType DEF Activate, AllCalls, Phases
  <2> QED BY <1>3, <2>1 DEF Activate, TypeOK
<1>4. ASSUME NEW x \in Parts \cup Disks, Eject(r, x) PROVE TypeOK'
  <2>1. op' \in [Requests -> Ops]
    BY <1>4, BeginType DEF Eject, StopServices, AllCalls, Phases
  <2>2. plugged' \subseteq Disks /\ svc' \in BOOLEAN
    BY <1>4 DEF Eject, StopServices, PowerOff, TypeOK
  <2> QED BY <1>4, <2>1, <2>2 DEF Eject, TypeOK
<1>5. ASSUME Recover(r) PROVE TypeOK'
  <2>1. PICK p \in Candidates : Begin(r, "recover", p, "mounting")
    BY <1>5 DEF Recover
  <2>2. p \in Parts
    BY <2>1 DEF Candidates
  <2>3. op' \in [Requests -> Ops]
    BY <2>1, <2>2, BeginType DEF AllCalls, Phases
  <2> QED BY <1>5, <2>3 DEF Recover, TypeOK
<1>6. ASSUME Unmount(r) PROVE TypeOK'
  <2>1. state \in Parts
    BY <1>6 DEF Unmount, StopServices, TypeOK
  <2>2. op' \in [Requests -> Ops]
    BY <1>6, <2>1, BeginType DEF Unmount, StopServices, AllCalls, Phases
  <2> QED BY <1>6, <2>2 DEF Unmount, StopServices, TypeOK
<1>7. ASSUME BackupUnmount(r) PROVE TypeOK'
  <2>1. drive \in Parts
    BY <1>7 DEF BackupUnmount, TypeOK
  <2>2. op' \in [Requests -> Ops]
    BY <1>7, <2>1, BeginType DEF BackupUnmount, AllCalls, Phases
  <2> QED BY <1>7, <2>2 DEF BackupUnmount, TypeOK
<1> QED BY <1>1, <1>2, <1>3, <1>4, <1>5, <1>6, <1>7 DEF Call

\* What a helper that starts, ends or stalls changes.
LEMMA StartHelperType ==
  ASSUME TypeOK, DevKnown, NEW r \in Requests, StartHelper(r)
  PROVE  TypeOK'
<1> USE DEF media, kept
<1>1. Helper(r, r) \in Helpers
  BY HelperType DEF StartHelper, At
<1>2. CASE Goto(r, "mkfs") /\ mkfs' \subseteq mkfs \cup {Helper(r, r)}
           /\ early' \subseteq early \cup {Key(Helper(r, r))}
           /\ UNCHANGED <<busy, job, saved>>
  <2>1. op' \in [Requests -> Ops]
    BY <1>2, GotoType DEF Phases
  <2>2. mkfs' \subseteq Helpers
    BY <1>1, <1>2 DEF TypeOK
  <2>3. early' \subseteq [disk : Disks, part : Parts, whole : BOOLEAN]
    BY <1>1, <1>2, KeyType DEF TypeOK
  <2> QED BY <1>2, <2>1, <2>2, <2>3 DEF StartHelper, TypeOK
<1>3. CASE Conclude(r, "failed") /\ UNCHANGED <<mkfs, early>>
  BY <1>3, ConcludeType DEF StartHelper, TypeOK, Finished
<1> QED BY <1>2, <1>3 DEF StartHelper

LEMMA HelperWipesType ==
  ASSUME TypeOK, NEW m \in mkfs, HelperWipes(m)
  PROVE  TypeOK'
<1> USE DEF media, kept, proc
<1>1. fs' \in [Parts -> Filesystems]
  BY DEF HelperWipes, TypeOK, Filesystems
<1>2. marked' \subseteq Parts /\ trusted' \subseteq Parts
  BY DEF HelperWipes, TypeOK
<1> QED BY <1>1, <1>2 DEF HelperWipes, TypeOK

\* The ways a helper ends.
EndsSomehow(m) ==
    /\ mkfs' = mkfs \ {m} /\ early' = early \ {Key(m)}
    /\ disturbed \subseteq disturbed'
    /\ UNCHANGED <<plugged, marked, stack, svc, state, drive, boot, found, seen, crashes, trusted>>
    /\ fs' = [fs EXCEPT ![m.part] = "ext4"] \/ fs' = fs
    /\ \/ m.by = Nobody /\ UNCHANGED <<op, job, busy, saved>>
       \/ /\ m.by # Nobody /\ m.whole
          /\ op' = [op EXCEPT ![m.by].dev = m.part, ![m.by].pc = "mounting"]
          /\ UNCHANGED <<job, busy, saved>>
       \/ m.by # Nobody /\ \E status \in Finished : Conclude(m.by, status)

LEMMA HelperEndsHow ==
  ASSUME NEW m \in mkfs, HelperEnds(m)
  PROVE  EndsSomehow(m)
<1> USE DEF EndsSomehow
<1>1. /\ mkfs' = mkfs \ {m} /\ early' = early \ {Key(m)}
      /\ disturbed \subseteq disturbed'
      /\ UNCHANGED <<plugged, marked, stack, svc, state, drive, boot, found, seen, crashes, trusted>>
  BY DEF HelperEnds
<1>2. {"completed", "failed"} = Finished
  BY DEF Finished
<1>3. CASE /\ fs' = [fs EXCEPT ![m.part] = "ext4"]
           /\ IF m.by = Nobody THEN UNCHANGED <<op, job, busy, saved>>
              ELSE IF m.whole
                   THEN /\ op' = [op EXCEPT ![m.by].dev = m.part, ![m.by].pc = "mounting"]
                        /\ UNCHANGED <<job, busy, saved>>
                   ELSE Conclude(m.by, "completed")
  BY <1>1, <1>2, <1>3
<1>4. CASE /\ fs' = fs
           /\ IF m.by = Nobody THEN UNCHANGED <<op, job, busy, saved>> ELSE Conclude(m.by, "failed")
  BY <1>1, <1>2, <1>4
<1> QED BY <1>3, <1>4 DEF HelperEnds

LEMMA HelperEndsType ==
  ASSUME TypeOK, DevKnown, HelpersKnown, NEW m \in mkfs, HelperEnds(m)
  PROVE  TypeOK'
<1> USE DEF media, kept
<1>0. EndsSomehow(m)
  BY HelperEndsHow
<1>1. /\ mkfs' \subseteq Helpers
      /\ m.part \in Parts /\ m.by \in Requests \cup {Nobody}
  BY <1>0 DEF EndsSomehow, TypeOK, Helpers
<1>2. fs' \in [Parts -> Filesystems]
  BY <1>0, <1>1 DEF EndsSomehow, TypeOK, Filesystems
<1>3. /\ op' \in [Requests -> Ops]
      /\ job' \in [Requests -> {"none", "running"} \cup Finished]
      /\ saved' \in [Requests -> {"none"} \cup Finished]
      /\ busy' \in [Disks -> Requests \cup {Nobody}]
  <2> USE <1>1
  <2>1. CASE m.by = Nobody /\ UNCHANGED <<op, job, busy, saved>>
    BY <2>1 DEF TypeOK
  <2>2. CASE m.by # Nobody /\ \E status \in Finished : Conclude(m.by, status)
    BY <2>2, ConcludeType
  <2>3. CASE /\ m.by # Nobody /\ m.whole
             /\ op' = [op EXCEPT ![m.by].dev = m.part, ![m.by].pc = "mounting"]
             /\ UNCHANGED <<job, busy, saved>>
    <3>1. op[m.by] \in Ops /\ "mounting" \in Phases
      BY <2>3 DEF TypeOK, Phases
    <3>2. op' = [op EXCEPT ![m.by] = [op[m.by] EXCEPT !.dev = m.part, !.pc = "mounting"]]
      BY <2>3 DEF TypeOK
    <3>3. [op[m.by] EXCEPT !.dev = m.part, !.pc = "mounting"] \in Ops
      BY <3>1, PhaseType
    <3> QED BY <2>3, <3>2, <3>3 DEF TypeOK
  <2> QED BY <1>0, <2>1, <2>2, <2>3, Zenon DEF EndsSomehow
<1> QED BY <1>0, <1>1, <1>2, <1>3 DEF EndsSomehow, TypeOK

LEMMA HelperStallsType ==
  ASSUME TypeOK, NEW r \in Requests, HelperStalls(r)
  PROVE  TypeOK'
<1> USE DEF media, kept
<1>1. \A m \in mkfs : [m EXCEPT !.by = Nobody] \in Helpers
  BY OrphanType DEF TypeOK
<1>2. mkfs' \subseteq Helpers
  BY <1>1 DEF HelperStalls, TypeOK
<1> QED BY <1>2, ConcludeType DEF HelperStalls, TypeOK, Finished

\* The other steps of a request.
LEMMA LooksType ==
  ASSUME TypeOK, NEW r \in Requests, EraseLook(r) \/ ActivateLook(r) \/ MountLook(r)
  PROVE  TypeOK'
<1> USE DEF media, kept
<1>1. CASE EraseLook(r)
  <2>1. op' \in [Requests -> Ops]
    BY <1>1, GotoType DEF EraseLook, Phases
  <2>2. job' \in [Requests -> {"none", "running"} \cup Finished]
    BY <1>1, CreateType DEF EraseLook, TypeOK
  <2>3. busy' \in [Disks -> Requests \cup {Nobody}]
    BY <1>1 DEF EraseLook, Claim, TypeOK
  <2> QED BY <1>1, <2>1, <2>2, <2>3 DEF EraseLook, TypeOK
<1>2. CASE ActivateLook(r)
  <2>1. op' \in [Requests -> Ops]
    <3>1. ASSUME NEW s, NEW p \in Best(s, op[r].dev), NEW pc \in Phases,
                 op' = [op EXCEPT ![r].dev = p, ![r].pc = pc]
          PROVE  op' \in [Requests -> Ops]
      <4>1. p \in Parts
        BY DEF Best, OnDisk
      <4>2. op' = [op EXCEPT ![r] = [op[r] EXCEPT !.dev = p, !.pc = pc]]
        BY <3>1 DEF TypeOK
      <4>3. [op[r] EXCEPT !.dev = p, !.pc = pc] \in Ops
        BY <4>1, PhaseType DEF TypeOK
      <4> QED BY <4>2, <4>3 DEF TypeOK
    <3>2. CASE Goto(r, "done")
      BY <3>2, GotoType DEF Phases
    <3>3. \/ Goto(r, "done")
          \/ \E s \in {Truth, seen} \ {Nobody} : \E p \in Best(s, op[r].dev) : \E pc \in {"mounted", "mounting"} :
                op' = [op EXCEPT ![r].dev = p, ![r].pc = pc]
      BY <1>2 DEF ActivateLook
    <3>4. {"mounted", "mounting"} \subseteq Phases
      BY DEF Phases
    <3> QED BY <3>1, <3>2, <3>3, <3>4
  <2> QED BY <1>2, <2>1 DEF ActivateLook, TypeOK
<1>3. CASE MountLook(r)
  <2>1. op' \in [Requests -> Ops]
    BY <1>3, GotoType DEF MountLook, Phases
  <2> QED BY <1>3, <2>1 DEF MountLook, TypeOK
<1> QED BY <1>1, <1>2, <1>3

LEMMA MountsType ==
  ASSUME TypeOK, DevKnown, NEW r \in Requests,
         MountNas(r) \/ Settle(r) \/ StartServices(r) \/ UmountNas(r) \/ ClearState(r)
  PROVE  TypeOK'
<1> USE DEF media, kept
<1>1. CASE MountNas(r)
  <2>1. op[r].dev \in Parts
    BY <1>1 DEF MountNas, At, DevKnown, Fits
  <2>2. PICK rc \in {0, 1} :
          /\ HostMount(op[r].dev, "nas", rc)
          /\ IF rc = 0 THEN Goto(r, "mounted") /\ UNCHANGED <<busy, job, saved>>
             ELSE Conclude(r, "failed")
    BY <1>1 DEF MountNas
  <2>3. stack' \in [Targets -> Seq(Parts)]
    BY <2>1, <2>2, HostMountType DEF Targets
  <2>4. /\ op' \in [Requests -> Ops]
        /\ job' \in [Requests -> {"none", "running"} \cup Finished]
        /\ saved' \in [Requests -> {"none"} \cup Finished]
        /\ busy' \in [Disks -> Requests \cup {Nobody}]
    <3>1. CASE rc = 0
      BY <2>2, <3>1, GotoType DEF Phases, TypeOK
    <3>2. CASE rc = 1
      BY <2>2, <3>2, ConcludeType DEF Finished
    <3> QED BY <3>1, <3>2
  <2> QED BY <1>1, <2>1, <2>3, <2>4 DEF MountNas, TypeOK
<1>2. CASE Settle(r)
  <2>1. op[r].dev \in Parts
    BY <1>2 DEF Settle, At, DevKnown, Fits
  <2>2. Marks(r) \subseteq Parts
    BY TopType DEF Targets, Marks
  <2>3. CASE Goto(r, "starting") /\ UNCHANGED <<saved, busy, job>>
    BY <1>2, <2>1, <2>2, <2>3, GotoType DEF Settle, TypeOK, Phases
  <2>4. CASE Conclude(r, "failed")
    BY <1>2, <2>1, <2>2, <2>4, ConcludeType DEF Settle, TypeOK, Finished
  <2> QED BY <1>2, <2>3, <2>4 DEF Settle
<1>3. CASE StartServices(r)
  BY <1>3, ConcludeType DEF StartServices, TypeOK, Finished
<1>4. CASE UmountNas(r)
  <2>1. op' \in [Requests -> Ops]
    BY <1>4, GotoType DEF UmountNas, Phases
  <2>2. stack' \in [Targets -> Seq(Parts)]
    BY <1>4, HostUmountType DEF UmountNas, Targets
  <2> QED BY <1>4, <2>1, <2>2 DEF UmountNas, TypeOK
<1>5. CASE ClearState(r)
  <2>1. op' \in [Requests -> Ops]
    BY <1>5, GotoType DEF ClearState, Phases
  <2>2. plugged' \subseteq Disks
    BY <1>5 DEF ClearState, PowerOff, TypeOK
  <2> QED BY <1>5, <2>1, <2>2 DEF ClearState, TypeOK
<1> QED BY <1>1, <1>2, <1>3, <1>4, <1>5

LEMMA BackupsType ==
  ASSUME TypeOK, DevKnown, NEW r \in Requests, BackupHost(r) \/ BackupSave(r)
  PROVE  TypeOK'
<1> USE DEF media, kept
<1>1. CASE BackupHost(r)
  <2>1. op' \in [Requests -> Ops]
    BY <1>1, GotoType DEF BackupHost, Phases
  <2>2. stack' \in [Targets -> Seq(Parts)]
    BY <1>1, HostMountType, HostUmountType DEF BackupHost, At, DevKnown, Fits, Targets
  <2> QED BY <1>1, <2>1, <2>2 DEF BackupHost, TypeOK
<1>2. CASE BackupSave(r)
  <2>1. op' \in [Requests -> Ops]
    BY <1>2, GotoType DEF BackupSave, Phases
  <2>2. drive' \in Parts \cup {Nobody}
    <3>1. drive \in Parts \cup {Nobody} /\ (At(r, "backup_mounted") => op[r].dev \in Parts)
      BY DEF TypeOK, At, DevKnown, Fits
    <3> QED BY <1>2, <3>1 DEF BackupSave
  <2> QED BY <1>2, <2>1, <2>2 DEF BackupSave, TypeOK
<1> QED BY <1>1, <1>2

\* The start, the end, and what the host does by itself.
LEMMA BootType ==
  ASSUME TypeOK, DevKnown, Boot
  PROVE  TypeOK'
<1> USE DEF media, kept, Busyless
<1>1. CASE BootBegin
  <2>1. stack["nas"] # << >> => Head(stack["nas"]) \in Parts
    BY DEF TypeOK, Targets
  <2>2. state' \in Parts \cup {Nobody} /\ found' \in Parts \cup {Nobody}
    BY <1>1, <2>1 DEF BootBegin, TypeOK
  <2> QED BY <1>1, <2>2 DEF BootBegin, TypeOK
<1>2. CASE BootMount
  <2>1. found \in Parts
    BY <1>2 DEF BootMount, DevKnown
  <2>2. stack' \in [Targets -> Seq(Parts)]
    <3>1. CASE BootUnsaved
      <4>1. Append(stack["nas"], found) \in Seq(Parts)
        BY <2>1 DEF TypeOK, Targets
      <4> QED BY <3>1, <4>1 DEF BootUnsaved, TypeOK
    <3> QED BY <1>2, <2>1, <3>1, HostMountType DEF BootMount, Targets
  <2>3. state' \in Parts \cup {Nobody} /\ marked' \subseteq Parts
    BY <1>2, <2>1 DEF BootMount, BootUnsaved, TypeOK
  <2>4. svc' \in BOOLEAN
    <3>1. svc \in BOOLEAN
      BY DEF TypeOK
    <3>2. svc' = svc \/ svc' = (svc \/ state = found)
      BY <1>2, Zenon DEF BootMount, BootUnsaved
    <3> QED BY <3>1, <3>2
  <2> QED BY <1>2, <2>2, <2>3, <2>4 DEF BootMount, TypeOK
<1>3. CASE BootScan
  BY <1>3 DEF BootScan, Candidates, TypeOK
<1>4. CASE BootCheck
  BY <1>4 DEF BootCheck, BootStep, HasMarker, TypeOK
<1>5. CASE BootReject
  <2>1. stack' \in [Targets -> Seq(Parts)]
    BY <1>5, HostUmountType DEF BootReject, Targets
  <2> QED BY <1>5, <2>1 DEF BootReject, TypeOK
<1>6. CASE BootBackup
  <2>1. drive # Nobody => drive \in Parts
    BY DEF TypeOK
  <2>2. stack' \in [Targets -> Seq(Parts)] /\ drive' \in Parts \cup {Nobody}
    BY <1>6, <2>1, HostMountType DEF BootBackup, Targets, TypeOK
  <2> QED BY <1>6, <2>2 DEF BootBackup, TypeOK
<1> QED BY <1>1, <1>2, <1>3, <1>4, <1>5, <1>6 DEF Boot

LEMMA HostType ==
  ASSUME TypeOK, Crash \/ Power \/ ListDevices \/ \E d \in Disks : Plug(d)
  PROVE  TypeOK'
<1> USE DEF media, kept, proc
<1>1. ASSUME NEW kind, Dies(kind)
      PROVE  /\ op' \in [Requests -> Ops]
             /\ job' \in [Requests -> {"none", "running"} \cup Finished]
             /\ busy' \in [Disks -> Requests \cup {Nobody}]
             /\ found' = Nobody /\ UNCHANGED <<fs, marked, state, drive, saved, trusted>>
  <2>1. \A r \in Requests : op'[r] \in Ops
    BY <1>1, PhaseType DEF Dies, TypeOK, Phases
  <2> QED BY <1>1, <2>1 DEF Dies, TypeOK
<1>2. CASE Crash
  <2>1. mkfs' \subseteq Helpers
    BY <1>2, OrphanType DEF Crash, TypeOK
  <2> QED BY <1>1, <1>2, <2>1 DEF Crash, TypeOK
<1>3. CASE Power
  <2>1. stack' \in [Targets -> Seq(Parts)]
    BY <1>3 DEF Power
  <2>2. plugged' \subseteq Disks /\ mkfs' = {} /\ early' = {} /\ svc' = FALSE
    BY <1>3 DEF Power, TypeOK
  <2> QED BY <1>1, <1>3, <2>1, <2>2 DEF Power, TypeOK
<1>4. CASE ListDevices
  BY <1>4 DEF ListDevices, TypeOK
<1>5. ASSUME NEW d \in Disks, Plug(d) PROVE TypeOK'
  BY <1>5 DEF Plug, TypeOK
<1> QED BY <1>2, <1>3, <1>4, <1>5

------------------------------------------------------------------------------
\* The locks and the helpers. The other requests are as they were, and keep their locks.

LEMMA OneGoesOn ==
  ASSUME TypeOK, Known, NEW r \in Requests, NEW o \in Ops, op' = [op EXCEPT ![r] = o],
         Fits(o), boot' = boot, found' = found,
         o.call \in Formats /\ o.pc \in Holding => busy'[DiskNamed(o.dev)] = r,
         \A q \in Requests \ {r}, d \in Disks : busy[d] = q => busy'[d] = q,
         \A m \in mkfs' : \/ m \in mkfs /\ m.by # r
                          \/ m.by = Nobody /\ DiskOf[m.part] = m.disk
                          \/ /\ m.by = r /\ o.pc = "mkfs"
                             /\ DiskOf[m.part] = m.disk /\ m = Helper(r, r)'
  PROVE  Known'
<1>1. op'[r] = o /\ \A q \in Requests \ {r} : op'[q] = op[q]
  BY DEF TypeOK
<1>2. DevKnown'
  BY <1>1 DEF Known, DevKnown, Fits
<1>3. HolderHolds'
  <2> SUFFICES ASSUME NEW q \in Requests, op'[q].call \in Formats, op'[q].pc \in Holding
               PROVE  busy'[DiskNamed(op'[q].dev)] = q
    BY DEF HolderHolds, DiskNamed
  <2>1. CASE q = r
    BY <1>1, <2>1
  <2>2. CASE q # r
    <3>1. busy[DiskNamed(op[q].dev)] = q
      BY <1>1, <2>2 DEF Known, HolderHolds
    <3>2. DiskNamed(op[q].dev) \in Disks
      BY <1>1, <2>2 DEF Known, DevKnown, Fits, DiskNamed, Holding
    <3> QED BY <1>1, <2>2, <3>1, <3>2
  <2> QED BY <2>1, <2>2
<1>4. HelpersKnown'
  <2> SUFFICES ASSUME NEW m \in mkfs'
               PROVE  /\ DiskOf[m.part] = m.disk
                      /\ m.by # Nobody => op'[m.by].pc = "mkfs" /\ m = Helper(m.by, m.by)'
    BY DEF HelpersKnown
  <2>1. CASE m \in mkfs /\ m.by # r /\ m.by # Nobody
    <3>1. m.by \in Requests \ {r}
      BY <2>1 DEF TypeOK, Helpers
    <3>2. op'[m.by] = op[m.by]
      BY <1>1, <3>1
    <3>3. Helper(m.by, m.by)' = Helper(m.by, m.by)
      BY <3>2 DEF Helper, DiskAsked, DiskNamed, Made, Whole
    <3> QED BY <2>1, <3>2, <3>3 DEF Known, HelpersKnown
  <2>2. CASE m \in mkfs /\ m.by = Nobody
    BY <2>2 DEF Known, HelpersKnown
  <2>3. CASE m.by = Nobody /\ DiskOf[m.part] = m.disk
    BY <2>3
  <2>4. CASE m.by = r /\ o.pc = "mkfs" /\ DiskOf[m.part] = m.disk /\ m = Helper(r, r)'
    BY <1>1, <2>4
  <2> QED BY <2>1, <2>2, <2>3, <2>4
<1> QED BY <1>2, <1>3, <1>4 DEF Known

\* A request that goes on without a lock changing hands; nobody's helper is touched.
LEMMA GoesOn ==
  ASSUME TypeOK, Known, NEW r \in Requests, NEW pc \in Phases, Goto(r, pc),
         op[r].pc # "mkfs", Fits([op[r] EXCEPT !.pc = pc]),
         op[r].call \in Formats /\ pc \in Holding => op[r].pc \in Holding,
         UNCHANGED <<busy, mkfs, boot, found>>
  PROVE  Known'
<1> DEFINE o == [op[r] EXCEPT !.pc = pc]
<1>1. o \in Ops /\ op' = [op EXCEPT ![r] = o]
  BY PhaseType DEF TypeOK, Goto
<1>2. o.call = op[r].call /\ o.dev = op[r].dev /\ o.pc = pc
  BY DEF TypeOK, Ops
<1>3. o.call \in Formats /\ o.pc \in Holding => busy'[DiskNamed(o.dev)] = r
  BY <1>2 DEF Known, HolderHolds
<1>4. \A m \in mkfs' : m \in mkfs /\ m.by # r
  BY DEF Known, HelpersKnown
<1> HIDE DEF o
<1> QED BY <1>1, <1>3, <1>4, OneGoesOn DEF o

\* A request that ends with its lock.
LEMMA Concludes ==
  ASSUME TypeOK, Known, NEW r \in Requests, NEW status \in Finished, Conclude(r, status),
         op[r].pc \in Holding, UNCHANGED <<boot, found>>,
         \A m \in mkfs' : \/ m \in mkfs /\ m.by # r
                          \/ m.by = Nobody /\ DiskOf[m.part] = m.disk
  PROVE  Known'
<1> DEFINE o == [op[r] EXCEPT !.pc = "done"]
<1>1. o \in Ops /\ op' = [op EXCEPT ![r] = o]
  BY PhaseType DEF TypeOK, Conclude, Goto, Phases
<1>2. o.pc = "done"
  BY DEF TypeOK, Ops
<1>3. Fits(o) /\ o.pc \notin Holding
  BY <1>2 DEF Fits, Holding
<1>4. \A q \in Requests \ {r}, d \in Disks : busy[d] = q => busy'[d] = q
  BY DEF Conclude, Release, Known, HolderHolds, Formats, TypeOK
<1>5. \A m \in mkfs' : \/ m \in mkfs /\ m.by # r
                       \/ m.by = Nobody /\ DiskOf[m.part] = m.disk
                       \/ /\ m.by = r /\ o.pc = "mkfs"
                          /\ DiskOf[m.part] = m.disk /\ m = Helper(r, r)'
  OBVIOUS
<1>6. o.call \in Formats /\ o.pc \in Holding => busy'[DiskNamed(o.dev)] = r
  BY <1>3
<1>7. boot' = boot /\ found' = found
  OBVIOUS
<1> HIDE DEF o
<1> QED BY <1>1, <1>3, <1>4, <1>5, <1>6, <1>7, OneGoesOn

\* A call that takes no lock.
LEMMA Begins ==
  ASSUME TypeOK, Known, NEW r \in Requests, NEW call \in AllCalls, NEW dev \in Parts \cup Disks,
         NEW pc \in Phases, Begin(r, call, dev, pc), op[r] = Idle,
         call \notin Formats \/ pc \notin Holding,
         Fits([call |-> call, dev |-> dev, pc |-> pc]),
         UNCHANGED <<busy, mkfs, boot, found>>
  PROVE  Known'
<1> DEFINE o == [call |-> call, dev |-> dev, pc |-> pc]
<1>1. o \in Ops /\ op' = [op EXCEPT ![r] = o]
  BY PhaseType DEF Begin
<1>2. ~(o.call \in Formats /\ o.pc \in Holding)
  OBVIOUS
<1>3. \A m \in mkfs' : m \in mkfs /\ m.by # r
  BY DEF Known, HelpersKnown, Idle
<1> HIDE DEF o
<1> QED BY <1>1, <1>2, <1>3, OneGoesOn DEF o

\* No request moves; of the helpers some may be gone.
LEMMA NobodyActs ==
  ASSUME TypeOK, Known, UNCHANGED <<op, busy>>, mkfs' \subseteq mkfs,
         boot' = "mount" => found' \in Parts
  PROVE  Known'
<1>1. DevKnown'
  BY DEF Known, DevKnown, Fits
<1>2. HolderHolds'
  BY DEF Known, HolderHolds, DiskNamed
<1>3. HelpersKnown'
  BY DEF Known, HelpersKnown, Helper, DiskAsked, DiskNamed, Made, Whole
<1> QED BY <1>1, <1>2, <1>3 DEF Known

LEMMA CallKnown ==
  ASSUME TypeOK, Known, NEW r \in Requests, Call(r)
  PROVE  Known'
<1> USE DEF media, kept
<1>1. ASSUME NEW p \in Parts, Format(r, p) PROVE Known'
  <2> DEFINE o == [call |-> "format", dev |-> p, pc |-> "formatting"]
  <2>1. o \in Ops /\ op' = [op EXCEPT ![r] = o] /\ op[r] = Idle
    BY <1>1, PhaseType DEF Format, Begin, Served, AllCalls, Phases
  <2>2. Fits(o)
    <3>1. o.call = "format" /\ o.dev \in Parts /\ o.pc = "formatting"
      OBVIOUS
    <3>2. ASSUME NEW x, x.call = "format" /\ x.dev \in Parts /\ x.pc = "formatting"
          PROVE  Fits(x)
      BY <3>2 DEF Fits
    <3> QED BY <3>1, <3>2
  <2>3. busy' = [busy EXCEPT ![DiskOf[p]] = r] /\ busy[DiskOf[p]] = Nobody /\ DiskOf[p] \in Disks
    BY <1>1 DEF Format, Claim
  <2>4. DiskNamed(o.dev) = DiskOf[p]
    BY DEF DiskNamed
  <2>5. \A q \in Requests \ {r}, d \in Disks : busy[d] = q => busy'[d] = q
    BY <2>3 DEF TypeOK
  <2>6. o.call \in Formats /\ o.pc \in Holding => busy'[DiskNamed(o.dev)] = r
    BY <2>3, <2>4 DEF TypeOK
  <2>7. \A m \in mkfs' : m \in mkfs /\ m.by # r
    BY <1>1, <2>1 DEF Format, Known, HelpersKnown, Idle
  <2>8. boot' = boot /\ found' = found
    BY <1>1 DEF Format
  <2> HIDE DEF o
  <2> QED BY <2>1, <2>2, <2>5, <2>6, <2>7, <2>8, OneGoesOn
<1>2. ASSUME NEW p \in Parts, Mount(r, p) \/ BackupMount(r, p) PROVE Known'
  <2>1. PICK call \in {"mount", "backup_mount"} :
          Begin(r, call, p, "looking") /\ op[r] = Idle /\ UNCHANGED <<busy, mkfs, boot, found>>
    BY <1>2 DEF Mount, BackupMount, Served
  <2>2. Fits([call |-> call, dev |-> p, pc |-> "looking"])
    BY DEF Fits
  <2>3. call \in AllCalls \ Formats /\ "looking" \in Phases
    BY DEF AllCalls, Phases, Formats
  <2> QED BY <2>1, <2>2, <2>3, Begins
<1>3. ASSUME NEW d \in Disks, Activate(r, d) PROVE Known'
  <2>1. PICK call \in {"activate", "erase"} :
          Begin(r, call, d, "looking") /\ op[r] = Idle /\ UNCHANGED <<busy, mkfs, boot, found>>
    BY <1>3 DEF Activate, Served
  <2>2. Fits([call |-> call, dev |-> d, pc |-> "looking"])
    BY DEF Fits
  <2>3. call \in AllCalls /\ "looking" \in Phases \ Holding
    BY DEF AllCalls, Phases, Holding
  <2> QED BY <2>1, <2>2, <2>3, Begins
<1>4. ASSUME NEW x \in Parts \cup Disks, Eject(r, x) PROVE Known'
  BY <1>4, Begins DEF Eject, StopServices, Served, AllCalls, Phases, Fits, Formats
<1>5. ASSUME Recover(r) PROVE Known'
  <2>1. PICK p \in Candidates : Begin(r, "recover", p, "mounting")
    BY <1>5 DEF Recover
  <2>2. p \in Parts
    BY <2>1 DEF Candidates
  <2> QED BY <1>5, <2>1, <2>2, Begins DEF Recover, Served, AllCalls, Phases, Fits, Formats
<1>6. ASSUME Unmount(r) PROVE Known'
  <2>1. state \in Parts
    BY <1>6 DEF Unmount, StopServices, TypeOK
  <2> QED BY <1>6, <2>1, Begins DEF Unmount, StopServices, Served, AllCalls, Phases, Fits, Formats
<1>7. ASSUME BackupUnmount(r) PROVE Known'
  <2>1. drive \in Parts
    BY <1>7 DEF BackupUnmount, TypeOK
  <2> QED BY <1>7, <2>1, Begins DEF BackupUnmount, Served, AllCalls, Phases, Fits, Formats
<1> QED BY <1>1, <1>2, <1>3, <1>4, <1>5, <1>6, <1>7 DEF Call

LEMMA LooksKnown ==
  ASSUME TypeOK, Known, NEW r \in Requests, EraseLook(r) \/ ActivateLook(r) \/ MountLook(r)
  PROVE  Known'
<1> USE DEF media, kept
<1>0. op[r] \in Ops /\ Fits(op[r])
  BY DEF TypeOK, Known, DevKnown
<1>1. CASE EraseLook(r)
  <2>1. op[r].call = "erase" /\ op[r].dev \in Disks /\ op[r].pc = "looking"
    BY <1>0, <1>1 DEF EraseLook, At, Fits
  <2>2. CASE Goto(r, "done") /\ UNCHANGED <<busy, job>>
    <3>1. Fits([op[r] EXCEPT !.pc = "done"])
      BY <1>0 DEF Fits, Ops
    <3> QED BY <1>1, <2>1, <2>2, <3>1, GoesOn DEF EraseLook, Phases, Holding
  <2>3. CASE busy[op[r].dev] = Nobody /\ Claim(r, op[r].dev) /\ Goto(r, "formatting")
    <3> DEFINE o == [op[r] EXCEPT !.pc = "formatting"]
    <3>1. o \in Ops /\ op' = [op EXCEPT ![r] = o]
      BY <1>0, <2>3, PhaseType DEF TypeOK, Goto, Phases
    <3>2. o.call = "erase" /\ o.dev = op[r].dev /\ o.pc = "formatting"
      BY <1>0, <2>1 DEF Ops
    <3>3. Fits(o)
      BY <2>1, <3>2 DEF Fits
    <3>4. DiskNamed(o.dev) = op[r].dev
      BY <2>1, <3>2 DEF DiskNamed
    <3>5. o.call \in Formats /\ o.pc \in Holding => busy'[DiskNamed(o.dev)] = r
      BY <2>1, <2>3, <3>4 DEF Claim, TypeOK
    <3>6. \A q \in Requests \ {r}, d \in Disks : busy[d] = q => busy'[d] = q
      BY <2>3 DEF Claim, TypeOK
    <3>7. \A m \in mkfs' : m \in mkfs /\ m.by # r
      BY <1>1, <2>1 DEF EraseLook, Known, HelpersKnown
    <3>8. boot' = boot /\ found' = found
      BY <1>1 DEF EraseLook
    <3> HIDE DEF o
    <3> QED BY <3>1, <3>3, <3>5, <3>6, <3>7, <3>8, OneGoesOn
  <2> QED BY <1>1, <2>2, <2>3 DEF EraseLook
<1>2. CASE ActivateLook(r)
  <2>1. op[r].call = "activate" /\ op[r].pc = "looking"
    BY <1>2 DEF ActivateLook, At
  <2>2. CASE Goto(r, "done")
    <3>1. Fits([op[r] EXCEPT !.pc = "done"])
      BY <1>0 DEF Fits, Ops
    <3> QED BY <1>2, <2>1, <2>2, <3>1, GoesOn DEF ActivateLook, Phases, Holding
  <2>3. ASSUME NEW s, NEW p \in Best(s, op[r].dev), NEW pc \in {"mounted", "mounting"},
               op' = [op EXCEPT ![r].dev = p, ![r].pc = pc]
        PROVE  Known'
    <3> DEFINE o == [op[r] EXCEPT !.dev = p, !.pc = pc]
    <3>1. p \in Parts
      BY DEF Best, OnDisk
    <3>2. o \in Ops
      BY <1>0, <3>1, PhaseType DEF Phases
    <3>3. op' = [op EXCEPT ![r] = o]
      BY <2>3 DEF TypeOK
    <3>4. o.call = "activate" /\ o.dev = p /\ o.pc = pc
      BY <1>0, <2>1 DEF Ops
    <3>5. Fits(o) /\ o.call \notin Formats
      BY <3>1, <3>4 DEF Fits, Formats
    <3>6. \A m \in mkfs' : m \in mkfs /\ m.by # r
      BY <1>2, <2>1 DEF ActivateLook, Known, HelpersKnown
    <3>7. boot' = boot /\ found' = found /\ busy' = busy
      BY <1>2 DEF ActivateLook
    <3> HIDE DEF o
    <3> QED BY <3>2, <3>3, <3>5, <3>6, <3>7, OneGoesOn
  <2>4. \/ Goto(r, "done")
        \/ \E s \in {Truth, seen} \ {Nobody} : \E p \in Best(s, op[r].dev) : \E pc \in {"mounted", "mounting"} :
              op' = [op EXCEPT ![r].dev = p, ![r].pc = pc]
    BY <1>2 DEF ActivateLook
  <2> QED BY <2>2, <2>3, <2>4
<1>3. CASE MountLook(r)
  <2>1. /\ op[r].call \in {"mount", "backup_mount"} /\ op[r].dev \in Parts /\ op[r].pc = "looking"
        /\ UNCHANGED <<busy, mkfs, boot, found>>
    BY <1>0, <1>3 DEF MountLook, At, Fits
  <2>2. PICK pc \in {"done", "mounting", "backup_mounting"} : Goto(r, pc)
    BY <1>3 DEF MountLook
  <2>3. Fits([op[r] EXCEPT !.pc = pc]) /\ pc \in Phases
    BY <1>0, <2>1 DEF Fits, Ops, Phases
  <2> QED BY <2>1, <2>2, <2>3, GoesOn DEF Formats
<1> QED BY <1>1, <1>2, <1>3

LEMMA StartHelperKnown ==
  ASSUME TypeOK, Known, NEW r \in Requests, StartHelper(r)
  PROVE  Known'
<1> DEFINE o == [op[r] EXCEPT !.pc = "mkfs"]
<1>1. op[r].pc = "formatting" /\ UNCHANGED <<boot, found>>
  BY DEF StartHelper, At
<1>2. DiskOf[Made(r)] = DiskAsked(r) /\ Helper(r, r).disk = DiskAsked(r)
      /\ Helper(r, r).part = Made(r) /\ Helper(r, r).by = r
  BY <1>1, HelperType DEF Known
<1>3. CASE /\ Goto(r, "mkfs") /\ busy' = busy
           /\ mkfs' \subseteq mkfs \cup {Helper(r, r)}
  <2>1. o \in Ops /\ op' = [op EXCEPT ![r] = o]
    BY <1>3, PhaseType DEF TypeOK, Goto, Phases
  <2>2. o.call = op[r].call /\ o.dev = op[r].dev /\ o.pc = "mkfs"
    BY DEF TypeOK, Ops
  <2>3. Fits(o)
    BY <1>1, <2>2 DEF Known, DevKnown, Fits
  <2>4. o.call \in Formats /\ o.pc \in Holding => busy'[DiskNamed(o.dev)] = r
    BY <1>1, <1>3, <2>2 DEF Known, HolderHolds, Holding
  <2>5. Helper(r, r)' = Helper(r, r)
    BY <2>1, <2>2 DEF TypeOK, Helper, DiskAsked, DiskNamed, Made, Whole
  <2>6. ASSUME NEW m \in mkfs'
        PROVE  \/ m \in mkfs /\ m.by # r
               \/ m.by = Nobody /\ DiskOf[m.part] = m.disk
               \/ /\ m.by = r /\ o.pc = "mkfs"
                  /\ DiskOf[m.part] = m.disk /\ m = Helper(r, r)'
    <3>1. CASE m = Helper(r, r)
      BY <1>2, <2>2, <2>5, <3>1
    <3>2. CASE m \in mkfs
      BY <1>1, <3>2 DEF Known, HelpersKnown
    <3> QED BY <1>3, <3>1, <3>2
  <2>7. busy' = busy
    BY <1>3
  <2> HIDE DEF o
  <2> QED BY <1>1, <2>1, <2>3, <2>4, <2>6, <2>7, OneGoesOn
<1>4. CASE Conclude(r, "failed") /\ mkfs' = mkfs
  <2>1. \A m \in mkfs' : m \in mkfs /\ m.by # r
    BY <1>1, <1>4 DEF Known, HelpersKnown
  <2> QED BY <1>1, <1>4, <2>1, Concludes DEF Holding, Finished
<1> QED BY <1>3, <1>4 DEF StartHelper

LEMMA HelperEndsKnown ==
  ASSUME TypeOK, Known, NEW m \in mkfs, HelperEnds(m)
  PROVE  Known'
<1>0. EndsSomehow(m)
  BY HelperEndsHow
<1>1. m.by \in Requests \cup {Nobody} /\ m.part \in Parts /\ DiskOf[m.part] = m.disk
  BY DEF TypeOK, Helpers, Known, HelpersKnown
<1>2. CASE m.by = Nobody /\ UNCHANGED <<op, job, busy, saved>>
  BY <1>0, <1>2, NobodyActs DEF EndsSomehow, Known, DevKnown
<1>3. CASE m.by # Nobody
  <2>1. m.by \in Requests /\ op[m.by].pc = "mkfs" /\ m = Helper(m.by, m.by)
    BY <1>1, <1>3 DEF Known, HelpersKnown
  <2>2. \A n \in mkfs' : n \in mkfs /\ n.by # m.by
    BY <1>0, <1>3, <2>1 DEF EndsSomehow, Known, HelpersKnown
  <2>3. boot' = boot /\ found' = found
    BY <1>0 DEF EndsSomehow
  <2>4. ASSUME NEW status \in Finished, Conclude(m.by, status)
        PROVE  Known'
    BY <2>1, <2>2, <2>3, <2>4, Concludes DEF Holding
  <2>5. CASE /\ op' = [op EXCEPT ![m.by].dev = m.part, ![m.by].pc = "mounting"]
             /\ UNCHANGED <<job, busy, saved>>
    <3> DEFINE o == [op[m.by] EXCEPT !.dev = m.part, !.pc = "mounting"]
    <3>1. op[m.by] \in Ops /\ Fits(op[m.by])
      BY <2>1 DEF TypeOK, Known, DevKnown
    <3>2. o \in Ops
      BY <1>1, <3>1, PhaseType DEF Phases
    <3>3. op' = [op EXCEPT ![m.by] = o]
      BY <2>1, <2>5 DEF TypeOK
    <3>4. o.call = op[m.by].call /\ o.dev = m.part /\ o.pc = "mounting"
      BY <3>1 DEF Ops
    <3>5. Fits(o)
      BY <1>1, <3>4 DEF Fits
    <3>6. m.disk = DiskNamed(op[m.by].dev)
      <4>1. Helper(m.by, m.by).disk = DiskAsked(m.by)
        BY <2>1, HelperType DEF Known
      <4> QED BY <2>1, <4>1 DEF DiskAsked
    <3>7. DiskNamed(o.dev) = m.disk
      BY <1>1, <3>4 DEF DiskNamed
    <3>8. o.call \in Formats /\ o.pc \in Holding => busy'[DiskNamed(o.dev)] = m.by
      BY <2>1, <2>5, <3>4, <3>6, <3>7 DEF Known, HolderHolds, Holding
    <3>9. busy' = busy
      BY <2>5
    <3>10. \A q \in Requests \ {m.by}, d \in Disks : busy[d] = q => busy'[d] = q
      BY <3>9
    <3>11. \A n \in mkfs' : \/ n \in mkfs /\ n.by # m.by
                            \/ n.by = Nobody /\ DiskOf[n.part] = n.disk
                            \/ /\ n.by = m.by /\ o.pc = "mkfs"
                               /\ DiskOf[n.part] = n.disk /\ n = Helper(m.by, m.by)'
      BY <2>2
    <3> HIDE DEF o
    <3> QED BY <2>1, <2>3, <3>2, <3>3, <3>5, <3>8, <3>10, <3>11, OneGoesOn
  <2> QED BY <1>0, <1>3, <2>4, <2>5 DEF EndsSomehow
<1> QED BY <1>0, <1>2, <1>3 DEF EndsSomehow

LEMMA HelperStallsKnown ==
  ASSUME TypeOK, Known, NEW r \in Requests, HelperStalls(r)
  PROVE  Known'
<1>1. /\ op[r].pc = "mkfs" /\ Conclude(r, "failed") /\ boot' = boot /\ found' = found
      /\ mkfs' = {IF m.by = r THEN [m EXCEPT !.by = Nobody] ELSE m : m \in mkfs}
  BY DEF HelperStalls, At
<1>2. ASSUME NEW n \in mkfs'
      PROVE  \/ n \in mkfs /\ n.by # r
             \/ n.by = Nobody /\ DiskOf[n.part] = n.disk
  <2>1. PICK m \in mkfs : n = IF m.by = r THEN [m EXCEPT !.by = Nobody] ELSE m
    BY <1>1
  <2>2. m \in Helpers /\ DiskOf[m.part] = m.disk
    BY DEF TypeOK, Known, HelpersKnown
  <2> QED BY <2>1, <2>2, OrphanType
<1> QED BY <1>1, <1>2, Concludes DEF Holding, Finished

LEMMA MountsKnown ==
  ASSUME TypeOK, Known, NEW r \in Requests,
         \/ MountNas(r) \/ Settle(r) \/ StartServices(r) \/ UmountNas(r) \/ ClearState(r)
         \/ BackupHost(r) \/ BackupSave(r)
  PROVE  Known'
<1> USE DEF media, kept
<1>0. op[r] \in Ops /\ Fits(op[r])
  BY DEF TypeOK, Known, DevKnown
<1>1. \A pc \in Phases : [op[r] EXCEPT !.pc = pc].call = op[r].call
                        /\ [op[r] EXCEPT !.pc = pc].dev = op[r].dev /\ [op[r] EXCEPT !.pc = pc].pc = pc
  BY <1>0 DEF Ops
<1>2. CASE op[r].pc = "mounting" /\ ((Goto(r, "mounted") /\ busy' = busy) \/ Conclude(r, "failed"))
           /\ UNCHANGED <<mkfs, boot, found>>
  <2>1. \A m \in mkfs' : m \in mkfs /\ m.by # r
    BY <1>2 DEF Known, HelpersKnown
  <2>2. Fits([op[r] EXCEPT !.pc = "mounted"])
    BY <1>0, <1>1, <1>2 DEF Fits, Phases
  <2>3. CASE Goto(r, "mounted") /\ busy' = busy
    BY <1>2, <2>2, <2>3, GoesOn DEF Phases, Holding
  <2>4. CASE Conclude(r, "failed")
    BY <1>2, <2>1, <2>4, Concludes DEF Holding, Finished
  <2> QED BY <1>2, <2>3, <2>4
<1>3. CASE Settle(r)
  <2>1. Fits([op[r] EXCEPT !.pc = "starting"])
    BY <1>0, <1>1, <1>3 DEF Fits, Phases, Settle, At
  <2>2. \A m \in mkfs' : m \in mkfs /\ m.by # r
    BY <1>3 DEF Settle, At, Known, HelpersKnown
  <2>3. CASE Goto(r, "starting") /\ busy' = busy
    BY <1>3, <2>1, <2>3, GoesOn DEF Settle, At, Phases, Holding
  <2>4. CASE Conclude(r, "failed")
    BY <1>3, <2>2, <2>4, Concludes DEF Settle, At, Holding, Finished
  <2> QED BY <1>3, <2>3, <2>4 DEF Settle
<1>4. CASE StartServices(r)
  <2>1. \A m \in mkfs' : m \in mkfs /\ m.by # r
    BY <1>4 DEF StartServices, At, Known, HelpersKnown
  <2> QED BY <1>4, <2>1, Concludes DEF StartServices, At, Holding, Finished
<1>5. CASE \E pc \in {"unmounted", "done", "backup_unmounted"} :
              Goto(r, pc) /\ op[r].pc # "mkfs" /\ UNCHANGED <<busy, mkfs, boot, found>>
  <2>1. \A pc \in {"unmounted", "done", "backup_unmounted"} :
          pc \in Phases /\ pc \notin Holding /\ Fits([op[r] EXCEPT !.pc = pc])
    BY <1>1 DEF Fits, Phases, Holding
  <2> QED BY <1>5, <2>1, GoesOn
<1>6. CASE BackupHost(r) /\ op[r].pc = "backup_mounting" /\ Goto(r, "backup_mounted")
  <2>1. Fits([op[r] EXCEPT !.pc = "backup_mounted"])
    BY <1>0, <1>1, <1>6 DEF Fits, Phases
  <2> QED BY <1>6, <2>1, GoesOn DEF BackupHost, Phases, Holding
<1>7. MountNas(r) => op[r].pc = "mounting" /\ ((Goto(r, "mounted") /\ busy' = busy) \/ Conclude(r, "failed"))
                     /\ UNCHANGED <<mkfs, boot, found>>
  BY DEF MountNas, At
<1>8. UmountNas(r) \/ ClearState(r) \/ BackupSave(r)
        => \E pc \in {"unmounted", "done", "backup_unmounted"} :
              Goto(r, pc) /\ op[r].pc # "mkfs" /\ UNCHANGED <<busy, mkfs, boot, found>>
  BY DEF UmountNas, ClearState, BackupSave, At
<1>9. BackupHost(r)
        => \/ op[r].pc = "backup_mounting" /\ Goto(r, "backup_mounted")
           \/ \E pc \in {"unmounted", "done", "backup_unmounted"} :
                 Goto(r, pc) /\ op[r].pc # "mkfs" /\ UNCHANGED <<busy, mkfs, boot, found>>
  BY DEF BackupHost, At
<1> QED BY <1>2, <1>3, <1>4, <1>5, <1>6, <1>7, <1>8, <1>9

LEMMA OthersKnown ==
  ASSUME TypeOK, Known, Boot \/ Crash \/ Power \/ ListDevices \/ \E d \in Disks : Plug(d)
  PROVE  Known'
<1> USE DEF media, kept, proc, Busyless
<1>1. CASE Boot
  <2>1. UNCHANGED <<op, busy, mkfs>>
    BY <1>1 DEF Boot, BootBegin, BootMount, BootScan, BootCheck, BootReject, BootBackup
  <2>2. boot' = "mount" => found' \in Parts
    <3>1. BootBegin => (boot' = "mount" => found' \in Parts)
      BY DEF BootBegin, TypeOK
    <3>2. BootScan => (boot' = "mount" => found' \in Parts)
      BY DEF BootScan, Candidates
    <3>3. BootMount \/ BootCheck \/ BootReject \/ BootBackup => boot' # "mount"
      BY DEF BootMount, BootUnsaved, BootCheck, BootReject, BootBackup, BootStep
    <3> QED BY <1>1, <3>1, <3>2, <3>3 DEF Boot
  <2> QED BY <2>1, <2>2, NobodyActs
<1>2. ASSUME NEW kind, Dies(kind), \A m \in mkfs' : m.by = Nobody /\ DiskOf[m.part] = m.disk
      PROVE  Known'
  <2>1. \A r \in Requests : op'[r].pc \in {"new", "done"}
    BY <1>2 DEF Dies, Going, TypeOK, Ops
  <2>2. DevKnown' /\ HolderHolds'
    BY <1>2, <2>1 DEF Dies, DevKnown, Fits, HolderHolds, Holding
  <2>3. HelpersKnown'
    BY <1>2 DEF HelpersKnown
  <2> QED BY <2>2, <2>3 DEF Known
<1>3. CASE Crash
  <2>1. \A m \in mkfs' : m.by = Nobody /\ DiskOf[m.part] = m.disk
    <3> SUFFICES ASSUME NEW n \in mkfs' PROVE n.by = Nobody /\ DiskOf[n.part] = n.disk
      OBVIOUS
    <3>1. PICK m \in mkfs : n = [m EXCEPT !.by = Nobody]
      BY <1>3 DEF Crash
    <3>2. m \in Helpers /\ DiskOf[m.part] = m.disk
      BY DEF TypeOK, Known, HelpersKnown
    <3> QED BY <3>1, <3>2, OrphanType
  <2> QED BY <1>2, <1>3, <2>1 DEF Crash
<1>4. CASE Power
  BY <1>2, <1>4 DEF Power
<1>5. CASE ListDevices \/ \E d \in Disks : Plug(d)
  BY <1>5, NobodyActs DEF ListDevices, Plug, Known, DevKnown
<1> QED BY <1>1, <1>3, <1>4, <1>5

------------------------------------------------------------------------------
\* What the helpers work on.

SpoiltGrows == \A d \in Disks : Spoilt(d) => Spoilt(d)'
FreeKept == \A m \in mkfs : Free(m) /\ ~Spoilt(m.disk)' => Free(m)'

\* What a lemma about helpers needs to know of each.
LEMMA HelperFacts ==
  ASSUME TypeOK, HelpersKnown, NEW m \in mkfs
  PROVE  m.disk \in Disks /\ m.part \in Parts /\ \A p \in Parts : Covers(m, p) => DiskOf[p] = m.disk
  BY DEF TypeOK, Helpers, HelpersKnown, Covers

\* A mount needs a file system, and is noted when it gets in before a wipe.
Mounts(p, t) == \/ stack' = stack
                \/ /\ CanMount(p) /\ Raced(p) \subseteq disturbed'
                   /\ stack' = [stack EXCEPT ![t] = Append(@, p)]
LEMMA MountKeepsFree ==
  ASSUME TypeOK, HelpersKnown, NEW p \in Parts, NEW t \in Targets, Mounts(p, t),
         disturbed \subseteq disturbed', UNCHANGED <<fs, early>>
  PROVE  FreeKept /\ SpoiltGrows
<1>1. SpoiltGrows
  BY DEF SpoiltGrows, Spoilt
<1>2. SUFFICES ASSUME NEW m \in mkfs, Free(m), ~Spoilt(m.disk)', NEW q \in Parts, Covers(m, q)
               PROVE  ~Mounted(q)' /\ (Key(m) \notin early => Bare(q)')
  BY <1>1 DEF FreeKept, Free, Covers, Key
<1>3. ~Mounted(q) /\ (Key(m) \notin early => Bare(q)) /\ (Bare(q) => Bare(q)')
  BY <1>2 DEF Free, Bare
<1>4. CASE stack' = stack
  BY <1>3, <1>4 DEF Mounted
<1>5. CASE CanMount(p) /\ Raced(p) \subseteq disturbed' /\ stack' = [stack EXCEPT ![t] = Append(@, p)]
  <2>1. ASSUME q = p PROVE FALSE
    <3>1. Key(m) \in early
      BY <1>3, <1>5, <2>1 DEF CanMount, Bare
    <3>2. <<DiskOf[p], "checked">> \in disturbed' /\ DiskOf[p] = m.disk
      BY <1>2, <1>5, <2>1, <3>1, HelperFacts DEF Raced
    <3>3. <<m.disk, "checked">>[1] = m.disk
      OBVIOUS
    <3> QED BY <1>2, <3>2, <3>3 DEF Spoilt
  <2>2. ToSet(Append(stack[t], p)) \subseteq ToSet(stack[t]) \cup {p}
    BY DEF TypeOK, ToSet
  <2>3. \A u \in Targets : ToSet(stack'[u]) \subseteq ToSet(stack[u]) \cup {p}
    BY <1>5, <2>2 DEF TypeOK
  <2> QED BY <1>3, <2>1, <2>3 DEF Mounted
<1> QED BY <1>4, <1>5 DEF Mounts

LEMMA HostMountKeepsFree ==
  ASSUME TypeOK, HelpersKnown, NEW p \in Parts, NEW t \in Targets, NEW rc \in {0, 1},
         HostMount(p, t, rc), UNCHANGED <<fs, early>>
  PROVE  FreeKept /\ SpoiltGrows
<1>1. Mounts(p, t) /\ disturbed \subseteq disturbed'
  BY DEF HostMount, Mounts
<1> QED BY <1>1, MountKeepsFree

LEMMA UmountKeepsFree ==
  ASSUME TypeOK, NEW t \in Targets, NEW rc \in {0, 1}, HostUmount(t, rc), UNCHANGED <<fs, early>>
  PROVE  FreeKept /\ SpoiltGrows
<1>1. SpoiltGrows
  BY DEF HostUmount, SpoiltGrows, Spoilt
<1>2. ASSUME NEW q \in Parts, ~Mounted(q) PROVE ~Mounted(q)'
  <2>1. CASE stack' = stack
    BY <1>2, <2>1 DEF Mounted
  <2>2. CASE stack[t] # <<>> /\ stack' = [stack EXCEPT ![t] = Front(@)]
    <3>1. ToSet(Front(stack[t])) \subseteq ToSet(stack[t])
      BY <2>2 DEF TypeOK, ToSet, Front
    <3>2. \A u \in Targets : ToSet(stack'[u]) \subseteq ToSet(stack[u])
      BY <2>2, <3>1 DEF TypeOK
    <3> QED BY <1>2, <3>2 DEF Mounted
  <2> QED BY <2>1, <2>2 DEF HostUmount
<1> QED BY <1>1, <1>2 DEF FreeKept, Free, Covers, Key, Bare

\* The helpers are those that were, some of them perhaps without their request.
Heir(n, m) == n.disk = m.disk /\ n.part = m.part /\ n.whole = m.whole
LEMMA HeirFree ==
  ASSUME NEW m, NEW n, Heir(n, m), Free(m)'
  PROVE  Free(n)'
  BY DEF Heir, Free, Covers, Key

LEMMA StaysApart ==
  ASSUME TypeOK, Apart, FreeKept, SpoiltGrows, mkfs' \subseteq mkfs
  PROVE  Apart'
<1>1. \A m \in mkfs : m.disk \in Disks
  BY DEF TypeOK, Helpers
<1>2. Alone'
  BY <1>1 DEF Apart, Alone, SpoiltGrows
<1>3. AllFree'
  BY <1>1 DEF Apart, AllFree, FreeKept, SpoiltGrows
<1> QED BY <1>2, <1>3 DEF Apart

LEMMA OrphansApart ==
  ASSUME TypeOK, Apart, FreeKept, SpoiltGrows, NEW F, mkfs' = {F[m] : m \in mkfs},
         \A m \in mkfs : Heir(F[m], m)
  PROVE  Apart'
<1>1. ASSUME NEW n \in mkfs' PROVE \E m \in mkfs : n = F[m] /\ m.disk \in Disks /\ Heir(n, m)
  BY DEF TypeOK, Helpers
<1>2. Alone'
  BY <1>1 DEF Apart, Alone, SpoiltGrows, Heir
<1>3. AllFree'
  <2> SUFFICES ASSUME NEW n \in mkfs', ~Spoilt(n.disk)' PROVE Free(n)'
    BY DEF AllFree
  <2>1. PICK m \in mkfs : m.disk \in Disks /\ Heir(n, m)
    BY <1>1
  <2>2. Free(m)'
    BY <2>1 DEF Apart, AllFree, FreeKept, SpoiltGrows, Heir
  <2> QED BY <2>1, <2>2, HeirFree
<1> QED BY <1>2, <1>3 DEF Apart

LEMMA UntouchedApart ==
  ASSUME TypeOK, Apart, UNCHANGED <<fs, stack, early>>, SpoiltGrows, mkfs' \subseteq mkfs
  PROVE  Apart'
<1>1. FreeKept
  BY DEF FreeKept, Free, Bare, Mounted
<1> QED BY <1>1, StaysApart

LEMMA CallApart ==
  ASSUME TypeOK, Apart, NEW r \in Requests, Call(r)
  PROVE  Apart'
<1> USE DEF media, SpoiltGrows, Spoilt
<1>1. UNCHANGED <<fs, stack, mkfs, early>>
  BY DEF Call, Format, Mount, BackupMount, Activate, Eject, Recover, Unmount, BackupUnmount
<1>2. SpoiltGrows
  BY DEF Call, Format, Mount, BackupMount, Activate, Eject, Recover, Unmount, BackupUnmount,
         StopServices
<1> QED BY <1>1, <1>2, UntouchedApart

LEMMA StartHelperApart ==
  ASSUME TypeOK, Known, Apart, NEW r \in Requests, StartHelper(r)
  PROVE  Apart'
<1> USE DEF media
<1>1. op[r].pc = "formatting" /\ UNCHANGED <<stack, fs>>
  BY DEF StartHelper, At
<1>0. PICK d \in Disks, h \in Helpers, g \in Helpers :
        d = DiskAsked(r) /\ h = Helper(r, r) /\ g = Helper(r, Nobody)
  BY <1>1, HelperType DEF Known
<1>2. /\ Made(r) \in Parts /\ DiskOf[Made(r)] = d
      /\ h.disk = d /\ h.part = Made(r) /\ h.whole = Whole(r)
      /\ g.disk = d /\ g.part = Made(r) /\ g.whole = Whole(r)
      /\ Whole(r) => op[r].dev = d
  BY <1>0, <1>1, HelperType DEF Known
<1>3. \A m \in mkfs : m.disk \in Disks
  BY DEF TypeOK, Helpers
<1>4. CASE Conclude(r, "failed") /\ UNCHANGED <<mkfs, early, disturbed>>
  BY <1>1, <1>4, UntouchedApart DEF SpoiltGrows, Spoilt
<1>5. ASSUME mkfs' = (mkfs \ {g}) \cup {h}, disturbed' = disturbed \cup Beside(r)
      PROVE  SpoiltGrows /\ Alone'
  <2>1. SpoiltGrows
    BY <1>5 DEF SpoiltGrows, Spoilt
  <2>2. ASSUME ~Spoilt(d)' PROVE \A m \in mkfs : m # g => m.disk # d
    <3>1. <<d, "shared">>[1] = d
      OBVIOUS
    <3> QED BY <1>0, <1>5, <2>2, <3>1 DEF Spoilt, Beside
  <2> QED BY <1>2, <1>3, <1>5, <2>1, <2>2 DEF Apart, Alone, SpoiltGrows
<1>6. ASSUME mkfs' = (mkfs \ {g}) \cup {h}, disturbed' = disturbed \cup Beside(r),
             early \subseteq early', ~Spoilt(d)' => Free(h)'
      PROVE  Apart'
  <2>1. \A m \in mkfs : Free(m) => Free(m)'
    BY <1>1, <1>6 DEF Free, Bare, Mounted
  <2>2. AllFree'
    BY <1>2, <1>3, <1>5, <1>6, <2>1 DEF Apart, AllFree, SpoiltGrows
  <2> QED BY <1>5, <1>6, <2>2 DEF Apart
<1>7. CASE /\ g \in mkfs /\ mkfs' = (mkfs \ {g}) \cup {h}
           /\ disturbed' = disturbed \cup Beside(r) /\ early' = early
  <2>1. ~Spoilt(d)' => Free(g)
    BY <1>2, <1>5, <1>7 DEF Apart, AllFree, SpoiltGrows
  <2>2. Free(g) => Free(g)'
    BY <1>1, <1>7 DEF Free, Bare, Mounted
  <2>3. ~Spoilt(d)' => Free(h)'
    BY <1>2, <2>1, <2>2, HeirFree DEF Heir
  <2> QED BY <1>6, <1>7, <2>3
<1>8. CASE /\ g \notin mkfs /\ IdleTarget(Subtree(r)) /\ mkfs' = mkfs \cup {h}
           /\ early' = early \cup {Key(h)} /\ disturbed' = disturbed \cup Beside(r)
  <2>1. \A p \in Parts : Covers(h, p) => ~Mounted(p)'
    <3> SUFFICES ASSUME NEW p \in Parts, Covers(h, p) PROVE ~Mounted(p)'
      OBVIOUS
    <3>1. p \in Subtree(r)
      BY <1>2 DEF Covers, Subtree, OnDisk, Made
    <3> QED BY <1>1, <1>8, <3>1 DEF IdleTarget, Mounted
  <2>2. Free(h)'
    BY <1>8, <2>1 DEF Free, Covers, Key
  <2>3. mkfs' = (mkfs \ {g}) \cup {h} /\ early \subseteq early'
    BY <1>8
  <2> QED BY <1>6, <1>8, <2>2, <2>3
<1> QED BY <1>0, <1>4, <1>7, <1>8 DEF StartHelper

\* A wipe leaves no file system, to whoever works on the same.
LEMMA HelperWipesApart ==
  ASSUME TypeOK, Known, Apart, NEW m \in mkfs, HelperWipes(m)
  PROVE  Apart'
<1>1. /\ early' = early \ {Key(m)} /\ UNCHANGED <<mkfs, stack, disturbed>>
      /\ fs' = [p \in Parts |-> IF p = m.part THEN "wiped"
                                ELSE IF Covers(m, p) THEN "gone" ELSE fs[p]]
  BY DEF HelperWipes
<1>2. SpoiltGrows
  BY <1>1 DEF SpoiltGrows, Spoilt
<1>3. \A p \in Parts : (Bare(p) => Bare(p)') /\ (Covers(m, p) => Bare(p)')
  BY <1>1 DEF Bare
<1>4. \A n \in mkfs : Key(n) = Key(m) => \A p \in Parts : Covers(n, p) => Covers(m, p)
  BY DEF Key, Covers
<1>5. FreeKept
  <2> SUFFICES ASSUME NEW n \in mkfs, Free(n), NEW p \in Parts, Covers(n, p)
               PROVE  ~Mounted(p)' /\ (Key(n) \notin early' => Bare(p)')
    BY DEF FreeKept, Free, Covers, Key
  <2>1. ~Mounted(p)' /\ (Key(n) \notin early => Bare(p))
    BY <1>1 DEF Free, Mounted
  <2>2. CASE Key(n) = Key(m)
    BY <1>3, <1>4, <2>1, <2>2
  <2>3. CASE Key(n) # Key(m)
    BY <1>1, <1>3, <2>1, <2>3
  <2> QED BY <2>2, <2>3
<1> QED BY <1>1, <1>2, <1>5, StaysApart

\* A helper that ends leaves its disk to nobody, unless there was another beside it.
LEMMA HelperEndsApart ==
  ASSUME TypeOK, Known, Apart, NEW m \in mkfs, HelperEnds(m)
  PROVE  Apart'
<1>1. /\ mkfs' = mkfs \ {m} /\ early' = early \ {Key(m)}
      /\ disturbed \subseteq disturbed' /\ stack' = stack
      /\ fs' = [fs EXCEPT ![m.part] = "ext4"] \/ fs' = fs
  BY HelperEndsHow DEF EndsSomehow
<1>2. SpoiltGrows
  BY <1>1 DEF SpoiltGrows, Spoilt
<1>3. \A n \in mkfs : n.disk \in Disks /\ n.part \in Parts /\ DiskOf[n.part] = n.disk
  BY DEF TypeOK, Helpers, Known, HelpersKnown
<1>4. Alone'
  BY <1>1, <1>2, <1>3 DEF Apart, Alone, SpoiltGrows
<1>5. AllFree'
  <2> SUFFICES ASSUME NEW n \in mkfs', ~Spoilt(n.disk)', NEW p \in Parts, Covers(n, p)
               PROVE  ~Mounted(p)' /\ (Key(n) \notin early' => Bare(p)')
    BY DEF AllFree, Free, Covers, Key
  <2>1. n \in mkfs /\ n # m /\ ~Spoilt(n.disk)
    BY <1>1, <1>2, <1>3 DEF SpoiltGrows
  <2>2. n.disk # m.disk
    BY <2>1 DEF Apart, Alone
  <2>3. p # m.part /\ Key(n) # Key(m)
    BY <1>3, <2>1, <2>2 DEF Covers, Key
  <2>4. ~Mounted(p) /\ (Key(n) \notin early => Bare(p))
    BY <2>1 DEF Apart, AllFree, Free
  <2>5. fs'[p] = fs[p]
    BY <1>1, <1>3, <2>3 DEF TypeOK
  <2> QED BY <1>1, <2>3, <2>4, <2>5 DEF Bare, Mounted
<1> QED BY <1>4, <1>5 DEF Apart

LEMMA HelperStallsApart ==
  ASSUME TypeOK, Apart, NEW r \in Requests, HelperStalls(r)
  PROVE  Apart'
<1> USE DEF media
<1> DEFINE F == [m \in mkfs |-> IF m.by = r THEN [m EXCEPT !.by = Nobody] ELSE m]
<1>1. mkfs' = {F[m] : m \in mkfs}
  BY DEF HelperStalls
<1>2. \A m \in mkfs : Heir(F[m], m)
  BY OrphanType DEF TypeOK, Heir
<1>3. FreeKept /\ SpoiltGrows
  BY DEF HelperStalls, FreeKept, Free, Bare, Mounted, SpoiltGrows, Spoilt
<1> HIDE DEF F
<1> QED BY <1>1, <1>2, <1>3, OrphansApart

LEMMA StepsApart ==
  ASSUME TypeOK, Known, Apart, NEW r \in Requests,
         \/ EraseLook(r) \/ ActivateLook(r) \/ MountLook(r) \/ MountNas(r) \/ Settle(r)
         \/ StartServices(r) \/ UmountNas(r) \/ ClearState(r) \/ BackupHost(r) \/ BackupSave(r)
  PROVE  Apart'
<1> USE DEF media
<1>0. HelpersKnown
  BY DEF Known
<1>1. CASE \/ EraseLook(r) \/ ActivateLook(r) \/ MountLook(r) \/ Settle(r) \/ StartServices(r)
           \/ ClearState(r) \/ BackupSave(r)
  <2>1. UNCHANGED <<fs, stack, mkfs, early>>
    BY <1>1 DEF EraseLook, ActivateLook, MountLook, Settle, StartServices, ClearState, BackupSave
  <2>2. SpoiltGrows
    BY <1>1 DEF EraseLook, ActivateLook, MountLook, Settle, StartServices, ClearState, BackupSave,
                SpoiltGrows, Spoilt
  <2> QED BY <2>1, <2>2, UntouchedApart
<1>2. op[r] \in Ops /\ Fits(op[r]) /\ "nas" \in Targets /\ "backup" \in Targets
  BY DEF TypeOK, Known, DevKnown, Targets
<1>3. CASE MountNas(r) \/ UmountNas(r) \/ BackupHost(r)
  <2>1. UNCHANGED <<fs, mkfs, early>>
    BY <1>3 DEF MountNas, UmountNas, BackupHost
  <2>2. FreeKept /\ SpoiltGrows
    <3>1. CASE MountNas(r)
      <4>1. op[r].dev \in Parts
        BY <1>2, <3>1 DEF MountNas, At, Fits
      <4> QED BY <1>0, <1>2, <2>1, <3>1, <4>1, HostMountKeepsFree DEF MountNas
    <3>2. CASE UmountNas(r)
      BY <1>2, <2>1, <3>2, UmountKeepsFree DEF UmountNas
    <3>3. CASE BackupHost(r)
      <4>1. op[r].pc = "backup_mounting" => op[r].dev \in Parts
        BY <1>2 DEF Fits
      <4> QED BY <1>0, <1>2, <2>1, <3>3, <4>1, HostMountKeepsFree, UmountKeepsFree DEF BackupHost, At
    <3> QED BY <1>3, <3>1, <3>2, <3>3
  <2> QED BY <2>1, <2>2, StaysApart
<1> QED BY <1>1, <1>3

\* A start forgets what disturbed the state, but not which disks were shared.
LEMMA BootApart ==
  ASSUME TypeOK, Known, Apart, Boot
  PROVE  Apart'
<1> USE DEF media
<1>1. CASE BootBegin
  <2>1. SpoiltGrows
    BY <1>1 DEF BootBegin, SpoiltGrows, Spoilt
  <2> QED BY <1>1, <2>1, UntouchedApart DEF BootBegin
<1>2. CASE BootScan \/ BootCheck
  BY <1>2, UntouchedApart DEF BootScan, BootCheck, SpoiltGrows, Spoilt
<1>3. UNCHANGED <<fs, mkfs, early>>
  BY DEF Boot, BootBegin, BootMount, BootScan, BootCheck, BootReject, BootBackup
<1>4. "nas" \in Targets /\ "backup" \in Targets
  BY DEF Targets
<1>5. CASE BootMount
  <2>1. found \in Parts
    BY <1>5 DEF BootMount, Known, DevKnown
  <2>2. FreeKept /\ SpoiltGrows
    <3>1. CASE BootUnsaved
      <4>1. Mounts(found, "nas") /\ disturbed \subseteq disturbed'
        BY <3>1 DEF BootUnsaved, Mounts
      <4> QED BY <1>3, <1>4, <2>1, <4>1, MountKeepsFree DEF Known
    <3> QED BY <1>3, <1>4, <1>5, <2>1, <3>1, HostMountKeepsFree DEF BootMount, Known
  <2> QED BY <1>3, <2>2, StaysApart
<1>6. CASE BootReject
  <2>1. FreeKept /\ SpoiltGrows
    BY <1>3, <1>4, <1>6, UmountKeepsFree DEF BootReject
  <2> QED BY <1>3, <2>1, StaysApart
<1>7. CASE BootBackup
  <2>1. CASE stack' = stack /\ disturbed \subseteq disturbed'
    <3>1. SpoiltGrows
      BY <2>1 DEF SpoiltGrows, Spoilt
    <3> QED BY <1>3, <2>1, <3>1, UntouchedApart
  <2>2. CASE drive # Nobody /\ HostMount(drive, "backup", 0)
    <3>1. drive \in Parts
      BY <2>2 DEF TypeOK
    <3>2. FreeKept /\ SpoiltGrows
      BY <1>3, <1>4, <2>2, <3>1, HostMountKeepsFree DEF Known
    <3> QED BY <1>3, <3>2, StaysApart
  <2> QED BY <1>7, <2>1, <2>2 DEF BootBackup
<1> QED BY <1>1, <1>2, <1>5, <1>6, <1>7 DEF Boot

LEMMA OthersApart ==
  ASSUME TypeOK, Known, Apart, Crash \/ Power \/ ListDevices \/ \E d \in Disks : Plug(d)
  PROVE  Apart'
<1> USE DEF media
<1>1. CASE Crash
  <2> DEFINE F == [m \in mkfs |-> [m EXCEPT !.by = Nobody]]
  <2>1. mkfs' = {F[m] : m \in mkfs}
    BY <1>1 DEF Crash
  <2>2. \A m \in mkfs : Heir(F[m], m)
    BY OrphanType DEF TypeOK, Heir
  <2>3. FreeKept /\ SpoiltGrows
    BY <1>1 DEF Crash, Dies, FreeKept, Free, Bare, Mounted, SpoiltGrows, Spoilt
  <2> HIDE DEF F
  <2> QED BY <2>1, <2>2, <2>3, OrphansApart
<1>2. CASE Power
  BY <1>2 DEF Power, Apart, Alone, AllFree
<1>3. CASE ListDevices \/ \E d \in Disks : Plug(d)
  BY <1>3, UntouchedApart DEF ListDevices, Plug, SpoiltGrows, Spoilt
<1> QED BY <1>1, <1>2, <1>3

------------------------------------------------------------------------------
\* The theorems.

LEMMA InitIInv == Init => IInv
<1> SUFFICES ASSUME Init PROVE IInv
  OBVIOUS
<1>1. TypeOK
  BY InitTypeOK
<1>2. Known
  BY DEF Init, Idle, Known, DevKnown, HolderHolds, HelpersKnown, Fits, Formats
<1>3. Apart
  BY DEF Init, Apart, Alone, AllFree
<1> QED BY <1>1, <1>2, <1>3 DEF IInv

LEMMA NextIInv ==
  ASSUME IInv, [Next]_vars
  PROVE  IInv'
<1>0. TypeOK /\ Known /\ Apart /\ DevKnown /\ HelpersKnown
  BY DEF IInv, Known
<1>1. ASSUME NEW r \in Requests, Call(r) PROVE IInv'
  BY <1>0, <1>1, CallType, CallKnown, CallApart DEF IInv
<1>2. ASSUME NEW r \in Requests, Step(r) PROVE IInv'
  <2>1. CASE StartHelper(r)
    BY <1>0, <2>1, StartHelperType, StartHelperKnown, StartHelperApart DEF IInv
  <2>2. CASE HelperStalls(r)
    BY <1>0, <2>2, HelperStallsType, HelperStallsKnown, HelperStallsApart DEF IInv
  <2>3. CASE EraseLook(r) \/ ActivateLook(r) \/ MountLook(r)
    BY <1>0, <2>3, LooksType, LooksKnown, StepsApart DEF IInv
  <2>4. CASE \/ MountNas(r) \/ Settle(r) \/ StartServices(r) \/ UmountNas(r) \/ ClearState(r)
             \/ BackupHost(r) \/ BackupSave(r)
    <3>1. Known' /\ Apart'
      BY <1>0, <2>4, MountsKnown, StepsApart
    <3>2. TypeOK'
      BY <1>0, <2>4, MountsType, BackupsType
    <3> QED BY <3>1, <3>2 DEF IInv
  <2> QED BY <1>2, <2>1, <2>2, <2>3, <2>4 DEF Step
<1>3. ASSUME NEW m \in mkfs, HelperWipes(m) \/ HelperEnds(m) PROVE IInv'
  <2>1. CASE HelperWipes(m)
    <3>1. Known'
      BY <1>0, <2>1, NobodyActs DEF HelperWipes, kept, proc, DevKnown
    <3> QED BY <1>0, <1>3, <2>1, <3>1, HelperWipesType, HelperWipesApart DEF IInv
  <2>2. CASE HelperEnds(m)
    BY <1>0, <1>3, <2>2, HelperEndsType, HelperEndsKnown, HelperEndsApart DEF IInv
  <2> QED BY <1>3, <2>1, <2>2
<1>4. CASE Boot
  BY <1>0, <1>4, BootType, OthersKnown, BootApart DEF IInv
<1>5. CASE Crash \/ Power \/ ListDevices \/ \E d \in Disks : Plug(d)
  BY <1>0, <1>5, HostType, OthersKnown, OthersApart DEF IInv
<1>6. CASE UNCHANGED vars
  <2>1. UNCHANGED <<plugged, fs, marked, stack, mkfs, early, svc, state, drive, saved, boot,
                    found, busy, op, job, disturbed, trusted>>
    BY <1>6 DEF vars, media, kept, proc
  <2>2. TypeOK'
    BY <1>0, <2>1 DEF TypeOK
  <2>3. Known'
    BY <1>0, <2>1, NobodyActs DEF DevKnown
  <2>4. Apart'
    BY <1>0, <2>1, UntouchedApart DEF SpoiltGrows, Spoilt
  <2> QED BY <2>2, <2>3, <2>4 DEF IInv
<1> QED BY <1>1, <1>2, <1>3, <1>4, <1>5, <1>6 DEF Next

LEMMA SpecIInv == Spec => []IInv
<1>1. IInv /\ [Next]_vars => IInv'
  BY NextIInv
<1> QED BY <1>1, InitIInv, PTL DEF Spec

\* One disk is formatted by one request at a time, which holds its lock, although the lock
\* is given back by disk and not by holder: device_locks.py and the two jobs that format.
THEOREM OneFormatterHolds == Spec => []OneFormatter
<1>1. ASSUME IInv PROVE OneFormatter
  <2>1. ASSUME NEW m \in mkfs, m.by # Nobody
        PROVE  /\ m.by \in Requests /\ m = Helper(m.by, m.by)
               /\ m.disk = DiskAsked(m.by) /\ busy[m.disk] = m.by
    <3>1. m.by \in Requests /\ op[m.by].pc = "mkfs" /\ m = Helper(m.by, m.by)
      BY <1>1, <2>1 DEF IInv, TypeOK, Helpers, Known, HelpersKnown
    <3>2. Helper(m.by, m.by).disk = DiskAsked(m.by) /\ op[m.by].call \in Formats
      BY <1>1, <3>1, HelperType DEF IInv, Known
    <3>3. busy[DiskAsked(m.by)] = m.by
      BY <1>1, <3>1, <3>2 DEF IInv, Known, HolderHolds, Holding, DiskAsked
    <3> QED BY <3>1, <3>2, <3>3
  <2> QED BY <2>1 DEF OneFormatter
<1> QED BY <1>1, SpecIInv, PTL

\* Nothing that is mounted is being formatted, unless it was mounted between the helper's
\* look at the mounts and its wipe (scripts/ahc-partition-format-nas.sh:16-17), or a helper
\* that nobody waits for is on the same disk: the check for mounts at storage_routes.py:355 is made long before, and
\* neither mount looks at the lock.
THEOREM NothingIsWipedInUse == Spec => []NothingWipedInUse
<1>1. ASSUME IInv PROVE NothingWipedInUse
  BY <1>1 DEF IInv, Apart, AllFree, NothingWipedInUse, Undisturbed, Spoilt, Free
<1> QED BY <1>1, SpecIInv, PTL

\* The variables keep their types, so that storage.json never names but a partition.
THEOREM StorageTypeCorrect == Spec => []TypeOK
<1>1. IInv => TypeOK
  BY DEF IInv
<1> QED BY <1>1, SpecIInv, PTL

------------------------------------------------------------------------------
\* storage.json and the mounts. What makes StateAgrees inductive: while nothing has disturbed
\* them, one request at a time changes what is mounted at the NAS root (the backup), and
\* between its mount or unmount and its save only this request knows the truth; while the
\* process starts nobody is about. For StrangersNotServed, all that is mounted at the NAS root
\* is trusted, except between the mount of an adopted drive and the look at its marker, when
\* nothing is served.

\* What is assumed of the constants is hardly needed here.
HIDE StorageAssumption

BootPhases == {"down", "mount", "scan", "check", "reject", "backup", "serving"}
Quiet == boot # "serving" => \A r \in Requests : ~Going(r)
NasPhases == {"mounting", "mounted", "stopped", "unmounted"}
BackupPhases == {"backup_mounting", "backup_mounted", "backup_unmounting", "backup_unmounted"}
Sides == \A r \in Requests : /\ op[r].pc \in NasPhases => Target(r) = "nas"
                             /\ op[r].pc \in BackupPhases => Target(r) = "backup"
Calm == boot \in BootPhases /\ Quiet /\ Sides

OneAtATime(t) == \A r, q \in Changing(t) : r = q
NasServing ==
    boot = "serving" /\ Undisturbed("nas") =>
        /\ Len(stack["nas"]) <= 1 /\ OneAtATime("nas")
        /\ state = Top("nas") \/ \E r \in Requests : op[r].pc \in {"mounted", "unmounted"}
        /\ \A r \in Requests : /\ op[r].pc = "mounted" => op[r].dev = Top("nas")
                               /\ op[r].pc = "unmounted" => stack["nas"] = << >>
NasStarting ==
    Undisturbed("nas") =>
        /\ boot \in {"mount", "scan"} => stack["nas"] = << >>
        /\ boot = "scan" => state = Nobody
        /\ boot \in {"check", "reject", "backup"} => Len(stack["nas"]) <= 1 /\ state = Top("nas")
NasInv == NasServing /\ NasStarting

BackupStacked == boot # "down" /\ Undisturbed("backup") => Len(stack["backup"]) <= 1
BackupServing ==
    boot = "serving" /\ Undisturbed("backup") =>
        /\ OneAtATime("backup")
        /\ \/ drive \in {Top("backup"), Nobody}
           \/ \E r \in Requests : op[r].pc \in {"backup_mounted", "backup_unmounted"}
        /\ \A r \in Requests : op[r].pc = "backup_mounted" => op[r].dev = Top("backup")
DriveInv == BackupStacked /\ BackupServing

Doubtful == {"check", "reject"}
Trusting ==
    Undisturbed("adopt") =>
        /\ marked \subseteq trusted
        /\ boot \in {"mount", "scan"} => stack["nas"] = << >>
        /\ boot \in Doubtful => Len(stack["nas"]) = 1 /\ state = Top("nas")
        /\ boot \in {"mount", "scan"} \cup Doubtful => ~svc
        /\ boot \notin Doubtful => ToSet(stack["nas"]) \subseteq trusted /\ state \in trusted \cup {Nobody}

Agreeing == Calm /\ NasInv /\ DriveInv /\ Trusting

LEMMA InitAgreeing == Init => Agreeing
<1> SUFFICES ASSUME Init PROVE Agreeing
  OBVIOUS
<1>1. \A t \in Targets : stack[t] = << >> /\ Len(stack[t]) = 0 /\ Top(t) = Nobody
  BY DEF Init, Top
<1>2. \A r \in Requests : op[r].pc = "new"
  BY DEF Init, Idle
<1>3. \A t \in Targets : Changing(t) = {}
  BY <1>2 DEF Changing
<1>4. Calm
  BY <1>2 DEF Init, Calm, BootPhases, Quiet, Sides, NasPhases, BackupPhases
<1>5. NasInv /\ DriveInv
  BY <1>1, <1>2, <1>3
  DEF Init, NasInv, DriveInv, NasServing, NasStarting, BackupStacked, BackupServing, OneAtATime, Targets
<1>6. ToSet(stack["nas"]) = {}
  BY <1>1 DEF ToSet, Targets
<1>7. Trusting
  BY <1>1, <1>6 DEF Init, Trusting, Doubtful
<1> QED BY <1>4, <1>5, <1>7 DEF Agreeing

\* Stacks of mounts.
LEMMA StackFacts ==
  ASSUME NEW s \in Seq(Parts), NEW p \in Parts
  PROVE  /\ Append(s, p) \in Seq(Parts) /\ Append(s, p) # << >> /\ Last(Append(s, p)) = p
         /\ Len(Append(s, p)) = Len(s) + 1 /\ Len(s) \in Nat
         /\ (s = << >>) <=> (Len(s) = 0)
         /\ ToSet(Append(s, p)) \subseteq ToSet(s) \cup {p}
<1>1. /\ Append(s, p) \in Seq(Parts) /\ Len(Append(s, p)) = Len(s) + 1 /\ Len(s) \in Nat
      /\ \A i \in 1..Len(s) : Append(s, p)[i] = s[i]
      /\ Append(s, p)[Len(s) + 1] = p
  OBVIOUS
<1>2. (s = << >>) <=> (Len(s) = 0)
  BY EmptySeq
<1>3. Append(s, p) # << >>
  BY <1>1, EmptySeq
<1>4. ToSet(Append(s, p)) \subseteq ToSet(s) \cup {p}
  <2>1. DOMAIN Append(s, p) = 1..Len(s) + 1 /\ DOMAIN s = 1..Len(s)
    BY <1>1
  <2>2. \A i \in 1..Len(s) + 1 : i \in 1..Len(s) \/ i = Len(s) + 1
    BY <1>1
  <2> QED BY <1>1, <2>1, <2>2 DEF ToSet
<1> QED BY <1>1, <1>2, <1>3, <1>4 DEF Last

LEMMA FrontFacts ==
  ASSUME NEW s \in Seq(Parts), s # << >>
  PROVE  /\ Front(s) \in Seq(Parts) /\ Len(Front(s)) = Len(s) - 1
         /\ Len(s) <= 1 => Front(s) = << >> /\ Len(s) = 1 /\ Last(s) = Head(s)
         /\ ToSet(Front(s)) \subseteq ToSet(s)
         /\ Last(s) \in ToSet(s) /\ Head(s) \in ToSet(s)
<1>1. Len(s) \in Nat \ {0} /\ DOMAIN s = 1..Len(s)
  BY EmptySeq
<1>2. /\ Front(s) \in Seq(Parts) /\ Len(Front(s)) = Len(s) - 1
      /\ \A i \in 1..Len(Front(s)) : Front(s)[i] = s[i]
  BY <1>1, SubSeqProperties, FrontIsSeq DEF Front
<1>3. Len(s) <= 1 => Front(s) = << >> /\ Len(s) = 1
  BY <1>1, <1>2, EmptySeq
<1>4. DOMAIN Front(s) = 1..(Len(s) - 1)
  BY <1>2
<1>5. ToSet(Front(s)) \subseteq ToSet(s)
  BY <1>1, <1>2, <1>4 DEF ToSet
<1>6. Len(s) \in DOMAIN s /\ 1 \in DOMAIN s
  BY <1>1
<1>7. Last(s) = s[Len(s)] /\ Head(s) = s[1]
  BY DEF Last
<1> QED BY <1>2, <1>3, <1>5, <1>6, <1>7 DEF ToSet

\* A stack of one mount.
LEMMA OnlyOneMounted ==
  ASSUME NEW t \in Targets, stack[t] \in Seq(Parts), Len(stack[t]) <= 1
  PROVE  \A p \in ToSet(stack[t]) : p = Top(t)
<1> DEFINE s == stack[t]
<1>1. SUFFICES ASSUME NEW p \in ToSet(s) PROVE p = Top(t)
  OBVIOUS
<1>2. Len(s) \in Nat /\ DOMAIN s = 1..Len(s)
  OBVIOUS
<1>3. PICK i \in 1..Len(s) : s[i] = p
  BY <1>2 DEF ToSet
<1>4. Len(s) = 1 /\ i = 1
  <2>1. \A n \in Nat : n <= 1 => \A j \in 1..n : n = 1 /\ j = 1
    OBVIOUS
  <2>2. Len(s) <= 1
    OBVIOUS
  <2> QED BY <1>2, <1>3, <2>1, <2>2
<1>5. s # << >> /\ Last(s) = s[1]
  BY <1>4, EmptySeq DEF Last
<1> QED BY <1>3, <1>4, <1>5 DEF Top

LEMMA OneMounted ==
  ASSUME stack["nas"] \in Seq(Parts), Len(stack["nas"]) = 1, Top("nas") \in trusted
  PROVE  ToSet(stack["nas"]) \subseteq trusted
<1>1. Len(stack["nas"]) <= 1 /\ "nas" \in Targets
  BY DEF Targets
<1> QED BY <1>1, OnlyOneMounted

LEMMA OpRecord ==
  ASSUME TypeOK, NEW r \in Requests
  PROVE  [op[r] EXCEPT !.pc = "done"].pc = "done"
  BY DEF TypeOK, Ops

\* What disturbed the state stays, within the life of a process.
LEMMA Calmer ==
  ASSUME disturbed \subseteq disturbed', NEW t
  PROVE  Undisturbed(t)' => Undisturbed(t)
  BY DEF Undisturbed

LEMMA HostMountStack ==
  ASSUME TypeOK, NEW p \in Parts, NEW t \in Targets, NEW rc \in {0, 1}, HostMount(p, t, rc)
  PROVE  /\ \A u \in Targets \ {t} : stack'[u] = stack[u]
         /\ disturbed \subseteq disturbed'
         /\ ToSet(stack'[t]) \subseteq ToSet(stack[t]) \cup {p}
         /\ rc = 0 => Top(t)' = p /\ Len(stack'[t]) = Len(stack[t]) + 1
         /\ rc = 0 /\ Undisturbed(t)' => stack[t] = << >>
         /\ rc = 1 /\ Undisturbed(t)' => stack' = stack
         /\ rc = 1 /\ boot # "serving" /\ Undisturbed("adopt")' => stack' = stack
<1> DEFINE s == stack[t]
           more == [stack EXCEPT ![t] = Append(@, p)]
<1>1. s \in Seq(Parts) /\ DOMAIN stack = Targets
  BY DEF TypeOK
<1>2. more[t] = Append(s, p) /\ \A u \in Targets \ {t} : more[u] = stack[u]
  BY <1>1
<1>3. stack' = stack \/ stack' = more
  BY DEF HostMount
<1>4. /\ \A u \in Targets \ {t} : stack'[u] = stack[u]
      /\ ToSet(stack'[t]) \subseteq ToSet(s) \cup {p}
  BY <1>1, <1>2, <1>3, StackFacts
<1>5. disturbed \subseteq disturbed'
  BY DEF HostMount
<1>6. ASSUME rc = 0
      PROVE  /\ Top(t)' = p /\ Len(stack'[t]) = Len(s) + 1
             /\ Undisturbed(t)' => s = << >>
  <2>1. stack' = more /\ Over(t) \subseteq disturbed'
    BY <1>6 DEF HostMount
  <2>2. s # << >> => <<t, "stacked">> \in disturbed'
    BY <2>1 DEF Over
  <2>3. s # << >> => ~Undisturbed(t)'
    BY <2>2 DEF Undisturbed
  <2>4. stack'[t] = Append(s, p)
    BY <1>2, <2>1
  <2>5. stack'[t] # << >> /\ Last(stack'[t]) = p /\ Len(stack'[t]) = Len(s) + 1
    BY <1>1, <2>4, StackFacts
  <2> QED BY <2>3, <2>5 DEF Top
<1>7. ASSUME rc = 1, stack' # stack
      PROVE  ~Undisturbed(t)' /\ (boot # "serving" => ~Undisturbed("adopt")')
  <2>1. {<<t, "slow">>, <<IF boot = "serving" THEN t ELSE "adopt", "slow">>} \subseteq disturbed'
    BY <1>7 DEF HostMount
  <2>2. <<t, "slow">> \in disturbed' /\ (boot # "serving" => <<"adopt", "slow">> \in disturbed')
    BY <2>1
  <2>3. <<t, "slow">>[1] = t /\ <<"adopt", "slow">>[1] = "adopt"
    OBVIOUS
  <2> QED BY <2>2, <2>3 DEF Undisturbed
<1> QED BY <1>4, <1>5, <1>6, <1>7

LEMMA HostUmountStack ==
  ASSUME TypeOK, NEW t \in Targets, NEW rc \in {0, 1}, HostUmount(t, rc)
  PROVE  /\ \A u \in Targets \ {t} : stack'[u] = stack[u]
         /\ disturbed \subseteq disturbed'
         /\ ToSet(stack'[t]) \subseteq ToSet(stack[t])
         /\ Len(stack[t]) <= 1 => stack'[t] = << >>
         /\ rc = 1 /\ Undisturbed(t)' => stack' = stack /\ stack[t] = << >>
<1> DEFINE s == stack[t]
           less == [stack EXCEPT ![t] = Front(@)]
<1>1. s \in Seq(Parts) /\ DOMAIN stack = Targets
  BY DEF TypeOK
<1>2. less[t] = Front(s) /\ \A u \in Targets \ {t} : less[u] = stack[u]
  BY <1>1
<1>3. (stack' = stack /\ s = << >>) \/ (stack' = less /\ s # << >>)
  BY DEF HostUmount
<1>4. \A u \in Targets \ {t} : stack'[u] = stack[u]
  BY <1>2, <1>3
<1>5. ToSet(stack'[t]) \subseteq ToSet(s)
  BY <1>1, <1>2, <1>3, FrontFacts
<1>6. Len(s) <= 1 => stack'[t] = << >>
  BY <1>1, <1>2, <1>3, FrontFacts
<1>7. disturbed \subseteq disturbed'
  BY DEF HostUmount
<1>8. ASSUME rc = 1, Undisturbed(t)' PROVE stack' = stack /\ s = << >>
  <2>1. <<t, "slow">> \notin disturbed'
    BY <1>8 DEF Undisturbed
  <2> QED BY <1>8, <2>1 DEF HostUmount
<1> QED BY <1>4, <1>5, <1>6, <1>7, <1>8

\* A step of one request that leaves the NAS root and storage.json alone, and begins a change
\* of them only when it is counted; the same for the backup drive; and what leaves trust alone.
Others(r) == \A q \in Requests \ {r} : op'[q] = op[q]
Counted(r, t) == r \in Changing(t)' => r \in Changing(t) \/ Overlap(r, t) \subseteq disturbed'

LEMMA OneStays ==
  ASSUME NEW t, OneAtATime(t), NEW r \in Requests, Others(r), Counted(r, t), Undisturbed(t)'
  PROVE  OneAtATime(t)'
<1>1. Changing(t)' \subseteq Changing(t) \cup {r}
  BY DEF Changing, Target, Others
<1>2. CASE r \in Changing(t)' /\ r \notin Changing(t)
  <2>1. <<t, "overlap">> \notin disturbed'
    BY DEF Undisturbed
  <2>2. Changing(t) \ {r} = {}
    BY <1>2, <2>1 DEF Counted, Overlap
  <2> QED BY <1>1, <2>2 DEF OneAtATime
<1>3. CASE r \notin Changing(t)' \/ r \in Changing(t)
  <2>1. Changing(t)' \subseteq Changing(t)
    BY <1>1, <1>3
  <2> QED BY <2>1 DEF OneAtATime
<1> QED BY <1>2, <1>3

LEMMA NasAside ==
  ASSUME NasInv, NEW r \in Requests, Others(r), Counted(r, "nas"), boot = "serving", boot' = boot,
         op[r].pc \notin {"mounted", "unmounted"}, op'[r].pc \notin {"mounted", "unmounted"},
         disturbed \subseteq disturbed', stack'["nas"] = stack["nas"], state' = state
  PROVE  NasInv'
<1>1. NasStarting'
  BY DEF NasStarting
<1>2. SUFFICES ASSUME Undisturbed("nas")' PROVE NasServing'
  BY <1>1 DEF NasInv, NasServing
<1>3. Undisturbed("nas")
  BY <1>2, Calmer
<1>4. OneAtATime("nas")'
  BY <1>2, <1>3, OneStays DEF NasInv, NasServing
<1>5. Top("nas")' = Top("nas")
  BY DEF Top
<1>6. \A q \in Requests : op[q].pc \in {"mounted", "unmounted"} => op'[q] = op[q]
  BY DEF Others
<1>7. \A q \in Requests : op'[q].pc \in {"mounted", "unmounted"} => op'[q] = op[q]
  BY DEF Others
<1> QED BY <1>3, <1>4, <1>5, <1>6, <1>7 DEF NasInv, NasServing

LEMMA DriveAside ==
  ASSUME DriveInv, NEW r \in Requests, Others(r), Counted(r, "backup"), boot = "serving", boot' = boot,
         op[r].pc \notin {"backup_mounted", "backup_unmounted"},
         op'[r].pc \notin {"backup_mounted", "backup_unmounted"},
         disturbed \subseteq disturbed', stack'["backup"] = stack["backup"], drive' = drive
  PROVE  DriveInv'
<1>1. SUFFICES ASSUME Undisturbed("backup")' PROVE BackupStacked' /\ BackupServing'
  BY DEF DriveInv, BackupStacked, BackupServing
<1>3. Undisturbed("backup")
  BY <1>1, Calmer
<1>4. OneAtATime("backup")'
  BY <1>1, <1>3, OneStays DEF DriveInv, BackupServing
<1>5. Top("backup")' = Top("backup")
  BY DEF Top
<1>6. \A q \in Requests : op[q].pc \in {"backup_mounted", "backup_unmounted"} => op'[q] = op[q]
  BY DEF Others
<1>7. \A q \in Requests : op'[q].pc \in {"backup_mounted", "backup_unmounted"} => op'[q] = op[q]
  BY DEF Others
<1> QED BY <1>3, <1>4, <1>5, <1>6, <1>7 DEF DriveInv, BackupStacked, BackupServing

LEMMA TrustAside ==
  ASSUME Trusting, boot = "serving", boot' = boot, UNCHANGED <<marked, trusted, state>>,
         stack'["nas"] = stack["nas"], disturbed \subseteq disturbed'
  PROVE  Trusting'
<1>1. Undisturbed("adopt")' => Undisturbed("adopt")
  BY Calmer
<1> QED BY <1>1 DEF Trusting, Doubtful

LEMMA CalmAside ==
  ASSUME Calm, NEW r \in Requests, Others(r), boot = "serving", boot' = boot,
         op'[r].pc \in NasPhases => Target(r)' = "nas",
         op'[r].pc \in BackupPhases => Target(r)' = "backup"
  PROVE  Calm'
<1>1. \A q \in Requests \ {r} : Target(q)' = Target(q)
  BY DEF Others, Target
<1> QED BY <1>1 DEF Calm, Quiet, Sides, Others

\* All of that together, for a step that touches no mount.
LEMMA PassesBy ==
  ASSUME Agreeing, NEW r \in Requests, Others(r), Counted(r, "nas"), Counted(r, "backup"),
         boot = "serving", boot' = boot, disturbed \subseteq disturbed',
         op[r].pc \notin {"mounted", "unmounted", "backup_mounted", "backup_unmounted"},
         op'[r].pc \notin {"mounted", "unmounted", "backup_mounted", "backup_unmounted"},
         op'[r].pc \in NasPhases => Target(r)' = "nas",
         op'[r].pc \in BackupPhases => Target(r)' = "backup",
         UNCHANGED <<stack, state, drive>>, Trusting'
  PROVE  Agreeing'
  BY NasAside, DriveAside, CalmAside DEF Agreeing

\* A request that is going on is served.
LEMMA GoingIsServed ==
  ASSUME Calm, NEW r \in Requests, op[r].pc \notin {"new", "done"}
  PROVE  boot = "serving"
  BY DEF Calm, Quiet, Going

\* What the request becomes.
LEMMA Becomes ==
  ASSUME TypeOK, NEW r \in Requests
  PROVE  /\ \A pc \in Phases : Goto(r, pc) =>
               Others(r) /\ op'[r].pc = pc /\ op'[r].call = op[r].call /\ op'[r].dev = op[r].dev
         /\ \A call, dev, pc : Begin(r, call, dev, pc) =>
               Others(r) /\ op'[r].pc = pc /\ op'[r].call = call /\ op'[r].dev = dev
         /\ \A dev \in Parts, pc \in Phases : op' = [op EXCEPT ![r].dev = dev, ![r].pc = pc] =>
               Others(r) /\ op'[r].pc = pc /\ op'[r].call = op[r].call /\ op'[r].dev = dev
<1>1. DOMAIN op = Requests /\ op[r] \in Ops
  BY DEF TypeOK
<1>2. ASSUME NEW pc \in Phases, Goto(r, pc)
      PROVE  Others(r) /\ op'[r].pc = pc /\ op'[r].call = op[r].call /\ op'[r].dev = op[r].dev
  <2>1. op' = [op EXCEPT ![r] = [op[r] EXCEPT !.pc = pc]]
    BY <1>2 DEF Goto
  <2> QED BY <1>1, <2>1 DEF Others, Ops
<1>3. ASSUME NEW call, NEW dev, NEW pc, Begin(r, call, dev, pc)
      PROVE  Others(r) /\ op'[r].pc = pc /\ op'[r].call = call /\ op'[r].dev = dev
  BY <1>1, <1>3 DEF Begin, Others
<1>4. ASSUME NEW dev \in Parts, NEW pc \in Phases, op' = [op EXCEPT ![r].dev = dev, ![r].pc = pc]
      PROVE  Others(r) /\ op'[r].pc = pc /\ op'[r].call = op[r].call /\ op'[r].dev = dev
  <2>1. op[r] = [call |-> op[r].call, dev |-> op[r].dev, pc |-> op[r].pc]
    BY <1>1 DEF Ops
  <2> QED BY <1>1, <1>4, <2>1 DEF Others
<1> QED BY <1>2, <1>3, <1>4

\* The calls of an admin: those that will change a mount are counted.
BackupCalls == {"backup_mount", "backup_unmount"}

LEMMA BeginAgreeing ==
  ASSUME TypeOK, Agreeing, NEW r \in Requests, NEW call, NEW dev, NEW pc,
         Served(r, call), Begin(r, call, dev, pc),
         \/ pc \in {"formatting", "done"}
         \/ /\ pc \in {"looking", "mounting", "stopped"} /\ call \notin BackupCalls
            /\ Overlap(r, "nas") \subseteq disturbed'
         \/ /\ pc \in {"looking", "backup_unmounting"} /\ call \in BackupCalls
            /\ Overlap(r, "backup") \subseteq disturbed',
         disturbed \subseteq disturbed', UNCHANGED <<boot, stack, state, drive, marked, trusted>>
  PROVE  Agreeing'
<1>1. Others(r) /\ op'[r].pc = pc /\ op'[r].call = call
  BY Becomes
<1>2. op[r].pc = "new" /\ boot = "serving"
  BY DEF Served, Idle
<1>3. Target(r)' = IF call \in BackupCalls THEN "backup" ELSE "nas"
  BY <1>1 DEF Target, BackupCalls
<1>4. Counted(r, "nas") /\ Counted(r, "backup")
  BY <1>1, <1>3 DEF Counted, Changing
<1>5. Trusting'
  BY <1>2, TrustAside DEF Agreeing
<1>6. op'[r].pc \in NasPhases => Target(r)' = "nas"
  BY <1>1, <1>3 DEF NasPhases
<1>7. op'[r].pc \in BackupPhases => Target(r)' = "backup"
  BY <1>1, <1>3 DEF BackupPhases
<1>8. /\ op[r].pc \notin {"mounted", "unmounted", "backup_mounted", "backup_unmounted"}
      /\ op'[r].pc \notin {"mounted", "unmounted", "backup_mounted", "backup_unmounted"}
  BY <1>1, <1>2
<1> QED BY <1>1, <1>2, <1>4, <1>5, <1>6, <1>7, <1>8, PassesBy

LEMMA CallAgreeing ==
  ASSUME TypeOK, Agreeing, NEW r \in Requests, Call(r)
  PROVE  Agreeing'
<1> USE DEF media, kept, BackupCalls
<1>1. ASSUME NEW p \in Parts, Format(r, p) PROVE Agreeing'
  BY <1>1, BeginAgreeing DEF Format
<1>2. ASSUME NEW p \in Parts, Mount(r, p) \/ BackupMount(r, p) PROVE Agreeing'
  BY <1>2, BeginAgreeing DEF Mount, BackupMount
<1>3. ASSUME NEW d \in Disks, Activate(r, d) PROVE Agreeing'
  BY <1>3, BeginAgreeing DEF Activate
<1>4. ASSUME NEW x \in Parts \cup Disks, Eject(r, x) PROVE Agreeing'
  BY <1>4, BeginAgreeing DEF Eject, StopServices
<1>5. CASE Recover(r)
  BY <1>5, BeginAgreeing DEF Recover
<1>6. CASE Unmount(r) \/ BackupUnmount(r)
  BY <1>6, BeginAgreeing DEF Unmount, StopServices, BackupUnmount
<1> QED BY <1>1, <1>2, <1>3, <1>4, <1>5, <1>6 DEF Call

\* A request that goes on to a step at which it knows no more than others.
LEMMA GoesOnAgreeing ==
  ASSUME TypeOK, Agreeing, NEW r \in Requests, NEW pc \in Phases, Others(r),
         op'[r].pc = pc, op'[r].call = op[r].call,
         op[r].pc \notin {"new", "done", "mounted", "unmounted", "backup_mounted", "backup_unmounted"},
         \/ pc \in {"formatting", "mkfs", "starting", "done"}
         \/ /\ pc = "mounting" /\ Target(r) = "nas"
            /\ r \in Changing("nas") \/ Overlap(r, "nas") \subseteq disturbed'
         \/ pc = "backup_mounting" /\ Target(r) = "backup" /\ r \in Changing("backup"),
         disturbed \subseteq disturbed', UNCHANGED <<boot, stack, state, drive>>, Trusting'
  PROVE  Agreeing'
<1>1. boot = "serving"
  BY GoingIsServed DEF Agreeing
<1>2. Target(r)' = Target(r)
  BY DEF Target
<1>3. Counted(r, "nas") /\ Counted(r, "backup")
  BY <1>2 DEF Counted, Changing
<1>4. /\ op'[r].pc \in NasPhases => Target(r)' = "nas"
      /\ op'[r].pc \in BackupPhases => Target(r)' = "backup"
  BY <1>2 DEF NasPhases, BackupPhases
<1>5. op'[r].pc \notin {"mounted", "unmounted", "backup_mounted", "backup_unmounted"}
  OBVIOUS
<1> QED BY <1>1, <1>3, <1>4, <1>5, PassesBy

LEMMA ConcludeAgreeing ==
  ASSUME TypeOK, Agreeing, NEW r \in Requests, NEW status, Conclude(r, status),
         op[r].pc \notin {"new", "done", "mounted", "unmounted", "backup_mounted", "backup_unmounted"},
         disturbed \subseteq disturbed', UNCHANGED <<boot, stack, state, drive>>, Trusting'
  PROVE  Agreeing'
<1>1. Others(r) /\ op'[r].pc = "done" /\ op'[r].call = op[r].call
  BY Becomes DEF Conclude, Phases
<1> QED BY <1>1, GoesOnAgreeing DEF Phases

\* The looks at the devices. An answer from the cache that says of a drive that it is at the
\* NAS root, when it is not, is counted.
LEMMA LooksAgreeing ==
  ASSUME TypeOK, Known, Agreeing, NEW r \in Requests,
         EraseLook(r) \/ ActivateLook(r) \/ MountLook(r)
  PROVE  Agreeing'
<1> USE DEF media, kept
<1>1. /\ op[r].pc = "looking" /\ disturbed \subseteq disturbed'
      /\ UNCHANGED <<boot, stack, state, drive, marked, trusted>>
  BY DEF EraseLook, ActivateLook, MountLook, At
<1>2. boot = "serving"
  BY <1>1, GoingIsServed DEF Agreeing
<1>3. Trusting'
  BY <1>1, <1>2, TrustAside DEF Agreeing
<1>4. CASE EraseLook(r)
  <2>1. Goto(r, "formatting") \/ Goto(r, "done")
    BY <1>4 DEF EraseLook
  <2> QED BY <1>1, <1>3, <2>1, Becomes, GoesOnAgreeing DEF Phases
<1>5. CASE MountLook(r)
  <2>1. PICK pc \in {"done", "mounting", "backup_mounting"} :
           /\ Goto(r, pc)
           /\ pc = "mounting" => op[r].call = "mount"
           /\ pc = "backup_mounting" => op[r].call = "backup_mount"
    BY <1>5 DEF MountLook
  <2>2. /\ pc = "mounting" => Target(r) = "nas" /\ r \in Changing("nas")
        /\ pc = "backup_mounting" => Target(r) = "backup" /\ r \in Changing("backup")
    BY <1>1, <2>1 DEF Target, Changing
  <2> QED BY <1>1, <1>3, <2>1, <2>2, Becomes, GoesOnAgreeing DEF Phases
<1>6. CASE ActivateLook(r)
  <2>1. Target(r) = "nas" /\ r \in Changing("nas")
    BY <1>1, <1>6 DEF ActivateLook, Target, Changing
  <2>2. CASE Goto(r, "done")
    BY <1>1, <1>3, <2>2, Becomes, GoesOnAgreeing DEF Phases
  <2>3. ASSUME NEW p \in Parts, op' = [op EXCEPT ![r].dev = p, ![r].pc = "mounting"]
        PROVE  Agreeing'
    BY <1>1, <1>3, <2>1, <2>3, Becomes, GoesOnAgreeing DEF Phases
  <2>4. ASSUME NEW p \in Parts, op' = [op EXCEPT ![r].dev = p, ![r].pc = "mounted"],
               Top("nas") # p => <<"nas", "stale">> \in disturbed'
        PROVE  Agreeing'
    <3>1. Others(r) /\ op'[r].pc = "mounted" /\ op'[r].call = op[r].call /\ op'[r].dev = p
      BY <2>4, Becomes DEF Phases
    <3>2. Target(r)' = "nas" /\ Target(r)' = Target(r)
      BY <2>1, <3>1 DEF Target
    <3>3. Counted(r, "nas") /\ Counted(r, "backup")
      BY <2>1, <3>2 DEF Counted, Changing
    <3>4. DriveInv'
      BY <1>1, <1>2, <3>1, <3>3, DriveAside DEF Agreeing
    <3>5. Calm'
      BY <1>1, <1>2, <3>1, <3>2, CalmAside DEF Agreeing, BackupPhases
    <3>6. NasInv'
      <4>1. SUFFICES ASSUME Undisturbed("nas")' PROVE NasServing'
        BY <1>1, <1>2 DEF NasInv, NasServing, NasStarting
      <4>2. Undisturbed("nas") /\ NasServing
        BY <1>1, <4>1, Calmer DEF Agreeing, NasInv
      <4>3. OneAtATime("nas")'
        BY <1>2, <3>1, <3>3, <4>1, <4>2, OneStays DEF NasServing
      <4>4. Top("nas")' = Top("nas")
        BY <1>1 DEF Top
      <4>5. p = Top("nas")
        <5>1. <<"nas", "stale">>[1] = "nas"
          OBVIOUS
        <5> QED BY <2>4, <4>1, <5>1 DEF Undisturbed
      <4>6. \A q \in Requests \ {r} : op'[q] = op[q]
        BY <3>1 DEF Others
      <4> QED BY <1>1, <1>2, <3>1, <4>2, <4>3, <4>4, <4>5, <4>6 DEF NasServing
    <3> QED BY <1>3, <3>4, <3>5, <3>6 DEF Agreeing
  <2> QED BY <1>6, <2>2, <2>3, <2>4 DEF ActivateLook, Best, OnDisk
<1> QED BY <1>4, <1>5, <1>6

\* The helpers. What is mounted, and what storage.json names, stays trusted through a wipe.
LEMMA HelpersAgreeing ==
  ASSUME TypeOK, Known, Agreeing, NEW r \in Requests, StartHelper(r) \/ HelperStalls(r)
  PROVE  Agreeing'
<1> USE DEF media, kept
<1>1. /\ op[r].pc \in {"formatting", "mkfs"} /\ disturbed \subseteq disturbed'
      /\ UNCHANGED <<boot, stack, state, drive>>
  BY DEF StartHelper, HelperStalls, At
<1>2. boot = "serving"
  BY <1>1, GoingIsServed DEF Agreeing
<1>3. Trusting'
  BY <1>1, <1>2, TrustAside DEF Agreeing, StartHelper, HelperStalls
<1>4. CASE Goto(r, "mkfs")
  BY <1>1, <1>3, <1>4, Becomes, GoesOnAgreeing DEF Phases
<1>5. CASE Conclude(r, "failed")
  BY <1>1, <1>3, <1>5, ConcludeAgreeing
<1> QED BY <1>4, <1>5 DEF StartHelper, HelperStalls

LEMMA SameAgreeing ==
  ASSUME Agreeing, UNCHANGED <<boot, op, stack, state, drive, svc>>,
         disturbed \subseteq disturbed', marked' \subseteq marked,
         \A p \in trusted \ trusted' :
            p \notin marked' /\ p # state /\ p \notin ToSet(stack["nas"])
  PROVE  Agreeing'
<1>1. \A t : Undisturbed(t)' => Undisturbed(t)
  BY Calmer
<1>2. \A t : Top(t)' = Top(t) /\ Changing(t)' = Changing(t)
  BY DEF Top, Changing, Target
<1>3. \A r : Target(r)' = Target(r) /\ Going(r)' = Going(r)
  BY DEF Target, Going
<1>4. Calm'
  BY <1>3 DEF Agreeing, Calm, Quiet, Sides
<1>5. NasInv'
  BY <1>1, <1>2 DEF Agreeing, NasInv, NasServing, NasStarting, OneAtATime
<1>6. DriveInv'
  BY <1>1, <1>2 DEF Agreeing, DriveInv, BackupStacked, BackupServing, OneAtATime
<1>7. Trusting'
  BY <1>1, <1>2 DEF Agreeing, Trusting
<1> QED BY <1>4, <1>5, <1>6, <1>7 DEF Agreeing

LEMMA HelperWipesAgreeing ==
  ASSUME Agreeing, NEW m \in mkfs, HelperWipes(m)
  PROVE  Agreeing'
<1>1. /\ UNCHANGED <<boot, op, stack, state, drive, svc, disturbed>>
      /\ marked' = {p \in marked : ~Covers(m, p)}
      /\ trusted' = {p \in trusted : Covers(m, p) => p = state \/ Mounted(p)}
  BY DEF HelperWipes, kept, proc
<1>2. ASSUME NEW p \in trusted \ trusted'
      PROVE  p \notin marked' /\ p # state /\ p \notin ToSet(stack["nas"])
  BY <1>1, <1>2 DEF Mounted, Targets
<1>3. marked' \subseteq marked /\ disturbed \subseteq disturbed'
  BY <1>1
<1> QED BY <1>1, <1>2, <1>3, SameAgreeing

LEMMA HelperEndsAgreeing ==
  ASSUME TypeOK, Known, Agreeing, NEW m \in mkfs, HelperEnds(m)
  PROVE  Agreeing'
<1>0. EndsSomehow(m)
  BY HelperEndsHow
<1>1. /\ disturbed \subseteq disturbed'
      /\ UNCHANGED <<boot, stack, state, drive, marked, trusted, svc>>
  BY <1>0 DEF EndsSomehow
<1>2. CASE m.by = Nobody /\ UNCHANGED op
  <2>1. trusted \ trusted' = {} /\ marked' \subseteq marked
    BY <1>1
  <2> QED BY <1>1, <1>2, <2>1, SameAgreeing
<1>3. CASE m.by # Nobody
  <2> DEFINE r == m.by
  <2>1. r \in Requests /\ m.part \in Parts
    BY <1>3 DEF TypeOK, Helpers
  <2>2. op[r].pc = "mkfs" /\ m = Helper(r, r)
    BY <1>3 DEF Known, HelpersKnown
  <2>3. boot = "serving"
    BY <2>1, <2>2, GoingIsServed DEF Agreeing
  <2>4. Trusting'
    BY <1>1, <2>3, TrustAside DEF Agreeing
  <2>5. CASE \E status \in Finished : Conclude(r, status)
    BY <1>1, <2>1, <2>2, <2>4, <2>5, ConcludeAgreeing
  <2>6. CASE m.whole /\ op' = [op EXCEPT ![r].dev = m.part, ![r].pc = "mounting"]
    <3>1. Others(r) /\ op'[r].pc = "mounting" /\ op'[r].call = op[r].call
      BY <2>1, <2>6, Becomes DEF Phases
    <3>2. op[r].call = "erase"
      BY <2>1, <2>2, <2>6, HelperType DEF Known, Whole
    <3>3. Target(r) = "nas"
      BY <3>2 DEF Target
    <3>4. Overlap(r, "nas") \subseteq disturbed'
      BY <1>3, <2>6 DEF HelperEnds
    <3> QED BY <1>1, <2>1, <2>2, <2>4, <3>1, <3>3, <3>4, GoesOnAgreeing DEF Phases
  <2> QED BY <1>0, <1>3, <2>5, <2>6 DEF EndsSomehow
<1> QED BY <1>0, <1>2, <1>3 DEF EndsSomehow

\* The mount at the NAS root and its save.
LEMMA MountAgreeing ==
  ASSUME TypeOK, Known, Agreeing, NEW r \in Requests, MountNas(r)
  PROVE  Agreeing'
<1> USE DEF media, kept
<1>1. /\ op[r].pc = "mounting" /\ op[r].dev \in Parts
      /\ UNCHANGED <<boot, state, drive, marked>> /\ trusted' = trusted \cup {op[r].dev}
  BY DEF MountNas, At, Known, DevKnown, Fits
<1>2. boot = "serving" /\ Target(r) = "nas" /\ r \in Changing("nas")
  BY <1>1, GoingIsServed DEF Agreeing, Calm, Sides, NasPhases, Changing
<1>3. PICK rc \in {0, 1} :
         /\ HostMount(op[r].dev, "nas", rc)
         /\ IF rc = 0 THEN Goto(r, "mounted") ELSE Conclude(r, "failed")
  BY DEF MountNas
<1>4. Others(r) /\ op'[r].pc = (IF rc = 0 THEN "mounted" ELSE "done")
      /\ op'[r].call = op[r].call /\ op'[r].dev = op[r].dev
  BY <1>3, Becomes DEF Conclude, Phases
<1>5. Target(r)' = "nas"
  BY <1>2, <1>4 DEF Target
<1>6. Counted(r, "nas") /\ Counted(r, "backup")
  BY <1>2, <1>5 DEF Counted, Changing
<1>7. "nas" \in Targets /\ "backup" \in Targets \ {"nas"}
  BY DEF Targets
<1>8. /\ stack'["backup"] = stack["backup"] /\ disturbed \subseteq disturbed'
      /\ ToSet(stack'["nas"]) \subseteq ToSet(stack["nas"]) \cup {op[r].dev}
  <2>1. /\ \A u \in Targets \ {"nas"} : stack'[u] = stack[u]
        /\ disturbed \subseteq disturbed'
        /\ ToSet(stack'["nas"]) \subseteq ToSet(stack["nas"]) \cup {op[r].dev}
    <3>1. PICK p \in Parts : p = op[r].dev
      BY <1>1
    <3>2. HostMount(p, "nas", rc)
      BY <1>3, <3>1
    <3>3. /\ \A u \in Targets \ {"nas"} : stack'[u] = stack[u]
          /\ disturbed \subseteq disturbed'
          /\ ToSet(stack'["nas"]) \subseteq ToSet(stack["nas"]) \cup {p}
      BY <1>7, <3>2, HostMountStack
    <3> QED BY <3>1, <3>3
  <2> QED BY <1>7, <2>1
<1>9. DriveInv' /\ Calm'
  BY <1>1, <1>2, <1>4, <1>5, <1>6, <1>8, DriveAside, CalmAside DEF Agreeing, BackupPhases
<1>10. Trusting'
  <2>1. Undisturbed("adopt")' => Undisturbed("adopt")
    BY <1>8, Calmer
  <2> QED BY <1>1, <1>2, <1>8, <2>1 DEF Agreeing, Trusting, Doubtful
<1>11. NasInv'
  <2>1. SUFFICES ASSUME Undisturbed("nas")' PROVE NasServing'
    BY <1>1, <1>2 DEF NasInv, NasServing, NasStarting
  <2>2. Undisturbed("nas") /\ NasServing
    BY <1>8, <2>1, Calmer DEF Agreeing, NasInv
  <2>3. OneAtATime("nas")'
    BY <1>2, <1>4, <1>6, <2>1, <2>2, OneStays DEF NasServing
  <2>4. \A q \in Requests \ {r} : op'[q] = op[q]
    BY <1>4 DEF Others
  <2>5. \A q \in Requests \ {r} : op[q].pc \notin {"mounted", "unmounted"}
    <3>1. \A q \in Requests : op[q].pc \in {"mounted", "unmounted"} => q \in Changing("nas")
      BY DEF Agreeing, Calm, Sides, NasPhases, Changing
    <3> QED BY <1>2, <2>2, <3>1 DEF NasServing, OneAtATime
  <2>6. state = Top("nas")
    BY <1>1, <1>2, <2>2, <2>5 DEF NasServing
  <2>7. CASE rc = 0
    <3>1. stack["nas"] = << >> /\ Top("nas")' = op[r].dev /\ Len(stack'["nas"]) = Len(stack["nas"]) + 1
      BY <1>1, <1>3, <1>7, <2>1, <2>7, HostMountStack
    <3>2. Len(stack'["nas"]) <= 1
      BY <3>1
    <3> QED BY <1>1, <1>2, <1>4, <2>3, <2>4, <2>5, <2>7, <3>1, <3>2 DEF NasServing
  <2>8. CASE rc = 1
    <3>1. stack' = stack
      BY <1>1, <1>3, <1>7, <2>1, <2>8, HostMountStack
    <3>2. Top("nas")' = Top("nas")
      BY <3>1 DEF Top
    <3> QED BY <1>1, <1>2, <1>4, <2>2, <2>3, <2>4, <2>5, <2>6, <2>8, <3>1, <3>2 DEF NasServing
  <2> QED BY <2>7, <2>8
<1> QED BY <1>9, <1>10, <1>11 DEF Agreeing

\* The save: what the request mounted is on top, or has been overtaken by another change.
LEMMA SettleAgreeing ==
  ASSUME TypeOK, Known, Agreeing, NEW r \in Requests, Settle(r), state' = op[r].dev,
         Goto(r, "starting"), disturbed' = disturbed,
         trusted' = trusted \cup Marks(r) \cup {op[r].dev}, marked' = marked \cup Marks(r)
  PROVE  Agreeing'
<1> USE DEF media, kept
<1>1. /\ op[r].pc = "mounted" /\ op[r].dev \in Parts
      /\ UNCHANGED <<boot, stack, drive, disturbed>> /\ state' = op[r].dev
  BY DEF Settle, At, Known, DevKnown, Fits
<1>2. boot = "serving" /\ Target(r) = "nas" /\ r \in Changing("nas")
  BY <1>1, GoingIsServed DEF Agreeing, Calm, Sides, NasPhases, Changing
<1>3. PICK here : marked' = marked \cup here /\ trusted' = trusted \cup here \cup {op[r].dev}
  OBVIOUS
<1>4. Others(r) /\ op'[r].pc = "starting" /\ op'[r].call = op[r].call
  BY Becomes DEF Phases
<1>6. Counted(r, "nas") /\ Counted(r, "backup")
  BY <1>4 DEF Counted, Changing
<1>9. DriveInv' /\ Calm'
  BY <1>1, <1>2, <1>4, <1>6, DriveAside, CalmAside DEF Agreeing, NasPhases, BackupPhases
<1>10. Trusting'
  <2>1. Undisturbed("adopt")' => Undisturbed("adopt")
    BY <1>1, Calmer
  <2> QED BY <1>1, <1>2, <1>3, <2>1 DEF Agreeing, Trusting, Doubtful
<1>11. NasInv'
  <2>1. SUFFICES ASSUME Undisturbed("nas")' PROVE NasServing'
    BY <1>1, <1>2 DEF NasInv, NasServing, NasStarting
  <2>2. Undisturbed("nas") /\ NasServing
    BY <1>1, <2>1, Calmer DEF Agreeing, NasInv
  <2>3. OneAtATime("nas")'
    BY <1>2, <1>4, <1>6, <2>1, <2>2, OneStays DEF NasServing
  <2>4. \A q \in Requests \ {r} : op'[q] = op[q]
    BY <1>4 DEF Others
  <2>5. Top("nas")' = op[r].dev
    BY <1>1, <1>2, <2>2 DEF NasServing, Top
  <2>6. \A q \in Requests \ {r} : op[q].pc \notin {"mounted", "unmounted"}
    <3>1. \A q \in Requests : op[q].pc \in {"mounted", "unmounted"} => q \in Changing("nas")
      BY DEF Agreeing, Calm, Sides, NasPhases, Changing
    <3> QED BY <1>2, <2>2, <3>1 DEF NasServing, OneAtATime
  <2> QED BY <1>1, <1>2, <1>4, <2>2, <2>3, <2>4, <2>5, <2>6 DEF NasServing
<1> QED BY <1>9, <1>10, <1>11 DEF Agreeing

\* A save that fails leaves the drive mounted, which the history notes.
LEMMA UnsavedAgreeing ==
  ASSUME TypeOK, Agreeing, NEW r \in Requests, NEW pc \in {"done"}, Others(r), op'[r].pc = pc,
         op'[r].call = op[r].call, op[r].pc \in {"mounted", "unmounted"},
         <<"nas", "unsaved">> \in disturbed', disturbed \subseteq disturbed',
         UNCHANGED <<boot, stack, state, drive>>, Trusting'
  PROVE  Agreeing'
<1>1. boot = "serving"
  BY GoingIsServed DEF Agreeing
<1>2. Counted(r, "nas") /\ Counted(r, "backup")
  BY DEF Counted, Changing
<1>3. DriveInv' /\ Calm'
  BY <1>1, <1>2, DriveAside, CalmAside DEF Agreeing, NasPhases, BackupPhases
<1>4. NasInv'
  <2>1. ~Undisturbed("nas")'
    <3>1. <<"nas", "unsaved">>[1] = "nas"
      OBVIOUS
    <3> QED BY <3>1 DEF Undisturbed
  <2> QED BY <2>1 DEF NasInv, NasServing, NasStarting
<1> QED BY <1>3, <1>4 DEF Agreeing

LEMMA SettlesAgreeing ==
  ASSUME TypeOK, Known, Agreeing, NEW r \in Requests, Settle(r)
  PROVE  Agreeing'
<1> USE DEF media, kept
<1>1. CASE /\ state' = op[r].dev /\ marked' = marked \cup Marks(r)
           /\ trusted' = trusted \cup Marks(r) \cup {op[r].dev}
           /\ Goto(r, "starting") /\ disturbed' = disturbed
  BY <1>1, SettleAgreeing
<1>2. CASE /\ marked' \in {marked, marked \cup Marks(r)} /\ trusted' = trusted \cup Marks(r)
           /\ disturbed' = disturbed \cup {<<"nas", "unsaved">>}
           /\ Conclude(r, "failed") /\ state' = state
  <2>1. op[r].pc = "mounted" /\ UNCHANGED <<boot, stack, drive, svc>>
    BY DEF Settle, At
  <2>2. boot = "serving"
    BY <2>1, GoingIsServed DEF Agreeing
  <2>3. Others(r) /\ op'[r].pc = "done" /\ op'[r].call = op[r].call
    BY <1>2, Becomes DEF Conclude, Phases
  <2>4. Trusting'
    <3>1. Undisturbed("adopt")' => Undisturbed("adopt")
      BY <1>2, Calmer
    <3> QED BY <1>2, <2>1, <2>2, <3>1 DEF Agreeing, Trusting, Doubtful
  <2> QED BY <1>2, <2>1, <2>3, <2>4, UnsavedAgreeing
<1> QED BY <1>1, <1>2 DEF Settle

LEMMA ServicesAgreeing ==
  ASSUME TypeOK, Agreeing, NEW r \in Requests, StartServices(r)
  PROVE  Agreeing'
<1> USE DEF media, kept
<1>1. /\ op[r].pc = "starting" /\ Conclude(r, "completed")
      /\ UNCHANGED <<boot, stack, state, drive, marked, trusted, disturbed>>
  BY DEF StartServices, At
<1>2. boot = "serving"
  BY <1>1, GoingIsServed DEF Agreeing
<1>3. Trusting'
  BY <1>1, <1>2, TrustAside DEF Agreeing
<1> QED BY <1>1, <1>3, ConcludeAgreeing

\* The unmount of the NAS root and its save.
LEMMA UmountAgreeing ==
  ASSUME TypeOK, Known, Agreeing, NEW r \in Requests,
         UmountNas(r) \/ (ClearState(r) /\ state' = Nobody /\ disturbed' = disturbed)
  PROVE  Agreeing'
<1> USE DEF media, kept
<1>1. PICK pc \in {"unmounted", "done"} :
         /\ Goto(r, pc) /\ op[r].pc \in {"stopped", "unmounted"}
         /\ UNCHANGED <<boot, drive, marked, trusted>>
  BY DEF UmountNas, ClearState, At
<1>2. boot = "serving" /\ Target(r) = "nas" /\ r \in Changing("nas")
  BY <1>1, GoingIsServed DEF Agreeing, Calm, Sides, NasPhases, Changing
<1>4. Others(r) /\ op'[r].pc = pc /\ op'[r].call = op[r].call
  BY <1>1, Becomes DEF Phases
<1>5. Target(r)' = "nas"
  BY <1>2, <1>4 DEF Target
<1>6. Counted(r, "nas") /\ Counted(r, "backup")
  BY <1>2, <1>5 DEF Counted, Changing
<1>7. "nas" \in Targets /\ "backup" \in Targets \ {"nas"}
  BY DEF Targets
<1>8. /\ stack'["backup"] = stack["backup"] /\ disturbed \subseteq disturbed'
      /\ ToSet(stack'["nas"]) \subseteq ToSet(stack["nas"])
  <2>1. CASE UmountNas(r)
    BY <1>7, <2>1, HostUmountStack DEF UmountNas
  <2>2. CASE ClearState(r)
    BY <2>2 DEF ClearState
  <2> QED BY <2>1, <2>2
<1>9. DriveInv' /\ Calm'
  BY <1>1, <1>2, <1>4, <1>5, <1>6, <1>8, DriveAside, CalmAside DEF Agreeing, BackupPhases
<1>10. Trusting'
  <2>1. Undisturbed("adopt")' => Undisturbed("adopt")
    BY <1>8, Calmer
  <2>2. state' \in {state, Nobody}
    BY DEF UmountNas, ClearState
  <2> QED BY <1>1, <1>2, <1>8, <2>1, <2>2 DEF Agreeing, Trusting, Doubtful
<1>11. NasInv'
  <2>1. SUFFICES ASSUME Undisturbed("nas")' PROVE NasServing'
    BY <1>1, <1>2 DEF NasInv, NasServing, NasStarting
  <2>2. Undisturbed("nas") /\ NasServing
    BY <1>8, <2>1, Calmer DEF Agreeing, NasInv
  <2>3. OneAtATime("nas")'
    BY <1>2, <1>4, <1>6, <2>1, <2>2, OneStays DEF NasServing
  <2>4. \A q \in Requests \ {r} : op'[q] = op[q]
    BY <1>4 DEF Others
  <2>5. \A q \in Requests \ {r} : op[q].pc \notin {"mounted", "unmounted"}
    <3>1. \A q \in Requests : op[q].pc \in {"mounted", "unmounted"} => q \in Changing("nas")
      BY DEF Agreeing, Calm, Sides, NasPhases, Changing
    <3> QED BY <1>2, <2>2, <3>1 DEF NasServing, OneAtATime
  <2>6. Len(stack["nas"]) <= 1
    BY <1>2, <2>2 DEF NasServing
  <2>7. CASE UmountNas(r)
    <3>1. PICK rc \in {0, 1} : HostUmount("nas", rc) /\ Goto(r, IF rc = 0 THEN "unmounted" ELSE "done")
      BY <2>7 DEF UmountNas
    <3>2. state' = state /\ state = Top("nas")
      BY <1>2, <2>2, <2>5, <2>7 DEF NasServing, UmountNas, At
    <3>3. stack'["nas"] = << >> /\ Len(stack'["nas"]) <= 1
      BY <1>7, <2>6, <3>1, HostUmountStack
    <3>4. CASE rc = 0
      <4>1. op'[r].pc = "unmounted"
        BY <3>1, <3>4, Becomes DEF Phases
      <4> QED BY <1>1, <1>2, <2>3, <2>4, <2>5, <3>3, <4>1 DEF NasServing
    <3>5. CASE rc = 1
      <4>1. op'[r].pc = "done"
        BY <3>1, <3>5, Becomes DEF Phases
      <4>2. stack' = stack
        BY <1>7, <2>1, <3>1, <3>5, HostUmountStack
      <4>3. Top("nas")' = Top("nas")
        BY <4>2 DEF Top
      <4> QED BY <1>1, <1>2, <2>3, <2>4, <2>5, <3>2, <3>3, <4>1, <4>3 DEF NasServing
    <3> QED BY <3>4, <3>5
  <2>8. CASE ClearState(r) /\ state' = Nobody
    <3>1. stack' = stack /\ state' = Nobody /\ op[r].pc = "unmounted" /\ op'[r].pc = "done"
      BY <2>8, Becomes DEF ClearState, At, Phases
    <3>2. stack["nas"] = << >>
      BY <1>2, <2>2, <3>1 DEF NasServing
    <3>3. Top("nas")' = Nobody
      BY <3>1, <3>2 DEF Top
    <3> QED BY <1>1, <1>2, <2>3, <2>4, <2>5, <2>6, <3>1, <3>3 DEF NasServing
  <2> QED BY <2>7, <2>8
<1> QED BY <1>9, <1>10, <1>11 DEF Agreeing

LEMMA UmountsAgreeing ==
  ASSUME TypeOK, Known, Agreeing, NEW r \in Requests, UmountNas(r) \/ ClearState(r)
  PROVE  Agreeing'
<1> USE DEF media, kept
<1>1. CASE UmountNas(r) \/ (ClearState(r) /\ state' = Nobody /\ disturbed' = disturbed)
  BY <1>1, UmountAgreeing
<1>2. CASE /\ ClearState(r) /\ state' = state
           /\ disturbed' = disturbed \cup {<<"nas", "unsaved">>}
  <2>1. /\ op[r].pc = "unmounted" /\ Goto(r, "done")
        /\ UNCHANGED <<boot, stack, drive, marked, trusted>>
    BY <1>2 DEF ClearState, At
  <2>2. boot = "serving"
    BY <2>1, GoingIsServed DEF Agreeing
  <2>3. Others(r) /\ op'[r].pc = "done" /\ op'[r].call = op[r].call
    BY <2>1, Becomes DEF Phases
  <2>4. Trusting'
    BY <1>2, <2>1, <2>2, TrustAside DEF Agreeing
  <2> QED BY <1>2, <2>1, <2>3, <2>4, UnsavedAgreeing
<1> QED BY <1>1, <1>2 DEF ClearState

\* The backup drive: its mount, its unmount, and the save of either.
LEMMA BackupAgreeing ==
  ASSUME TypeOK, Known, Agreeing, NEW r \in Requests, BackupHost(r) \/ BackupSave(r)
  PROVE  Agreeing'
<1> USE DEF media, kept
<1> DEFINE Saving == {"backup_mounted", "backup_unmounted"}
<1>1. /\ op[r].pc \in BackupPhases
      /\ UNCHANGED <<boot, state, marked, trusted>>
  BY DEF BackupHost, BackupSave, At, BackupPhases
<1>2. boot = "serving" /\ Target(r) = "backup" /\ r \in Changing("backup")
  BY <1>1, GoingIsServed DEF Agreeing, Calm, Sides, BackupPhases, Changing
<1>3. PICK pc \in Saving \cup {"done"} : Goto(r, pc)
  <2>1. CASE BackupHost(r)
    BY <2>1 DEF BackupHost
  <2>2. CASE BackupSave(r)
    BY <2>2 DEF BackupSave
  <2> QED BY <2>1, <2>2
<1>4. Others(r) /\ op'[r].pc = pc /\ op'[r].call = op[r].call /\ op'[r].dev = op[r].dev
  BY <1>3, Becomes DEF Phases
<1>5. Target(r)' = "backup"
  BY <1>2, <1>4 DEF Target
<1>6. Counted(r, "nas") /\ Counted(r, "backup")
  BY <1>2, <1>5 DEF Counted, Changing
<1>7. "backup" \in Targets /\ "nas" \in Targets \ {"backup"}
  BY DEF Targets
<1>8. stack'["nas"] = stack["nas"] /\ disturbed \subseteq disturbed'
  <2>1. ASSUME NEW rc \in {0, 1}, At(r, "backup_mounting"), HostMount(op[r].dev, "backup", rc)
        PROVE  stack'["nas"] = stack["nas"] /\ disturbed \subseteq disturbed'
    <3>1. op[r].dev \in Parts
      BY <2>1 DEF At, Known, DevKnown, Fits
    <3> QED BY <1>7, <2>1, <3>1, HostMountStack
  <2>2. ASSUME NEW rc \in {0, 1}, HostUmount("backup", rc)
        PROVE  stack'["nas"] = stack["nas"] /\ disturbed \subseteq disturbed'
    BY <1>7, <2>2, HostUmountStack
  <2> QED BY <2>1, <2>2 DEF BackupHost, BackupSave
<1>9. NasInv' /\ Calm'
  BY <1>1, <1>2, <1>4, <1>5, <1>6, <1>8, NasAside, CalmAside DEF Agreeing, NasPhases, BackupPhases
<1>10. Trusting'
  BY <1>1, <1>2, <1>8, TrustAside DEF Agreeing
<1>11. DriveInv'
  <2>1. SUFFICES ASSUME Undisturbed("backup")' PROVE BackupStacked' /\ BackupServing'
    BY DEF DriveInv, BackupStacked, BackupServing
  <2>2. Undisturbed("backup") /\ BackupServing /\ Len(stack["backup"]) <= 1
    BY <1>2, <1>8, <2>1, Calmer DEF Agreeing, DriveInv, BackupStacked
  <2>3. OneAtATime("backup")'
    BY <1>2, <1>4, <1>6, <2>1, <2>2, OneStays DEF BackupServing
  <2>4. \A q \in Requests \ {r} : op'[q] = op[q]
    BY <1>4 DEF Others
  <2>5. \A q \in Requests \ {r} : op[q].pc \notin Saving
    <3>1. \A q \in Requests : op[q].pc \in Saving => q \in Changing("backup")
      BY DEF Agreeing, Calm, Sides, BackupPhases, Changing
    <3> QED BY <1>2, <2>2, <3>1 DEF BackupServing, OneAtATime
  <2>6. op[r].pc \notin Saving => drive \in {Top("backup"), Nobody}
    BY <1>2, <2>2, <2>5 DEF BackupServing
  <2>7. ASSUME NEW rc \in {0, 1}, At(r, "backup_mounting"), HostMount(op[r].dev, "backup", rc),
               Goto(r, IF rc = 0 THEN "backup_mounted" ELSE "done"), drive' = drive
        PROVE  BackupStacked' /\ BackupServing'
    <3>1. op[r].dev \in Parts
      BY <2>7 DEF At, Known, DevKnown, Fits
    <3>2. CASE rc = 0
      <4>1. op'[r].pc = "backup_mounted"
        BY <2>7, <3>2, Becomes DEF Phases
      <4>2. stack["backup"] = << >> /\ Top("backup")' = op[r].dev /\ Len(stack'["backup"]) = Len(stack["backup"]) + 1
        BY <1>7, <2>1, <2>7, <3>1, <3>2, HostMountStack
      <4>3. Len(stack'["backup"]) <= 1
        BY <4>2
      <4> QED BY <1>1, <1>2, <1>4, <2>3, <2>4, <2>5, <4>1, <4>2, <4>3 DEF BackupStacked, BackupServing
    <3>3. CASE rc = 1
      <4>1. op'[r].pc = "done"
        BY <2>7, <3>3, Becomes DEF Phases
      <4>2. stack' = stack
        BY <1>7, <2>1, <2>7, <3>1, <3>3, HostMountStack
      <4>3. Top("backup")' = Top("backup") /\ drive \in {Top("backup"), Nobody}
        BY <2>6, <2>7, <4>2 DEF Top, At
      <4> QED BY <1>1, <1>2, <2>2, <2>3, <2>4, <2>5, <2>7, <4>1, <4>2, <4>3 DEF BackupStacked, BackupServing
    <3> QED BY <3>2, <3>3
  <2>8. ASSUME NEW rc \in {0, 1}, At(r, "backup_unmounting"), HostUmount("backup", rc),
               Goto(r, IF rc = 0 THEN "backup_unmounted" ELSE "done"), drive' = drive
        PROVE  BackupStacked' /\ BackupServing'
    <3>1. stack'["backup"] = << >> /\ Len(stack'["backup"]) <= 1
      BY <1>7, <2>2, <2>8, HostUmountStack
    <3>2. CASE rc = 0
      <4>1. op'[r].pc = "backup_unmounted"
        BY <2>8, <3>2, Becomes DEF Phases
      <4> QED BY <1>1, <1>2, <2>3, <2>4, <2>5, <3>1, <4>1 DEF BackupStacked, BackupServing
    <3>3. CASE rc = 1
      <4>1. op'[r].pc = "done"
        BY <2>8, <3>3, Becomes DEF Phases
      <4>2. stack' = stack
        BY <1>7, <2>1, <2>8, <3>3, HostUmountStack
      <4>3. Top("backup")' = Top("backup") /\ drive \in {Top("backup"), Nobody}
        BY <2>6, <2>8, <4>2 DEF Top, At
      <4> QED BY <1>1, <1>2, <2>3, <2>4, <2>5, <2>8, <3>1, <4>1, <4>3 DEF BackupStacked, BackupServing
    <3> QED BY <3>2, <3>3
  <2>9. CASE BackupSave(r) /\ disturbed' = disturbed \cup {<<"backup", "unsaved">>}
    <3>1. <<"backup", "unsaved">>[1] = "backup"
      OBVIOUS
    <3> QED BY <2>1, <2>9, <3>1 DEF Undisturbed
  <2>10. CASE BackupSave(r) /\ drive' = IF At(r, "backup_mounted") THEN op[r].dev ELSE Nobody
    <3>1. /\ op'[r].pc = "done" /\ stack' = stack
          /\ \/ op[r].pc = "backup_mounted" /\ drive' = op[r].dev
             \/ drive' = Nobody
      BY <2>10, Becomes DEF BackupSave, At, Phases
    <3>2. Top("backup")' = Top("backup")
      BY <3>1 DEF Top
    <3>3. drive' \in {Top("backup")', Nobody}
      BY <1>2, <2>2, <3>1, <3>2 DEF BackupServing
    <3> QED BY <1>1, <1>2, <2>2, <2>3, <2>4, <2>5, <3>1, <3>3 DEF BackupStacked, BackupServing
  <2>11. CASE BackupHost(r)
    BY <2>7, <2>8, <2>11 DEF BackupHost
  <2> QED BY <2>9, <2>10, <2>11 DEF BackupSave
<1> QED BY <1>9, <1>10, <1>11 DEF Agreeing

\* The start of the process. Nobody else is about, and what it finds mounted, or mounts, is what
\* it saves; an adopted drive is served only once its marker has been seen.
LEMMA StartCalm ==
  ASSUME Calm, Boot
  PROVE  Calm' /\ \A r \in Requests : op'[r].pc \in {"new", "done"}
<1>1. op' = op
  BY DEF Boot, BootBegin, BootMount, BootScan, BootCheck, BootReject, BootBackup, Busyless
<1>2. boot # "serving" /\ boot' \in BootPhases
  BY DEF Boot, BootBegin, BootMount, BootUnsaved, BootScan, BootCheck, BootReject, BootBackup,
         BootStep, BootPhases
<1>3. \A r \in Requests : Going(r)' = Going(r) /\ Target(r)' = Target(r) /\ ~Going(r)
  BY <1>1, <1>2 DEF Going, Target, Calm, Quiet
<1>4. \A r \in Requests : op'[r].pc \in {"new", "done"}
  BY <1>1, <1>3 DEF Going
<1> QED BY <1>1, <1>2, <1>3, <1>4 DEF Calm, Quiet, Sides

LEMMA NobodyChanges ==
  ASSUME \A r \in Requests : op[r].pc \in {"new", "done"}
  PROVE  \A t : Changing(t) = {}
  BY DEF Changing

LEMMA BootBeginAgreeing ==
  ASSUME TypeOK, Known, Agreeing, BootBegin
  PROVE  Agreeing'
<1> USE DEF media, kept
<1> DEFINE s == stack["nas"]
<1>1. Calm'
  BY StartCalm DEF Agreeing, Boot
<1>2. /\ UNCHANGED <<stack, marked, trusted, svc, drive>>
      /\ boot' \in {"backup", "mount", "scan"}
      /\ s # << >> => boot' = "backup" /\ state' = Head(s)
      /\ s = << >> => boot' \in {"mount", "scan"} /\ state' \in {state, Nobody}
      /\ boot' = "scan" => state' = Nobody
  BY DEF BootBegin
<1>3. \A t \in Targets : Undisturbed(t)' => Len(stack[t]) <= 1
  <2> SUFFICES ASSUME NEW t \in Targets, Len(stack[t]) > 1 PROVE ~Undisturbed(t)'
    <3>1. \A t \in Targets : Len(stack[t]) \in Nat
      BY DEF TypeOK
    <3> QED BY <3>1
  <2>1. <<t, "stacked">> \in disturbed' /\ <<t, "stacked">>[1] = t
    BY DEF BootBegin
  <2> QED BY <2>1 DEF Undisturbed
<1>4. s \in Seq(Parts) /\ "nas" \in Targets /\ "backup" \in Targets
  BY DEF TypeOK, Targets
<1>5. NasInv'
  <2>1. ASSUME Undisturbed("nas")', s # << >> PROVE Len(s) <= 1 /\ state' = Top("nas")'
    BY <1>2, <1>3, <1>4, <2>1, FrontFacts DEF Top
  <2> QED BY <1>2, <2>1 DEF NasInv, NasServing, NasStarting
<1>6. DriveInv'
  BY <1>2, <1>3, <1>4 DEF DriveInv, BackupStacked, BackupServing
<1>7. Trusting'
  <2>1. Undisturbed("adopt")' => Undisturbed("adopt")
    BY DEF BootBegin, Undisturbed
  <2>2. Undisturbed("adopt")' /\ s = << >> => ~svc
    <3>1. <<"adopt", "leftover">>[1] = "adopt"
      OBVIOUS
    <3> QED BY <3>1 DEF BootBegin, Undisturbed
  <2>3. boot = "down"
    BY DEF BootBegin
  <2>4. s # << >> => Head(s) \in ToSet(s)
    BY <1>4, FrontFacts
  <2> QED BY <1>2, <2>1, <2>2, <2>3, <2>4 DEF Agreeing, Trusting, Doubtful
<1> QED BY <1>1, <1>5, <1>6, <1>7 DEF Agreeing

LEMMA BootMountAgreeing ==
  ASSUME TypeOK, Known, Agreeing, BootMount, ~BootUnsaved
  PROVE  Agreeing'
<1> USE DEF media, kept
<1>1. Calm'
  BY StartCalm DEF Agreeing, Boot
<1>2. boot = "mount" /\ found \in Parts /\ UNCHANGED <<drive, trusted, found>>
  BY DEF BootMount, Known, DevKnown
<1>3. PICK p \in Parts : p = found
  BY <1>2
<1>4. PICK rc \in {0, 1} :
         /\ HostMount(p, "nas", rc)
         /\ IF rc = 0
            THEN /\ state' = p
                 /\ boot' = IF state = p THEN "backup" ELSE "check"
                 /\ svc' = (svc \/ state = p)
                 /\ marked' = IF state = p THEN marked \cup {p} ELSE marked
            ELSE /\ state' = Nobody
                 /\ boot' = IF state = p THEN "scan" ELSE "backup"
                 /\ UNCHANGED <<svc, marked>>
  BY <1>3 DEF BootMount
<1>5. "nas" \in Targets /\ "backup" \in Targets \ {"nas"}
  BY DEF Targets
<1>6. /\ stack'["backup"] = stack["backup"] /\ disturbed \subseteq disturbed'
      /\ ToSet(stack'["nas"]) \subseteq ToSet(stack["nas"]) \cup {p}
  <2>1. HostMount(p, "nas", rc)
    BY <1>4
  <2>2. /\ \A u \in Targets \ {"nas"} : stack'[u] = stack[u]
        /\ disturbed \subseteq disturbed'
        /\ ToSet(stack'["nas"]) \subseteq ToSet(stack["nas"]) \cup {p}
    BY <1>5, <2>1, HostMountStack
  <2> QED BY <1>5, <2>2
<1>7. DriveInv'
  <2>1. Undisturbed("backup")' => Undisturbed("backup")
    BY <1>6, Calmer
  <2> QED BY <1>2, <1>4, <1>6, <2>1 DEF Agreeing, DriveInv, BackupStacked, BackupServing
<1>8. Undisturbed("nas")' => Undisturbed("nas")
  BY <1>6, Calmer
<1>9. Undisturbed("adopt")' => Undisturbed("adopt")
  BY <1>6, Calmer
<1>10. Len(<< >>) = 0
  OBVIOUS
<1>11. CASE rc = 0
  <2>1. /\ Top("nas")' = p /\ Len(stack'["nas"]) = Len(stack["nas"]) + 1
        /\ boot' \in {"backup", "check"} /\ state' = p
    BY <1>4, <1>5, <1>11, HostMountStack
  <2>2. NasInv'
    <3>1. Undisturbed("nas")' => stack["nas"] = << >>
      BY <1>2, <1>8 DEF Agreeing, NasInv, NasStarting
    <3>2. Undisturbed("nas")' => Len(stack'["nas"]) <= 1
      BY <1>10, <2>1, <3>1
    <3> QED BY <2>1, <3>2 DEF NasInv, NasServing, NasStarting
  <2>3. Trusting'
    <3> SUFFICES ASSUME Undisturbed("adopt")' PROVE Trusting'
      BY DEF Trusting
    <3>1. /\ marked \subseteq trusted /\ stack["nas"] = << >> /\ ~svc
          /\ ToSet(stack["nas"]) \subseteq trusted /\ state \in trusted \cup {Nobody}
      BY <1>2, <1>9 DEF Agreeing, Trusting, Doubtful
    <3>2. Len(stack'["nas"]) = 1
      BY <1>10, <2>1, <3>1
    <3>3. CASE state = p
      <4>1. p \in trusted
        BY <3>1, <3>3, StorageAssumption
      <4>2. boot' = "backup" /\ state' = p /\ marked' = marked \cup {p} /\ trusted' = trusted
        BY <1>2, <1>4, <1>11, <3>3
      <4> QED BY <1>6, <3>1, <4>1, <4>2 DEF Trusting, Doubtful
    <3>4. CASE state # p
      <4>1. boot' = "check" /\ marked' = marked /\ trusted' = trusted /\ ~svc'
        BY <1>2, <1>4, <1>11, <3>1, <3>4
      <4> QED BY <2>1, <3>1, <3>2, <4>1 DEF Trusting, Doubtful
    <3> QED BY <3>3, <3>4
  <2> QED BY <1>1, <1>7, <2>2, <2>3 DEF Agreeing
<1>12. CASE rc = 1
  <2>1. /\ state' = Nobody /\ boot' \in {"scan", "backup"} /\ UNCHANGED <<svc, marked, trusted>>
    BY <1>2, <1>4, <1>12
  <2>2. NasInv'
    <3>1. Undisturbed("nas")' => stack'["nas"] = << >>
      <4>1. Undisturbed("nas")' => stack' = stack
        BY <1>4, <1>5, <1>12, HostMountStack
      <4> QED BY <1>2, <1>8, <4>1 DEF Agreeing, NasInv, NasStarting
    <3>2. Undisturbed("nas")' => Top("nas")' = Nobody /\ Len(stack'["nas"]) <= 1
      BY <1>10, <3>1 DEF Top
    <3> QED BY <2>1, <3>1, <3>2 DEF NasInv, NasServing, NasStarting
  <2>3. Trusting'
    <3>1. Undisturbed("adopt")' => stack' = stack
      BY <1>2, <1>4, <1>5, <1>12, HostMountStack
    <3> QED BY <1>2, <1>9, <2>1, <3>1 DEF Agreeing, Trusting, Doubtful
  <2> QED BY <1>1, <1>7, <2>2, <2>3 DEF Agreeing
<1> QED BY <1>11, <1>12

LEMMA BootUnsavedAgreeing ==
  ASSUME TypeOK, Known, Agreeing, BootMount, BootUnsaved
  PROVE  Agreeing'
<1> USE DEF media, kept
<1> DEFINE s == stack["nas"]
<1>1. Calm'
  BY StartCalm DEF Agreeing, Boot
<1>2. PICK p \in Parts : p = found
  BY DEF BootMount, Known, DevKnown
<1>3. /\ boot = "mount" /\ boot' = "backup" /\ UNCHANGED <<drive, trusted, state, svc, marked>>
      /\ stack' = [stack EXCEPT !["nas"] = Append(s, p)] /\ disturbed \subseteq disturbed'
      /\ state # p => {<<"nas", "unsaved">>, <<"adopt", "unsaved">>} \subseteq disturbed'
  BY <1>2 DEF BootMount, BootUnsaved
<1>4. "nas" \in Targets /\ "backup" \in Targets \ {"nas"} /\ s \in Seq(Parts) /\ DOMAIN stack = Targets
  BY DEF Targets, TypeOK
<1>5. /\ stack'["backup"] = stack["backup"] /\ stack'["nas"] = Append(s, p)
      /\ ToSet(stack'["nas"]) \subseteq ToSet(s) \cup {p} /\ Top("nas")' = p
      /\ Len(stack'["nas"]) = Len(s) + 1
  BY <1>3, <1>4, StackFacts DEF Top
<1>6. \A t : Undisturbed(t)' => Undisturbed(t)
  BY <1>3, Calmer
<1>7. Undisturbed("nas")' \/ Undisturbed("adopt")' => state = p
  <2>1. <<"nas", "unsaved">>[1] = "nas" /\ <<"adopt", "unsaved">>[1] = "adopt"
    OBVIOUS
  <2> QED BY <1>3, <2>1 DEF Undisturbed
<1>8. Len(<< >>) = 0
  OBVIOUS
<1>9. DriveInv'
  BY <1>3, <1>5, <1>6 DEF Agreeing, DriveInv, BackupStacked, BackupServing
<1>10. NasInv'
  <2>1. Undisturbed("nas")' => s = << >>
    BY <1>3, <1>6 DEF Agreeing, NasInv, NasStarting
  <2>2. Undisturbed("nas")' => Len(stack'["nas"]) <= 1
    BY <1>5, <1>8, <2>1
  <2> QED BY <1>3, <1>5, <1>7, <2>2 DEF NasInv, NasServing, NasStarting
<1>11. Trusting'
  <2>1. Undisturbed("adopt")' => p \in trusted
    BY <1>2, <1>3, <1>6, <1>7, StorageAssumption DEF Agreeing, Trusting, Doubtful
  <2> QED BY <1>3, <1>5, <1>6, <2>1 DEF Agreeing, Trusting, Doubtful
<1> QED BY <1>1, <1>9, <1>10, <1>11 DEF Agreeing

LEMMA BootLooksAgreeing ==
  ASSUME TypeOK, Agreeing, BootScan \/ BootCheck
  PROVE  Agreeing'
<1> USE DEF media, kept
<1>1. Calm'
  BY StartCalm DEF Agreeing, Boot
<1>2. /\ UNCHANGED <<stack, marked, trusted, state, drive, disturbed>>
      /\ boot \in {"scan", "check"} /\ boot' \in {"mount", "backup", "reject"}
      /\ boot = "scan" => boot' \in {"mount", "backup"} /\ svc' = svc
      /\ boot = "check" => boot' = (IF HasMarker THEN "backup" ELSE "reject") /\ svc' = (svc \/ HasMarker)
  BY DEF BootScan, BootCheck, BootStep
<1>3. \A t : Undisturbed(t)' = Undisturbed(t) /\ Top(t)' = Top(t)
  BY <1>2 DEF Undisturbed, Top
<1>4. NasInv'
  <2>1. Len(<< >>) = 0
    OBVIOUS
  <2>2. stack["nas"] = << >> => Top("nas") = Nobody
    BY DEF Top
  <2> QED BY <1>2, <1>3, <2>1, <2>2 DEF Agreeing, NasInv, NasServing, NasStarting
<1>5. DriveInv'
  BY <1>2, <1>3 DEF Agreeing, DriveInv, BackupStacked, BackupServing
<1>6. Trusting'
  <2> SUFFICES ASSUME Undisturbed("adopt") PROVE Trusting'
    BY <1>3 DEF Trusting
  <2>1. Trusting
    BY DEF Agreeing
  <2>2. CASE boot = "scan"
    BY <1>2, <2>1, <2>2 DEF Trusting, Doubtful
  <2>3. CASE boot = "check" /\ ~HasMarker
    BY <1>2, <1>3, <2>1, <2>3 DEF Trusting, Doubtful
  <2>4. CASE boot = "check" /\ HasMarker
    <3>1. stack["nas"] \in Seq(Parts) /\ Len(stack["nas"]) = 1 /\ state = Top("nas") /\ Top("nas") \in trusted
      BY <2>1, <2>4 DEF TypeOK, Targets, Trusting, Doubtful, HasMarker
    <3>2. ToSet(stack["nas"]) \subseteq trusted
      BY <3>1, OneMounted
    <3> QED BY <1>2, <2>1, <2>4, <3>1, <3>2 DEF Trusting, Doubtful
  <2> QED BY <1>2, <2>2, <2>3, <2>4
<1> QED BY <1>1, <1>4, <1>5, <1>6 DEF Agreeing

LEMMA BootRejectAgreeing ==
  ASSUME TypeOK, Agreeing, BootReject
  PROVE  Agreeing'
<1> USE DEF media, kept
<1>1. Calm'
  BY StartCalm DEF Agreeing, Boot
<1>2. /\ UNCHANGED <<marked, trusted, drive>> /\ state' = Nobody
      /\ boot = "reject" /\ boot' = "backup"
  BY DEF BootReject, BootStep
<1>3. PICK rc \in {0, 1} : HostUmount("nas", rc)
  BY DEF BootReject
<1>4. "nas" \in Targets /\ "backup" \in Targets \ {"nas"}
  BY DEF Targets
<1>5. /\ \A u \in Targets \ {"nas"} : stack'[u] = stack[u]
      /\ disturbed \subseteq disturbed'
      /\ Len(stack["nas"]) <= 1 => stack'["nas"] = << >>
  BY <1>3, <1>4, HostUmountStack
<1>6. \A t : Undisturbed(t)' => Undisturbed(t)
  BY <1>5, Calmer
<1>7. Len(<< >>) = 0 /\ ToSet(<< >>) = {}
  BY DEF ToSet
<1>8. NasInv'
  <2>1. Undisturbed("nas")' => stack'["nas"] = << >>
    BY <1>2, <1>5, <1>6 DEF Agreeing, NasInv, NasStarting
  <2>2. Undisturbed("nas")' => Top("nas")' = Nobody
    BY <2>1 DEF Top
  <2> QED BY <1>2, <1>7, <2>1, <2>2 DEF NasInv, NasServing, NasStarting
<1>9. DriveInv'
  BY <1>2, <1>4, <1>5, <1>6 DEF Agreeing, DriveInv, BackupStacked, BackupServing
<1>10. Trusting'
  <2>1. Undisturbed("adopt")' => stack'["nas"] = << >>
    <3>1. Undisturbed("adopt")' => Len(stack["nas"]) = 1
      BY <1>2, <1>6 DEF Agreeing, Trusting, Doubtful
    <3>2. Len(stack["nas"]) = 1 => Len(stack["nas"]) <= 1
      OBVIOUS
    <3> QED BY <1>5, <3>1, <3>2
  <2>2. Undisturbed("adopt")' => ToSet(stack'["nas"]) = {}
    BY <1>7, <2>1
  <2>3. Undisturbed("adopt")' => marked \subseteq trusted
    BY <1>6 DEF Agreeing, Trusting
  <2> QED BY <1>2, <2>2, <2>3 DEF Trusting, Doubtful
<1> QED BY <1>1, <1>8, <1>9, <1>10 DEF Agreeing

LEMMA BootBackupAgreeing ==
  ASSUME TypeOK, Agreeing, BootBackup
  PROVE  Agreeing'
<1> USE DEF media, kept
<1> DEFINE s == stack["backup"]
<1>1. Calm' /\ \A r \in Requests : op'[r].pc \in {"new", "done"}
  BY StartCalm DEF Agreeing, Boot
<1>2. /\ UNCHANGED <<marked, trusted, state, svc>>
      /\ boot = "backup" /\ boot' = "serving"
  BY DEF BootBackup, BootStep
<1>3. "backup" \in Targets /\ "nas" \in Targets \ {"backup"} /\ s \in Seq(Parts)
  BY DEF Targets, TypeOK
<1>4. \/ UNCHANGED <<drive, stack, disturbed>> /\ drive \in {Nobody} \cup ToSet(s)
      \/ drive' = Nobody /\ UNCHANGED <<stack, disturbed>>
      \/ drive' = drive /\ drive \in Parts /\ HostMount(drive, "backup", 0)
      \/ drive' = drive /\ stack' = stack /\ disturbed' = disturbed \cup {<<"backup", "left">>}
  BY DEF BootBackup, TypeOK
<1>5. stack'["nas"] = stack["nas"] /\ disturbed \subseteq disturbed'
  <2>1. CASE drive \in Parts /\ HostMount(drive, "backup", 0)
    <3>1. PICK p \in Parts : p = drive
      BY <2>1
    <3>2. HostMount(p, "backup", 0)
      BY <2>1, <3>1
    <3> QED BY <1>3, <3>2, HostMountStack
  <2> QED BY <1>4, <2>1
<1>6. \A t : Undisturbed(t)' => Undisturbed(t)
  BY <1>5, Calmer
<1>7. \A t : Changing(t)' = {}
  BY <1>1 DEF Changing
<1>8. NasInv'
  <2>1. Top("nas")' = Top("nas")
    BY <1>5 DEF Top
  <2> QED BY <1>1, <1>2, <1>5, <1>6, <1>7, <2>1 DEF Agreeing, NasInv, NasServing, NasStarting, OneAtATime
<1>9. DriveInv'
  <2>1. SUFFICES ASSUME Undisturbed("backup")'
                 PROVE  Len(stack'["backup"]) <= 1 /\ drive' \in {Top("backup")', Nobody}
    BY <1>1, <1>2, <1>7 DEF DriveInv, BackupStacked, BackupServing, OneAtATime
  <2>2. Len(s) <= 1
    BY <1>2, <1>6, <2>1 DEF Agreeing, DriveInv, BackupStacked
  <2>3. CASE UNCHANGED <<drive, stack, disturbed>> /\ drive \in {Nobody} \cup ToSet(s)
    <3>1. drive \in ToSet(s) => drive = Top("backup")
      BY <1>3, <2>2, OnlyOneMounted
    <3> QED BY <2>2, <2>3, <3>1 DEF Top
  <2>4. CASE drive' = Nobody /\ UNCHANGED <<stack, disturbed>>
    BY <2>2, <2>4
  <2>5. CASE drive' = drive /\ drive \in Parts /\ HostMount(drive, "backup", 0)
    <3>1. PICK p \in Parts : p = drive
      BY <2>5
    <3>2. HostMount(p, "backup", 0)
      BY <2>5, <3>1
    <3>3. Top("backup")' = p /\ Len(stack'["backup"]) = Len(s) + 1 /\ s = << >>
      BY <1>3, <2>1, <3>2, HostMountStack
    <3>4. Len(stack'["backup"]) <= 1
      BY <3>3
    <3> QED BY <2>5, <3>1, <3>3, <3>4
  <2>6. CASE disturbed' = disturbed \cup {<<"backup", "left">>}
    <3>1. <<"backup", "left">> \in disturbed' /\ <<"backup", "left">>[1] = "backup"
      BY <2>6
    <3> QED BY <2>1, <3>1 DEF Undisturbed
  <2> QED BY <1>4, <2>3, <2>4, <2>5, <2>6
<1>10. Trusting'
  BY <1>2, <1>5, <1>6 DEF Agreeing, Trusting, Doubtful
<1> QED BY <1>1, <1>8, <1>9, <1>10 DEF Agreeing

\* The process dies. What is then mounted, and what is saved, is looked at when it starts.
LEMMA DiesAgreeing ==
  ASSUME TypeOK, Agreeing, Crash \/ Power
  PROVE  Agreeing'
<1> USE DEF media, kept
<1>1. /\ boot' = "down" /\ UNCHANGED <<marked, trusted, state>>
      /\ op' = [r \in Requests |-> IF Going(r) THEN [op[r] EXCEPT !.pc = "done"] ELSE op[r]]
      /\ disturbed' = disturbed \cup (IF boot \in Doubtful THEN {<<"adopt", "died">>} ELSE {})
  BY DEF Crash, Power, Dies, Doubtful
<1>2. \A r \in Requests : op'[r].pc \in {"new", "done"}
  BY <1>1, OpRecord DEF Going
<1>3. Calm'
  BY <1>1, <1>2 DEF Calm, BootPhases, Quiet, Going, Sides, NasPhases, BackupPhases
<1>4. NasInv' /\ DriveInv'
  BY <1>1 DEF NasInv, NasServing, NasStarting, DriveInv, BackupStacked, BackupServing
<1>5. Trusting'
  <2> SUFFICES ASSUME Undisturbed("adopt")' PROVE Trusting'
    BY DEF Trusting
  <2>1. Undisturbed("adopt") /\ boot \notin Doubtful
    <3>1. <<"adopt", "died">>[1] = "adopt"
      OBVIOUS
    <3> QED BY <1>1, <3>1 DEF Undisturbed
  <2>2. stack' = stack \/ stack'["nas"] = << >>
    BY DEF Crash, Power, Targets
  <2>3. ToSet(<< >>) = {}
    BY DEF ToSet
  <2> QED BY <1>1, <2>1, <2>2, <2>3 DEF Agreeing, Trusting, Doubtful
<1> QED BY <1>3, <1>4, <1>5 DEF Agreeing

LEMMA NextAgreeing ==
  ASSUME TypeOK, Known, Agreeing, [Next]_vars
  PROVE  Agreeing'
<1> USE DEF media, kept, proc
<1>1. ASSUME NEW r \in Requests, Call(r) PROVE Agreeing'
  BY <1>1, CallAgreeing
<1>2. ASSUME NEW r \in Requests, Step(r) PROVE Agreeing'
  BY <1>2, LooksAgreeing, HelpersAgreeing, MountAgreeing, SettlesAgreeing, ServicesAgreeing,
     UmountsAgreeing, BackupAgreeing DEF Step
<1>3. ASSUME NEW m \in mkfs, HelperWipes(m) \/ HelperEnds(m) PROVE Agreeing'
  BY <1>3, HelperWipesAgreeing, HelperEndsAgreeing
<1>4. CASE Boot
  BY <1>4, BootBeginAgreeing, BootMountAgreeing, BootUnsavedAgreeing, BootLooksAgreeing, BootRejectAgreeing,
     BootBackupAgreeing DEF Boot
<1>5. CASE Crash \/ Power
  BY <1>5, DiesAgreeing
<1>6. CASE ListDevices \/ (\E d \in Disks : Plug(d)) \/ UNCHANGED vars
  <2>1. UNCHANGED <<boot, op, stack, state, drive, marked, trusted, svc, disturbed>>
    BY <1>6 DEF ListDevices, Plug, vars
  <2>2. trusted \ trusted' = {} /\ marked' \subseteq marked /\ disturbed \subseteq disturbed'
    BY <2>1
  <2> QED BY <2>1, <2>2, SameAgreeing
<1> QED BY <1>1, <1>2, <1>3, <1>4, <1>5, <1>6 DEF Next

LEMMA SpecAgreeing == Spec => []Agreeing
<1>1. IInv /\ Agreeing /\ [Next]_vars => Agreeing'
  BY NextAgreeing DEF IInv
<1> QED BY <1>1, InitAgreeing, SpecIInv, PTL DEF Spec

\* Between requests storage.json names what is mounted at the NAS root, and kv.json what is
\* mounted for the backup or nothing, over crashes, power cuts and the starts after them,
\* but for the cases NasAgrees and DriveAgrees name, a failed save among them: the handlers of storage_routes.py and local_backup_routes.py, and try_auto_remount.
THEOREM StateIsTrue == Spec => []StateAgrees
<1>1. ASSUME Agreeing PROVE StateAgrees
  <2>1. \A r \in Requests :
          /\ op[r].pc \in {"mounted", "unmounted"} => r \in Changing("nas")
          /\ op[r].pc \in {"backup_mounted", "backup_unmounted"} => r \in Changing("backup")
    BY <1>1 DEF Agreeing, Calm, Sides, NasPhases, BackupPhases, Changing
  <2> QED BY <1>1, <2>1 DEF Agreeing, NasInv, NasServing, DriveInv, BackupServing, StateAgrees,
                            NasAgrees, DriveAgrees
<1> QED BY <1>1, SpecAgreeing, PTL

\* What the network is served was activated by an admin or bore the marker, also when the
\* process adopts a drive by itself as it starts (storage_helpers.py, try_auto_remount).
THEOREM StrangersKeptOut == Spec => []StrangersNotServed
<1>1. ASSUME IInv, Agreeing PROVE StrangersNotServed
  <2> SUFFICES ASSUME svc, Undisturbed("adopt"), stack["nas"] # << >> PROVE Top("nas") \in trusted
    BY DEF StrangersNotServed
  <2>1. stack["nas"] \in Seq(Parts)
    BY <1>1 DEF IInv, TypeOK, Targets
  <2>2. Top("nas") \in ToSet(stack["nas"])
    BY <2>1, FrontFacts DEF Top
  <2>3. ToSet(stack["nas"]) \subseteq trusted
    BY <1>1 DEF Agreeing, Trusting
  <2> QED BY <2>2, <2>3
<1> QED BY <1>1, SpecIInv, SpecAgreeing, PTL
=============================================================================

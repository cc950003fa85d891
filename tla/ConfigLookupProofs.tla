------------------------- MODULE ConfigLookupProofs -------------------------
(* What a lookup finds and what a merged configuration holds, for any      *)
(* tiers, any files and anybody who changes them meanwhile.                *)
EXTENDS ConfigLookup, SequenceTheorems, TLAPS

LEMMA Tables ==
  /\ Len(Tiers) \in Nat \ {0} /\ DOMAIN Tiers = 1..Len(Tiers)
  /\ \A t \in DOMAIN Tiers :
       /\ Len(Tiers[t]) \in Nat \ {0} /\ DOMAIN Tiers[t] = 1..Len(Tiers[t])
       /\ \A d \in DOMAIN Tiers[t] : Tiers[t][d] \in Range(Tiers[t])
  /\ Len(DropIns) \in Nat /\ DOMAIN DropIns = 1..Len(DropIns)
  /\ Main \notin Range(DropIns)
<1>1. Len(Tiers) \in Nat \ {0} /\ DOMAIN Tiers = 1..Len(Tiers)
  BY LookupAssumption, EmptySeq, LenProperties DEF LookupAssumption
<1>2. ASSUME NEW t \in DOMAIN Tiers
      PROVE  Len(Tiers[t]) \in Nat \ {0} /\ DOMAIN Tiers[t] = 1..Len(Tiers[t])
  <2>1. Tiers[t] \in Seq(STRING) /\ Tiers[t] # <<>>
    BY LookupAssumption, ElementOfSeq, <1>1 DEF LookupAssumption
  <2> QED BY <2>1, EmptySeq, LenProperties
<1>3. Len(DropIns) \in Nat /\ DOMAIN DropIns = 1..Len(DropIns)
  BY LookupAssumption, LenProperties DEF LookupAssumption
<1>4. Main \notin Range(DropIns)
  BY LookupAssumption DEF LookupAssumption, Main
<1> QED BY <1>1, <1>2, <1>3, <1>4 DEF Range

\* What the sorted arrangement of a set is.
LEMMA Arranged ==
  ASSUME NEW seq, Len(seq) \in Nat, NEW set, NEW s \in InOrderOf(seq, set)
  PROVE  /\ s \in Seq(set) /\ Len(s) \in Nat /\ DOMAIN s = 1..Len(s)
         /\ \A x \in set : \E i \in DOMAIN s : s[i] = x
         /\ \A i \in DOMAIN s : s[i] \in set
         /\ \A i, j \in DOMAIN s : i < j => Before(seq, s[i], s[j])
<1>1. PICK n \in 0..Len(seq) : s \in [1..n -> set]
  BY DEF InOrderOf, SeqOf
<1>2. s \in Seq(set) /\ Len(s) = n
  BY <1>1
<1>3. \A i, j \in DOMAIN s : i < j => Before(seq, s[i], s[j])
  BY DEF InOrderOf
<1>4. \A x \in set : \E i \in DOMAIN s : s[i] = x
  BY DEF InOrderOf, Range
<1> QED BY <1>1, <1>2, <1>3, <1>4

LEMMA Concatenated ==
  ASSUME NEW S, NEW s \in Seq(S), NEW t \in Seq(S)
  PROVE  /\ s \o t \in Seq(S)
         /\ Len(s) \in Nat /\ Len(t) \in Nat
         /\ DOMAIN s = 1..Len(s) /\ DOMAIN t = 1..Len(t)
         /\ DOMAIN (s \o t) = 1..(Len(s) + Len(t))
         /\ Len(s \o t) = Len(s) + Len(t)
         /\ \A i \in 1..Len(s) : (s \o t)[i] = s[i]
         /\ \A i \in 1..Len(t) : (s \o t)[Len(s) + i] = t[i]
         /\ \A i \in (Len(s) + 1)..(Len(s) + Len(t)) :
              /\ i - Len(s) \in 1..Len(t)
              /\ (s \o t)[i] = t[i - Len(s)]
<1>1. Len(s) \in Nat /\ Len(t) \in Nat
      /\ DOMAIN s = 1..Len(s) /\ DOMAIN t = 1..Len(t)
  BY LenProperties
<1>2. s \o t \in Seq(S) /\ Len(s \o t) = Len(s) + Len(t)
  BY ConcatProperties
<1>3. DOMAIN (s \o t) = 1..(Len(s) + Len(t))
  BY <1>2, LenProperties
<1>4. \A i \in 1..(Len(s) + Len(t)) :
        (s \o t)[i] = IF i <= Len(s) THEN s[i] ELSE t[i - Len(s)]
  BY ConcatProperties
<1> QED BY <1>1, <1>2, <1>3, <1>4

-----------------------------------------------------------------------------
(* Types.                                                                  *)

\* A look does not see more than there is, and what it does not see is recorded.
LEMMA Seen ==
  ASSUME NEW files, NEW seen, See(files, seen)
  PROVE  /\ seen \subseteq files
         /\ unseen \subseteq unseen' /\ unseen' \subseteq unseen \cup files
         /\ \A file \in files :
              fs[file] # Absent /\ file \notin unseen' => file \in seen
         /\ \A file \in seen : fs[file] # Absent
BY DEF See

\* What AddDropIns appends: the drop-ins it sees, of this directory.
LEMMA DropInsAdded ==
  ASSUME TypeOK, AddDropIns
  PROVE  \E added \in Seq(Files) :
           /\ listed' = listed \o added
           /\ \A i \in DOMAIN added :
                added[i][1] = Here /\ added[i][2] \in Range(DropIns)
           /\ \A i, j \in DOMAIN added :
                i < j => Before(DropIns, added[i][2], added[j][2])
           /\ \A name \in Range(DropIns) :
                fs[<<Here, name>>] # Absent /\ <<Here, name>> \notin unseen' =>
                  \E i \in DOMAIN added : added[i] = <<Here, name>>
           /\ unseen \subseteq unseen' /\ unseen' \subseteq Files
<1>0. PICK seen \in SUBSET Range(DropIns) :
        /\ See({Here} \X Range(DropIns), {Here} \X seen)
        /\ \E names \in InOrderOf(DropIns, seen) :
             listed' = listed \o [i \in DOMAIN names |-> <<Here, names[i]>>]
  BY DEF AddDropIns
<1>1. PICK names \in InOrderOf(DropIns, seen) :
        listed' = listed \o [i \in DOMAIN names |-> <<Here, names[i]>>]
  BY <1>0
<1>2. /\ Len(names) \in Nat
      /\ DOMAIN names = 1..Len(names)
      /\ \A x \in seen : \E i \in DOMAIN names : names[i] = x
      /\ \A i \in DOMAIN names : names[i] \in seen
      /\ \A i, j \in DOMAIN names : i < j => Before(DropIns, names[i], names[j])
  BY Tables, Arranged
<1> DEFINE added == [i \in DOMAIN names |-> <<Here, names[i]>>]
<1>3. Here \in Dirs
  BY Tables DEF TypeOK, Here, Dirs
<1>4. \A i \in DOMAIN names : <<Here, names[i]>> \in Files
  BY <1>2, <1>3 DEF Files
<1>5. added \in Seq(Files)
  BY <1>2, <1>4
<1>6. /\ \A i \in DOMAIN added :
           added[i][1] = Here /\ added[i][2] \in Range(DropIns)
      /\ \A i, j \in DOMAIN added :
           i < j => Before(DropIns, added[i][2], added[j][2])
  BY <1>2
<1>7. ASSUME NEW name \in Range(DropIns),
             fs[<<Here, name>>] # Absent, <<Here, name>> \notin unseen'
      PROVE  \E i \in DOMAIN added : added[i] = <<Here, name>>
  <2>1. <<Here, name>> \in {Here} \X seen
    BY <1>0, <1>7, Seen
  <2> QED BY <1>2, <2>1
<1>8. unseen \subseteq unseen' /\ unseen' \subseteq Files
  <2>1. {Here} \X Range(DropIns) \subseteq Files
    BY <1>3 DEF Files
  <2> QED BY <1>0, <2>1, Seen DEF TypeOK
<1> QED BY <1>1, <1>5, <1>6, <1>7, <1>8

LEMMA InitTypes == Init => TypeOK
<1> SUFFICES ASSUME Init PROVE TypeOK
  OBVIOUS
<1>1. fs \in [Files -> Contents \cup {Absent, Garbled}]
  BY DEF Init
<1>2. tier \in DOMAIN Tiers /\ dir \in DOMAIN Tiers[tier]
  BY Tables DEF Init
<1>3. /\ listed \in Seq(Files) /\ Len(listed) = 0 /\ order \in Seq(Sections)
      /\ read \in Seq([file : Files, content : Contents])
  BY EmptySeq DEF Init
<1>4. merged \in [Entries -> Files \cup {Unset}]
  BY DEF Init
<1>5. next \in 1..(Len(listed) + 1)
  BY <1>3 DEF Init
<1> QED BY <1>1, <1>2, <1>3, <1>4, <1>5 DEF Init, TypeOK

LEMMA SectionsAdded ==
  ASSUME TypeOK, NEW content \in Contents, AddSections(content)
  PROVE  \E new \in Seq(Sections) :
           /\ order' = order \o new
           /\ \A i \in DOMAIN new : \E k \in DOMAIN content : content[k][1] = new[i]
           /\ \A i \in DOMAIN content :
                content[i][1] \notin Range(order) =>
                  \E k \in DOMAIN new : new[k] = content[i][1]
           /\ \A i, j \in DOMAIN new :
                i < j => Before(SectionsIn(content), new[i], new[j])
<1>1. /\ content \in Seq(Sections \X Keys) /\ Len(content) \in Nat
      /\ DOMAIN content = 1..Len(content)
      /\ \A i \in DOMAIN content : content[i] \in Sections \X Keys
  <2>1. content \in Seq(Sections \X Keys)
    BY LookupAssumption DEF LookupAssumption
  <2> QED BY <2>1, LenProperties, ElementOfSeq
<1>2. /\ Len(SectionsIn(content)) \in Nat /\ DOMAIN SectionsIn(content) = DOMAIN content
      /\ \A i \in DOMAIN content :
           SectionsIn(content)[i] = content[i][1] /\ content[i][1] \in Sections
  <2>1. SectionsIn(content) \in Seq(Sections) /\ DOMAIN SectionsIn(content) = DOMAIN content
    BY <1>1 DEF SectionsIn
  <2>2. Len(SectionsIn(content)) \in Nat
    BY <2>1, LenProperties
  <2> QED BY <1>1, <2>1, <2>2 DEF SectionsIn
<1>3. /\ NewSections(content) \subseteq Sections
      /\ \A x \in NewSections(content) : \E k \in DOMAIN content : content[k][1] = x
      /\ \A i \in DOMAIN content :
           content[i][1] \notin Range(order) => content[i][1] \in NewSections(content)
  BY <1>2 DEF NewSections, Range
<1>4. PICK new \in InOrderOf(SectionsIn(content), NewSections(content)) :
        order' = order \o new
  BY DEF AddSections
<1>5. /\ new \in Seq(NewSections(content))
      /\ \A x \in NewSections(content) : \E i \in DOMAIN new : new[i] = x
      /\ \A i \in DOMAIN new : new[i] \in NewSections(content)
      /\ \A i, j \in DOMAIN new : i < j => Before(SectionsIn(content), new[i], new[j])
  BY <1>2, <1>4, Arranged
<1>6. new \in Seq(Sections)
  BY <1>3, <1>5, SeqMonotonic
<1> QED BY <1>3, <1>4, <1>5, <1>6

LEMMA TypesStep == TypeOK /\ [Next]_vars => TypeOK'
<1> SUFFICES ASSUME TypeOK, [Next]_vars PROVE TypeOK'
  OBVIOUS
<1> USE DEF TypeOK, lookup, result
<1>0. Len(listed) \in Nat /\ next \in Nat
  BY LenProperties
<1>1. CASE CheckMain
  <2>1. <<Here, Main>> \in Files
    BY Tables DEF Here, Dirs, Files
  <2>2. listed' \in Seq(Files) /\ Len(listed') \in Nat /\ Len(listed') >= Len(listed)
    BY <1>0, <1>1, <2>1, AppendProperties DEF CheckMain
  <2>3. next' \in 1..(Len(listed') + 1)
    BY <1>0, <1>1, <2>2 DEF CheckMain
  <2>4. unseen' \subseteq Files
    <3>1. PICK seen : See({<<Here, Main>>}, seen)
      BY <1>1 DEF CheckMain
    <3>2. unseen' \subseteq unseen \cup {<<Here, Main>>}
      BY <3>1, Seen
    <3> QED BY <2>1, <3>2
  <2> QED BY <1>1, <2>2, <2>3, <2>4 DEF CheckMain
<1>2. CASE ListDropIns
  <2>0. AddDropIns
    BY <1>2 DEF ListDropIns
  <2>1. /\ unseen' \subseteq Files
        /\ \E added \in Seq(Files) : listed' = listed \o added
    BY <2>0, DropInsAdded
  <2>2. listed' \in Seq(Files) /\ Len(listed') \in Nat /\ Len(listed') >= Len(listed)
    BY <2>1, <1>0, Concatenated
  <2>3. next' \in 1..(Len(listed') + 1)
    BY <1>0, <1>2, <2>2 DEF ListDropIns
  <2>4. tier' \in DOMAIN Tiers /\ dir' \in DOMAIN Tiers[tier']
    BY <1>2, Tables DEF ListDropIns, LeavesTier, StopsLookup
  <2> QED BY <1>2, <2>1, <2>2, <2>3, <2>4 DEF ListDropIns
<1>3. CASE Exists
  <2>1. listed[next] \in Files
    BY <1>0, <1>3, ElementOfSeq DEF Exists
  <2>2. unseen' \subseteq Files
    BY <1>3, <2>1, Seen DEF Exists
  <2> QED BY <1>0, <1>3, <2>2 DEF Exists
<1>4. CASE Load
  <2> DEFINE content == fs[listed[next]]
  <2>1. listed[next] \in Files /\ content \in Contents
    BY <1>0, <1>4, ElementOfSeq DEF Load
  <2>2. merged' \in [Entries -> Files \cup {Unset}]
    BY <1>4, <2>1 DEF Load, SetTo
  <2>3. order' \in Seq(Sections)
    <3>1. AddSections(content)
      BY <1>4 DEF Load
    <3>2. PICK new \in Seq(Sections) : order' = order \o new
      BY <2>1, <3>1, SectionsAdded
    <3> QED BY <3>2, Concatenated
  <2>4. [file |-> listed[next], content |-> content] \in [file : Files, content : Contents]
    BY <2>1
  <2>5. read' \in Seq([file : Files, content : Contents])
    BY <1>4, <2>4, AppendProperties DEF Load
  <2>6. next' \in 1..(Len(listed') + 1)
    BY <1>0, <1>4 DEF Load
  <2> QED BY <1>4, <2>2, <2>3, <2>5, <2>6 DEF Load
<1>5. CASE LoadFails \/ Finish
  BY <1>5 DEF LoadFails, Finish
<1>6. ASSUME NEW file \in Files, NEW content \in Contents \cup {Absent, Garbled},
             Change(file, content)
      PROVE  TypeOK'
  BY <1>6 DEF Change
<1>7. CASE UNCHANGED vars
  BY <1>7 DEF vars
<1> QED BY <1>1, <1>2, <1>3, <1>4, <1>5, <1>6, <1>7 DEF Next, Build

-----------------------------------------------------------------------------
(* What a lookup finds.                                                    *)

\* The inductive invariant. The tier at hand gave all there is, the tiers before
\* it had nothing; of its directories those before dir, and in the end dir as well,
\* were looked through, and none was left out but after a client.conf.
Scanned(d) ==
  \A file \in Files :
    file[1] = Tiers[tier][d] /\ Stable(file) => file \in Range(listed)
MainListed == <<Here, Main>> \in Range(listed)
ScanInv ==
  /\ TypeOK
  /\ \A i \in DOMAIN listed : listed[i][1] \in Range(Tiers[tier])
  /\ \A u \in 1..(tier - 1), file \in Files :
       file[1] \in Range(Tiers[u]) => ~Stable(file)
  /\ \A d \in 1..(dir - 1) : Scanned(d)
  /\ pc = "dropins" =>
       /\ Stable(<<Here, Main>>) => MainListed
       /\ hasMain => MainListed
  /\ Listed => /\ Scanned(dir)
               /\ dir = Len(Tiers[tier]) \/ MainListed
               /\ listed # <<>> \/ tier = Len(Tiers)

\* What nobody has touched after a step, nobody had touched before it.
LEMMA StableBefore ==
  ASSUME TypeOK, [Next]_vars, NEW file \in Files, Stable(file)'
  PROVE  Stable(file)
<1>1. CASE UNCHANGED <<fs, touched>> /\ unseen \subseteq unseen'
  BY <1>1 DEF Stable
<1>2. ASSUME NEW changed \in Files, NEW content \in Contents \cup {Absent, Garbled},
             Change(changed, content)
      PROVE  Stable(file)
  <2>1. file # changed /\ file \notin touched
    BY <1>2 DEF Change, Stable
  <2>2. fs'[file] = fs[file]
    BY <1>2, <2>1 DEF Change, TypeOK
  <2> QED BY <1>2, <2>1, <2>2 DEF Change, Stable
<1>3. CASE CheckMain \/ Exists
  BY <1>1, <1>3, Seen DEF CheckMain, Exists
<1>4. CASE ListDropIns
  <2>1. AddDropIns
    BY <1>4 DEF ListDropIns
  <2> QED BY <1>1, <1>4, <2>1, DropInsAdded DEF ListDropIns
<1> QED BY <1>1, <1>2, <1>3, <1>4 DEF Next, Build, Load, LoadFails, Finish, vars

LEMMA InitScan == Init => ScanInv
<1> SUFFICES ASSUME Init PROVE ScanInv
  OBVIOUS
<1>1. DOMAIN listed = {}
  BY DEF Init
<1>2. (1..(tier - 1)) = {} /\ (1..(dir - 1)) = {}
  BY DEF Init
<1> QED BY InitTypes, <1>1, <1>2 DEF Init, ScanInv, Listed

LEMMA CheckMainScans == ScanInv /\ CheckMain => ScanInv'
<1> SUFFICES ASSUME ScanInv, CheckMain PROVE ScanInv'
  OBVIOUS
<1>1. TypeOK /\ TypeOK'
  BY TypesStep DEF ScanInv, Next, Build
<1>2. /\ fs' = fs /\ touched' = touched /\ tier' = tier /\ dir' = dir
      /\ Here' = Here /\ pc' = "dropins"
      /\ See({<<Here, Main>>}, IF hasMain' THEN {<<Here, Main>>} ELSE {})
      /\ listed' = IF hasMain' THEN Append(listed, <<Here, Main>>) ELSE listed
  BY DEF CheckMain, Here
<1>3. Here \in Range(Tiers[tier]) /\ <<Here, Main>> \in Files
  <2>1. tier \in DOMAIN Tiers /\ Here \in Range(Tiers[tier])
    BY <1>1, Tables DEF TypeOK, Here
  <2> QED BY <2>1 DEF Dirs, Files
<1>4. /\ \A f \in Range(listed) : f \in Range(listed')
      /\ hasMain' => <<Here, Main>> \in Range(listed')
      /\ \A i \in DOMAIN listed' :
           (i \in DOMAIN listed /\ listed'[i] = listed[i]) \/ listed'[i] = <<Here, Main>>
  <2>1. CASE hasMain'
    <3>1. /\ DOMAIN listed' = 1..(Len(listed) + 1) /\ DOMAIN listed = 1..Len(listed)
          /\ Len(listed) \in Nat
          /\ listed'[Len(listed) + 1] = <<Here, Main>>
          /\ \A i \in 1..Len(listed) : listed'[i] = listed[i]
      <4>1. listed \in Seq(Files) /\ listed' = Append(listed, <<Here, Main>>)
        BY <1>1, <1>2, <2>1 DEF TypeOK
      <4> QED BY <1>3, <4>1, AppendProperties, LenProperties
    <3> QED BY <3>1 DEF Range
  <2>2. CASE ~hasMain'
    BY <1>2, <2>2
  <2> QED BY <2>1, <2>2
<1>5. \A i \in DOMAIN listed' : listed'[i][1] \in Range(Tiers[tier])
  BY <1>3, <1>4 DEF ScanInv
<1>6. \A d \in 1..(dir - 1), file \in Files :
        file[1] = Tiers[tier][d] /\ Stable(file)' => file \in Range(listed')
  <2>1. \A file \in Files : Stable(file)' => Stable(file)
    BY <1>1, StableBefore DEF Next, Build
  <2> QED BY <1>4, <2>1 DEF ScanInv, Scanned
<1>7. Stable(<<Here, Main>>)' => hasMain'
  BY <1>2, Seen DEF Stable
<1>8. \A u \in 1..(tier - 1), file \in Files :
        file[1] \in Range(Tiers[u]) => ~Stable(file)'
  BY <1>1, StableBefore DEF ScanInv, Next, Build
<1> QED BY <1>1, <1>2, <1>4, <1>5, <1>6, <1>7, <1>8
    DEF ScanInv, Scanned, MainListed, Listed

LEMMA DropInsScanned ==
  ASSUME ScanInv, ListDropIns
  PROVE  /\ \A f \in Range(listed) : f \in Range(listed')
         /\ \A i \in DOMAIN listed' : listed'[i][1] \in Range(Tiers[tier])
         /\ \A d \in 1..dir, file \in Files :
              file[1] = Tiers[tier][d] /\ Stable(file)' => file \in Range(listed')
         /\ \A file \in Files : Stable(file)' => Stable(file)
<1>1. TypeOK /\ pc = "dropins"
  BY DEF ScanInv, ListDropIns
<1>2. PICK added \in Seq(Files) :
        /\ listed' = listed \o added
        /\ \A i \in DOMAIN added : added[i][1] = Here
        /\ \A name \in Range(DropIns) :
             fs[<<Here, name>>] # Absent /\ <<Here, name>> \notin unseen' =>
               \E i \in DOMAIN added : added[i] = <<Here, name>>
  BY <1>1, DropInsAdded DEF ListDropIns
<1>3. /\ DOMAIN listed' = 1..(Len(listed) + Len(added))
      /\ DOMAIN listed = 1..Len(listed) /\ DOMAIN added = 1..Len(added)
      /\ Len(listed) \in Nat /\ Len(added) \in Nat
      /\ \A i \in 1..Len(listed) : listed'[i] = listed[i]
      /\ \A i \in 1..Len(added) : listed'[Len(listed) + i] = added[i]
      /\ \A i \in (Len(listed) + 1)..(Len(listed) + Len(added)) :
           i - Len(listed) \in 1..Len(added) /\ listed'[i] = added[i - Len(listed)]
  BY <1>1, <1>2, Concatenated DEF TypeOK
<1>4. \A f \in Range(listed) : f \in Range(listed')
  BY <1>3 DEF Range
<1>5. \A i \in DOMAIN listed' : listed'[i][1] \in Range(Tiers[tier])
  <2> SUFFICES ASSUME NEW i \in DOMAIN listed'
               PROVE  listed'[i][1] \in Range(Tiers[tier])
    OBVIOUS
  <2>1. CASE i \in DOMAIN listed
    BY <1>3, <2>1 DEF ScanInv
  <2>2. CASE i \notin DOMAIN listed
    <3>1. listed'[i][1] = Here
      BY <1>2, <1>3, <2>2
    <3> QED BY <1>1, <3>1, Tables DEF TypeOK, Here
  <2> QED BY <2>1, <2>2
<1>0. \A file \in Files : Stable(file)' => Stable(file)
  BY <1>1, StableBefore DEF Next, Build
<1>6. ASSUME NEW file \in Files, file[1] = Here, Stable(file)'
      PROVE  file \in Range(listed')
  <2>1. file = <<Here, file[2]>> /\ file[2] \in {Main} \cup Range(DropIns)
    BY <1>6 DEF Files
  <2>2. CASE file[2] = Main
    BY <1>0, <1>1, <1>4, <1>6, <2>1, <2>2 DEF ScanInv, MainListed
  <2>3. CASE file[2] \in Range(DropIns)
    <3>1. fs[file] # Absent /\ file \notin unseen'
      BY <1>0, <1>6 DEF Stable
    <3>2. PICK i \in DOMAIN added : added[i] = file
      BY <1>2, <2>1, <2>3, <3>1
    <3>3. Len(listed) + i \in DOMAIN listed' /\ listed'[Len(listed) + i] = file
      BY <1>3, <3>2
    <3> QED BY <3>3 DEF Range
  <2> QED BY <2>1, <2>2, <2>3
<1>7. ASSUME NEW d \in 1..dir, NEW file \in Files,
             file[1] = Tiers[tier][d], Stable(file)'
      PROVE  file \in Range(listed')
  <2>1. dir \in Nat
    BY <1>1, Tables DEF TypeOK
  <2>2. CASE d = dir
    BY <1>6, <1>7, <2>2 DEF Here
  <2>3. CASE d \in 1..(dir - 1)
    BY <1>0, <1>4, <1>7, <2>3 DEF ScanInv, Scanned
  <2> QED BY <2>1, <2>2, <2>3
<1> QED BY <1>0, <1>4, <1>5, <1>7

LEMMA ListDropInsScans == ScanInv /\ ListDropIns => ScanInv'
<1> SUFFICES ASSUME ScanInv, ListDropIns PROVE ScanInv'
  OBVIOUS
<1>1. TypeOK /\ TypeOK'
  BY TypesStep DEF ScanInv, Next, Build
<1>2. /\ hasMain' = hasMain
      /\ \A file \in Files : Stable(file)' => Stable(file)
  BY DropInsScanned DEF ListDropIns
<1>3. /\ tier \in 1..Len(Tiers) /\ Len(Tiers) \in Nat
      /\ dir \in 1..Len(Tiers[tier]) /\ Len(Tiers[tier]) \in Nat
      /\ Range(Tiers[tier]) = {Tiers[tier][d] : d \in 1..Len(Tiers[tier])}
  BY <1>1, Tables DEF TypeOK, Range
<1>4. hasMain => <<Here, Main>> \in Range(listed')
  BY DropInsScanned DEF ScanInv, ListDropIns, MainListed
<1>5. CASE ~LeavesTier /\ dir' = dir + 1 /\ pc' = "main" /\ tier' = tier
  <2>1. \A d \in 1..(dir' - 1) : Scanned(d)'
    BY <1>2, <1>3, <1>5, DropInsScanned DEF Scanned
  <2>2. \A u \in 1..(tier' - 1), file \in Files :
          file[1] \in Range(Tiers[u]) => ~Stable(file)'
    BY <1>2, <1>5 DEF ScanInv
  <2> QED BY <1>1, <1>5, <2>1, <2>2, DropInsScanned DEF ScanInv, Listed
<1>6. CASE LeavesTier /\ ~StopsLookup /\ tier' = tier + 1 /\ dir' = 1 /\ pc' = "main"
  <2>1. Range(listed') = {} /\ DOMAIN listed' = {}
    BY <1>6 DEF StopsLookup, Range
  <2>2. dir = Len(Tiers[tier])
    BY <1>4, <1>6, <2>1 DEF LeavesTier
  <2>3. \A file \in Files : file[1] \in Range(Tiers[tier]) => ~Stable(file)'
    BY <1>3, <2>1, <2>2, DropInsScanned
  <2>4. \A u \in 1..(tier' - 1), file \in Files :
          file[1] \in Range(Tiers[u]) => ~Stable(file)'
    <3>1. \A u \in 1..(tier' - 1) : u = tier \/ u \in 1..(tier - 1)
      BY <1>3, <1>6
    <3> QED BY <1>2, <2>3, <3>1 DEF ScanInv
  <2>5. (1..(dir' - 1)) = {}
    BY <1>6
  <2> QED BY <1>1, <1>6, <2>1, <2>4, <2>5 DEF ScanInv, Listed
<1>7. CASE LeavesTier /\ StopsLookup /\ pc' = "exists" /\ tier' = tier /\ dir' = dir
  <2>1. \A d \in 1..dir' : Scanned(d)'
    BY <1>2, <1>7, DropInsScanned DEF Scanned
  <2>2. \A u \in 1..(tier' - 1), file \in Files :
          file[1] \in Range(Tiers[u]) => ~Stable(file)'
    BY <1>2, <1>7 DEF ScanInv
  <2>3. dir' = Len(Tiers[tier']) \/ MainListed'
    BY <1>4, <1>7 DEF LeavesTier, MainListed, Here
  <2>4. listed' # <<>> \/ tier' = Len(Tiers)
    BY <1>7 DEF StopsLookup
  <2>5. dir' \in 1..dir' /\ \A d \in 1..(dir' - 1) : d \in 1..dir'
    BY <1>3, <1>7
  <2>6. \A i \in DOMAIN listed' : listed'[i][1] \in Range(Tiers[tier'])
    BY <1>7, DropInsScanned
  <2> QED BY <1>1, <1>7, <2>1, <2>2, <2>3, <2>4, <2>5, <2>6 DEF ScanInv
<1> QED BY <1>5, <1>6, <1>7 DEF ListDropIns

LEMMA ScanStep == ScanInv /\ [Next]_vars => ScanInv'
<1> SUFFICES ASSUME ScanInv, [Next]_vars PROVE ScanInv'
  OBVIOUS
<1>1. TypeOK /\ TypeOK'
  BY TypesStep DEF ScanInv
<1>2. CASE CheckMain
  BY <1>2, CheckMainScans
<1>3. CASE ListDropIns
  BY <1>3, ListDropInsScans
<1>4. CASE /\ UNCHANGED lookup /\ Listed' = Listed
           /\ pc' = "dropins" => pc = "dropins"
  <2>1. /\ tier' = tier /\ dir' = dir /\ hasMain' = hasMain /\ listed' = listed
        /\ Here' = Here
    BY <1>4 DEF lookup, Here
  <2>2. <<Here, Main>> \in Files
    BY <1>1, Tables DEF TypeOK, Here, Dirs, Files
  <2>3. \A d : Scanned(d) => Scanned(d)'
    BY <1>1, <2>1, StableBefore DEF Scanned
  <2>4. \A u \in 1..(tier' - 1), file \in Files :
          file[1] \in Range(Tiers[u]) => ~Stable(file)'
    BY <1>1, <2>1, StableBefore DEF ScanInv
  <2>5. Stable(<<Here, Main>>)' => Stable(<<Here, Main>>)
    BY <1>1, <2>1, <2>2, StableBefore DEF Stable
  <2> QED BY <1>1, <1>4, <2>1, <2>3, <2>4, <2>5 DEF ScanInv, MainListed
<1> QED BY <1>2, <1>3, <1>4 DEF Next, Build, Exists, Load, LoadFails, Finish, Change,
       vars, Listed, lookup

LEMMA LookupScans == Spec => []ScanInv
BY InitScan, ScanStep, PTL DEF Spec

\* Types, and where the indices of a lookup and of a merge are, for any tiers
\* and drop-ins.
THEOREM TypeCorrect == Spec => []TypeOK
<1>1. ScanInv => TypeOK
  BY DEF ScanInv
<1> QED BY LookupScans, <1>1, PTL

\* Tiers are never mixed, and none is passed over that has a file nobody touched
\* and every look saw (lookup_config_files, drop_ins), whatever looks fail.
THEOREM FirstTierAlone == Spec => []FirstTierWins
<1>1. ScanInv => FirstTierWins
  <2> SUFFICES ASSUME ScanInv PROVE FirstTierWins
    OBVIOUS
  <2>1. /\ tier \in 1..Len(Tiers) /\ Len(Tiers) \in Nat /\ DOMAIN Tiers = 1..Len(Tiers)
        /\ dir \in 1..Len(Tiers[tier]) /\ Len(Tiers[tier]) \in Nat
        /\ Range(Tiers[tier]) = {Tiers[tier][d] : d \in 1..Len(Tiers[tier])}
    BY Tables DEF ScanInv, TypeOK, Range
  <2>2. ASSUME Listed, NEW file \in Files, Stable(file)
        PROVE  listed # <<>> /\ \A u \in DOMAIN Tiers : file[1] \in Range(Tiers[u]) => tier <= u
    <3>1. \A u \in DOMAIN Tiers : file[1] \in Range(Tiers[u]) => tier <= u
      <4>1. \A u \in DOMAIN Tiers : u \in 1..(tier - 1) \/ tier <= u
        BY <2>1
      <4> QED BY <2>2, <4>1 DEF ScanInv
    <3>2. ASSUME listed = <<>> PROVE FALSE
      <4>1. Range(listed) = {}
        BY <3>2 DEF Range
      <4>2. tier = Len(Tiers) /\ dir = Len(Tiers[tier])
        BY <2>2, <3>2, <4>1 DEF ScanInv, MainListed
      <4>3. PICK u \in DOMAIN Tiers : file[1] \in Range(Tiers[u])
        BY DEF Files, Dirs
      <4>4. u = tier
        BY <2>1, <3>1, <4>2, <4>3
      <4>5. PICK d \in 1..dir : file[1] = Tiers[tier][d]
        BY <2>1, <4>2, <4>3, <4>4
      <4>6. Scanned(d)
        <5>1. d \in 1..(dir - 1) \/ d = dir
          BY <2>1
        <5> QED BY <2>2, <5>1 DEF ScanInv
      <4> QED BY <2>2, <4>1, <4>5, <4>6 DEF Scanned
    <3> QED BY <3>1, <3>2
  <2> QED BY <2>1, <2>2 DEF FirstTierWins, ScanInv
<1> QED BY LookupScans, <1>1, PTL

-----------------------------------------------------------------------------
(* What becomes of the files that were found.                              *)

\* The inductive invariant: of the files listed, those before next that nobody
\* has touched and every look saw were read.
ReadInv ==
  /\ ScanInv
  /\ \A i \in 1..(next - 1) :
       Stable(listed[i]) => \E k \in DOMAIN read : read[k].file = listed[i]
  /\ pc = "merged" => next > Len(listed)

LEMMA LoadReads == ReadInv /\ Load => ReadInv'
<1> SUFFICES ASSUME ReadInv, Load PROVE ReadInv'
  OBVIOUS
<1>1. ScanInv /\ ScanInv' /\ TypeOK
  BY ScanStep DEF ReadInv, ScanInv, Next, Build
<1> DEFINE r == [file |-> listed[next], content |-> fs[listed[next]]]
<1>2. /\ read \in Seq([file : Files, content : Contents]) /\ read' = Append(read, r)
      /\ listed \in Seq(Files) /\ next \in 1..Len(listed)
  BY <1>1, LenProperties DEF TypeOK, Load
<1>3. r \in [file : Files, content : Contents]
  BY <1>2, ElementOfSeq DEF Load
<1>4. /\ \A k \in DOMAIN read : k \in DOMAIN read' /\ read'[k] = read[k]
      /\ Len(read) + 1 \in DOMAIN read' /\ read'[Len(read) + 1] = r
  BY <1>2, <1>3, AppendProperties, LenProperties
<1>5. ASSUME NEW i \in 1..(next' - 1), Stable(listed[i])
      PROVE  \E k \in DOMAIN read' : read'[k].file = listed[i]
  <2>1. CASE i = next
    BY <1>4, <2>1
  <2>2. CASE i # next
    <3>1. i \in 1..(next - 1)
      BY <1>2, <2>2 DEF Load
    <3> QED BY <1>4, <1>5, <3>1 DEF ReadInv
  <2> QED BY <2>1, <2>2
<1>6. /\ fs' = fs /\ touched' = touched /\ unseen' = unseen
      /\ listed' = listed /\ pc' = "exists"
  BY DEF Load, lookup
<1> QED BY <1>1, <1>5, <1>6 DEF ReadInv, Stable

LEMMA ReadStep == ReadInv /\ [Next]_vars => ReadInv'
<1> SUFFICES ASSUME ReadInv, [Next]_vars PROVE ReadInv'
  OBVIOUS
<1>1. ScanInv /\ ScanInv' /\ TypeOK
  BY ScanStep DEF ReadInv, ScanInv
<1>2. /\ \A i \in 1..(next - 1) : listed[i] \in Files
      /\ next \in Nat /\ Len(listed) \in Nat
  <2>1. /\ listed \in Seq(Files) /\ Len(listed) \in Nat /\ next \in 1..(Len(listed) + 1)
    BY <1>1, LenProperties DEF TypeOK
  <2>2. \A i \in 1..(next - 1) : i \in 1..Len(listed)
    BY <2>1
  <2> QED BY <2>1, <2>2, ElementOfSeq
<1>3. CASE CheckMain \/ ListDropIns
  <2>1. (1..(next' - 1)) = {} /\ pc' # "merged"
    BY <1>1, <1>3 DEF CheckMain, ListDropIns, TypeOK
  <2> QED BY <1>1, <2>1 DEF ReadInv
<1>4. CASE Exists
  <2>1. /\ fs' = fs /\ touched' = touched /\ listed' = listed /\ read' = read
        /\ unseen \subseteq unseen' /\ pc' # "merged"
    BY <1>4, Seen DEF Exists, lookup, result
  <2>2. CASE next' = next
    BY <1>1, <2>1, <2>2 DEF ReadInv, Stable
  <2>3. CASE See({listed[next]}, {}) /\ next' = next + 1
    <3>1. \A i \in 1..(next' - 1) : i \in 1..(next - 1) \/ i = next
      BY <1>2, <2>3
    <3>2. fs[listed[next]] = Absent \/ listed[next] \in unseen'
      BY <2>3, Seen
    <3> QED BY <1>1, <2>1, <2>3, <3>1, <3>2 DEF ReadInv, Stable
  <2> QED BY <1>4, <2>2, <2>3 DEF Exists
<1>5. CASE Load
  BY <1>5, LoadReads
<1>6. CASE LoadFails \/ Finish
  <2>1. /\ fs' = fs /\ touched' = touched /\ unseen' = unseen
        /\ listed' = listed /\ read' = read /\ next' = next
        /\ (pc' = "merged" => next > Len(listed))
    BY <1>6 DEF LoadFails, Finish, lookup, result
  <2> QED BY <1>1, <2>1 DEF ReadInv, Stable
<1>7. CASE UNCHANGED <<pc, lookup, next, result>>
  <2>1. listed' = listed /\ read' = read /\ next' = next /\ pc' = pc
    BY <1>7 DEF lookup, result
  <2>2. \A i \in 1..(next - 1) : Stable(listed[i])' => Stable(listed[i])
    <3> SUFFICES ASSUME NEW i \in 1..(next - 1), Stable(listed[i])'
                 PROVE  Stable(listed[i])
      OBVIOUS
    <3>1. PICK file \in Files : file = listed[i]
      BY <1>2
    <3>2. Stable(file)'
      BY <2>1, <3>1 DEF Stable
    <3> QED BY <1>1, <3>1, <3>2, StableBefore
  <2>3. \A i \in 1..(next' - 1) :
          Stable(listed[i])' => \E k \in DOMAIN read' : read'[k].file = listed'[i]
    BY <2>1, <2>2 DEF ReadInv
  <2> QED BY <1>1, <2>1, <2>3 DEF ReadInv
<1> QED BY <1>3, <1>4, <1>5, <1>6, <1>7 DEF Next, Build, Change, vars

\* In the tier that wins, a file nobody touched and every look saw is merged unless
\* a client.conf of an earlier directory ended the scan (lookup_config_files,
\* load_merged), whatever looks at other files fail.
THEOREM StableFilesAreMerged == Spec => []NothingStableIsLost
<1>1. Init => ReadInv
  <2> SUFFICES ASSUME Init PROVE ReadInv
    OBVIOUS
  <2>1. (1..(next - 1)) = {} /\ pc # "merged"
    BY DEF Init
  <2> QED BY InitScan, <2>1 DEF ReadInv
<1>2. ReadInv => NothingStableIsLost
  <2> SUFFICES ASSUME ReadInv, pc = "merged",
                      NEW d \in DOMAIN Tiers[tier],
                      \A e \in 1..(d - 1) : <<Tiers[tier][e], Main>> \notin Range(listed),
                      NEW file \in Files, file[1] = Tiers[tier][d], Stable(file)
               PROVE  \E k \in DOMAIN read : read[k].file = file
    BY DEF NothingStableIsLost
  <2>1. /\ ScanInv /\ Listed /\ next > Len(listed) /\ next \in Nat
        /\ Len(listed) \in Nat /\ DOMAIN listed = 1..Len(listed)
        /\ dir \in 1..Len(Tiers[tier]) /\ d \in 1..Len(Tiers[tier])
        /\ Len(Tiers[tier]) \in Nat
    BY Tables, LenProperties DEF ReadInv, ScanInv, TypeOK, Listed
  <2>2. d <= dir
    <3> SUFFICES ASSUME d > dir PROVE FALSE
      BY <2>1
    <3>1. <<Tiers[tier][dir], Main>> \in Range(listed)
      BY <2>1 DEF ScanInv, MainListed, Here
    <3>2. dir \in 1..(d - 1)
      BY <2>1
    <3> QED BY <3>1, <3>2
  <2>3. Scanned(d)
    <3>1. d \in 1..(dir - 1) \/ d = dir
      BY <2>1, <2>2
    <3> QED BY <2>1, <3>1 DEF ScanInv
  <2>4. PICK i \in DOMAIN listed : listed[i] = file
    BY <2>3 DEF Scanned, Range
  <2>5. i \in 1..(next - 1)
    BY <2>1
  <2> QED BY <2>4, <2>5 DEF ReadInv
<1> QED BY <1>1, <1>2, ReadStep, PTL DEF Spec

-----------------------------------------------------------------------------
(* The order of the files.                                                 *)

\* The inductive invariant: until the lookup is over, what is listed is of the
\* directories before dir, or the client.conf of dir itself.
OrderInv ==
  /\ MergeOrder
  /\ \A i \in DOMAIN listed :
       \/ \E d \in 1..(dir - 1) : Tiers[tier][d] = listed[i][1]
       \/ pc = "dropins" /\ listed[i] = <<Here, Main>>
       \/ Listed

LEMMA CheckMainOrders == TypeOK /\ OrderInv /\ CheckMain => OrderInv'
<1> SUFFICES ASSUME TypeOK, OrderInv, CheckMain PROVE OrderInv'
  OBVIOUS
<1>1. /\ pc = "main" /\ pc' = "dropins" /\ tier' = tier /\ dir' = dir
      /\ listed' = IF hasMain' THEN Append(listed, <<Here, Main>>) ELSE listed
      /\ Here' = Here
  BY DEF CheckMain, Here
<1>2. \A i \in DOMAIN listed : \E d \in 1..(dir - 1) : Tiers[tier][d] = listed[i][1]
  BY <1>1 DEF OrderInv, Listed
<1>3. CASE ~hasMain'
  BY <1>1, <1>2, <1>3 DEF OrderInv, MergeOrder, Precedes
<1>4. CASE hasMain'
  <2>1. <<Here, Main>> \in Files
    BY Tables DEF TypeOK, Here, Dirs, Files
  <2>2. listed \in Seq(Files) /\ listed' = Append(listed, <<Here, Main>>)
    BY <1>1, <1>4 DEF TypeOK
  <2>3. /\ Len(listed) \in Nat /\ DOMAIN listed = 1..Len(listed)
        /\ DOMAIN listed' = 1..(Len(listed) + 1)
        /\ listed'[Len(listed) + 1] = <<Here, Main>>
        /\ \A i \in DOMAIN listed : listed'[i] = listed[i]
    BY <2>1, <2>2, AppendProperties, LenProperties
  <2>4. dir \in DOMAIN Tiers[tier] /\ dir \in Nat
        /\ \A d \in 1..(dir - 1) : d \in DOMAIN Tiers[tier] /\ d < dir
    BY Tables DEF TypeOK
  <2>5. \A i \in DOMAIN listed : Precedes(listed[i], <<Here, Main>>)
    BY <1>2, <2>4 DEF Precedes, Here
  <2>6. \A a, b : Precedes(a, b)' = Precedes(a, b)
    BY <1>1 DEF Precedes
  <2>7. ASSUME NEW i \in DOMAIN listed', NEW j \in DOMAIN listed', i < j
        PROVE  Precedes(listed'[i], listed'[j])
    BY <2>3, <2>5, <2>7 DEF OrderInv, MergeOrder
  <2>8. MergeOrder'
    BY <2>6, <2>7 DEF MergeOrder
  <2> QED BY <1>1, <1>2, <2>3, <2>8 DEF OrderInv
<1> QED BY <1>3, <1>4

LEMMA ListDropInsOrders == TypeOK /\ OrderInv /\ ListDropIns => OrderInv'
<1> SUFFICES ASSUME TypeOK, OrderInv, ListDropIns PROVE OrderInv'
  OBVIOUS
<1>1. pc = "dropins" /\ AddDropIns
  BY DEF ListDropIns
<1>2. PICK added \in Seq(Files) :
        /\ listed' = listed \o added
        /\ \A i \in DOMAIN added :
             added[i][1] = Here /\ added[i][2] \in Range(DropIns)
        /\ \A i, j \in DOMAIN added :
             i < j => Before(DropIns, added[i][2], added[j][2])
  BY <1>1, DropInsAdded
<1>3. /\ DOMAIN listed' = 1..(Len(listed) + Len(added))
      /\ DOMAIN listed = 1..Len(listed) /\ DOMAIN added = 1..Len(added)
      /\ Len(listed) \in Nat /\ Len(added) \in Nat
      /\ \A i \in 1..Len(listed) : listed'[i] = listed[i]
      /\ \A i \in (Len(listed) + 1)..(Len(listed) + Len(added)) :
           i - Len(listed) \in 1..Len(added) /\ listed'[i] = added[i - Len(listed)]
  BY <1>2, Concatenated DEF TypeOK
<1>4. \A i \in DOMAIN listed :
        \/ \E d \in 1..(dir - 1) : Tiers[tier][d] = listed[i][1]
        \/ listed[i] = <<Here, Main>>
  BY <1>1 DEF OrderInv, Listed
<1>5. /\ dir \in DOMAIN Tiers[tier] /\ dir \in Nat \ {0} /\ Tiers[tier][dir] = Here
      /\ \A d \in 1..(dir - 1) : d \in DOMAIN Tiers[tier] /\ d < dir
  BY Tables DEF TypeOK, Here
<1>6. ASSUME NEW i \in DOMAIN listed, NEW j \in DOMAIN added
      PROVE  Precedes(listed[i], added[j])
  <2>1. added[j][1] = Here /\ added[j][2] # Main
    BY <1>2, Tables
  <2> QED BY <1>4, <1>5, <2>1 DEF Precedes
<1>7. ASSUME NEW i \in DOMAIN added, NEW j \in DOMAIN added, i < j
      PROVE  Precedes(added[i], added[j])
  <2>1. PICK m \in DOMAIN DropIns :
          DropIns[m] = added[i][2] /\ \A k \in 1..m : DropIns[k] # added[j][2]
    BY <1>2, <1>7 DEF Before
  <2>2. PICK n \in DOMAIN DropIns : DropIns[n] = added[j][2]
    BY <1>2 DEF Range
  <2>3. m < n
    BY <2>1, <2>2, Tables
  <2>4. added[i][1] = added[j][1]
    BY <1>2
  <2> QED BY <2>1, <2>2, <2>3, <2>4 DEF Precedes
<1>8. ASSUME NEW i \in DOMAIN listed', NEW j \in DOMAIN listed', i < j
      PROVE  Precedes(listed'[i], listed'[j])
  <2>1. CASE j \in DOMAIN listed
    <3>1. i \in DOMAIN listed
      BY <1>3, <1>8, <2>1
    <3> QED BY <1>3, <1>8, <2>1, <3>1 DEF OrderInv, MergeOrder
  <2>2. CASE j \notin DOMAIN listed
    <3>1. j - Len(listed) \in DOMAIN added /\ listed'[j] = added[j - Len(listed)]
      BY <1>3, <2>2
    <3>2. CASE i \in DOMAIN listed
      BY <1>3, <1>6, <3>1, <3>2
    <3>3. CASE i \notin DOMAIN listed
      <4>1. /\ i - Len(listed) \in DOMAIN added /\ listed'[i] = added[i - Len(listed)]
            /\ i - Len(listed) < j - Len(listed)
        BY <1>3, <1>8, <3>3
      <4> QED BY <1>7, <3>1, <4>1
    <3> QED BY <3>2, <3>3
  <2> QED BY <2>1, <2>2
<1>9. \A i \in DOMAIN listed' : \E d \in 1..dir : Tiers[tier][d] = listed'[i][1]
  <2> SUFFICES ASSUME NEW i \in DOMAIN listed'
               PROVE  \E d \in 1..dir : Tiers[tier][d] = listed'[i][1]
    OBVIOUS
  <2>1. dir \in 1..dir /\ \A d \in 1..(dir - 1) : d \in 1..dir
    BY <1>5
  <2>2. CASE i \in DOMAIN listed
    BY <1>3, <1>4, <1>5, <2>1, <2>2
  <2>3. CASE i \notin DOMAIN listed
    BY <1>2, <1>3, <1>5, <2>1, <2>3
  <2> QED BY <2>2, <2>3
<1>10. CASE tier' = tier /\ dir' = dir + 1 /\ pc' = "main"
  <2>1. \A a, b : Precedes(a, b)' = Precedes(a, b)
    BY <1>10 DEF Precedes
  <2>2. dir' - 1 = dir
    BY <1>5, <1>10
  <2> QED BY <1>8, <1>9, <1>10, <2>1, <2>2 DEF OrderInv, MergeOrder
<1>11. CASE listed' = <<>>
  BY <1>11 DEF OrderInv, MergeOrder
<1>12. CASE pc' = "exists" /\ tier' = tier /\ dir' = dir
  <2>1. \A a, b : Precedes(a, b)' = Precedes(a, b)
    BY <1>12 DEF Precedes
  <2> QED BY <1>8, <1>12, <2>1 DEF OrderInv, MergeOrder, Listed
<1> QED BY <1>10, <1>11, <1>12 DEF ListDropIns, StopsLookup

LEMMA OrderStep == TypeOK /\ OrderInv /\ [Next]_vars => OrderInv'
<1> SUFFICES ASSUME TypeOK, OrderInv, [Next]_vars PROVE OrderInv'
  OBVIOUS
<1>1. CASE UNCHANGED lookup /\ (pc' = pc \/ (Listed /\ Listed'))
  <2>1. tier' = tier /\ dir' = dir /\ listed' = listed /\ Here' = Here
    BY <1>1 DEF lookup, Here
  <2>2. MergeOrder'
    BY <2>1 DEF OrderInv, MergeOrder, Precedes
  <2> QED BY <1>1, <2>1, <2>2 DEF OrderInv, Listed
<1> QED BY <1>1, CheckMainOrders, ListDropInsOrders DEF Next, Build, Exists, Load,
       LoadFails, Finish, Change, vars, Listed

\* Files are listed directory by directory, in each the client.conf and then its
\* drop-ins by name (lookup_config_files, drop_ins).
LEMMA FilesInOrder == Spec => []MergeOrder
<1>1. Init => OrderInv
  BY DEF Init, OrderInv, MergeOrder
<1>2. OrderInv => MergeOrder
  BY DEF OrderInv
<1>3. ScanInv => TypeOK
  BY DEF ScanInv
<1> QED BY <1>1, <1>2, <1>3, OrderStep, LookupScans, PTL DEF Spec

-----------------------------------------------------------------------------
(* The order of the sections.                                              *)

\* The inductive invariant: no section comes of files without entries.
SectionInv ==
  /\ FirstSectionStays
  /\ (\A j \in DOMAIN read : read[j].content = <<>>) => order = <<>>

LEMMA LoadOrdersSections == TypeOK /\ SectionInv /\ Load => SectionInv'
<1> SUFFICES ASSUME TypeOK, SectionInv, Load PROVE SectionInv'
  OBVIOUS
<1> DEFINE content == fs[listed[next]]
           r == [file |-> listed[next], content |-> content]
           n == Len(read) + 1
<1>1. /\ content \in Contents /\ read' = Append(read, r) /\ AddSections(content)
      /\ order \in Seq(Sections) /\ read \in Seq([file : Files, content : Contents])
      /\ listed \in Seq(Files) /\ next \in 1..Len(listed)
  BY LenProperties DEF Load, TypeOK
<1>2. r \in [file : Files, content : Contents]
  BY <1>1, ElementOfSeq
<1>3. /\ Len(read) \in Nat /\ DOMAIN read = 1..Len(read) /\ DOMAIN read' = 1..n
      /\ read'[n].content = content
      /\ \A i \in 1..Len(read) : read'[i] = read[i]
  BY <1>1, <1>2, AppendProperties, LenProperties
<1>4. PICK new \in Seq(Sections) :
        /\ order' = order \o new
        /\ \A i \in DOMAIN new : \E k \in DOMAIN content : content[k][1] = new[i]
        /\ \A i \in DOMAIN content :
             content[i][1] \notin Range(order) =>
               \E k \in DOMAIN new : new[k] = content[i][1]
        /\ \A i, j \in DOMAIN new :
             i < j => Before(SectionsIn(content), new[i], new[j])
  BY <1>1, SectionsAdded
<1>5. content \in Seq(Sections \X Keys) /\ Len(content) \in Nat
      /\ DOMAIN content = 1..Len(content)
      /\ (content # <<>> => 1 \in DOMAIN content)
      /\ (content = <<>> => DOMAIN content = {})
  <2>1. content \in Seq(Sections \X Keys)
    BY <1>1, LookupAssumption DEF LookupAssumption
  <2>2. Len(content) \in Nat /\ DOMAIN content = 1..Len(content)
    BY <2>1, LenProperties
  <2>3. content # <<>> => Len(content) \in Nat \ {0}
    BY <2>1, EmptySeq
  <2>4. content = <<>> => Len(content) = 0
    BY EmptySeq
  <2> QED BY <2>1, <2>2, <2>3, <2>4
<1>6. /\ order' \in Seq(Sections)
      /\ order # <<>> => order' # <<>> /\ order'[1] = order[1]
      /\ order = <<>> => order' = new
  <2>1. order' \in Seq(Sections)
    BY <1>1, <1>4, Concatenated
  <2>2. order = <<>> => order' = new
    BY <1>4, ConcatEmptySeq
  <2>3. order # <<>> => order' # <<>> /\ order'[1] = order[1]
    <3> SUFFICES ASSUME order # <<>> PROVE order' # <<>> /\ order'[1] = order[1]
      OBVIOUS
    <3>1. Len(order) \in Nat \ {0}
      BY <1>1, EmptySeq
    <3>2. /\ Len(new) \in Nat /\ Len(order') = Len(order) + Len(new)
          /\ \A i \in 1..Len(order) : order'[i] = order[i]
      BY <1>1, <1>4, Concatenated
    <3>3. Len(order') # 0
      BY <3>1, <3>2
    <3> QED BY <3>1, <3>2, <3>3, EmptySeq
  <2> QED BY <2>1, <2>2, <2>3
<1>7. ASSUME order = <<>>, content # <<>>
      PROVE  order' # <<>> /\ order'[1] = content[1][1]
  <2>1. Range(order) = {}
    BY <1>7 DEF Range
  <2>2. PICK k \in DOMAIN new : new[k] = content[1][1]
    BY <1>4, <1>5, <1>7, <2>1
  <2>3. k \in Nat \ {0} /\ 1 \in DOMAIN new
    BY <2>2, LenProperties
  <2>4. SectionsIn(content)[1] = content[1][1]
    BY <1>5, <1>7 DEF SectionsIn
  <2>5. DOMAIN SectionsIn(content) = 1..Len(content)
    BY <1>5 DEF SectionsIn
  <2>6. k = 1
    <3> SUFFICES ASSUME 1 < k PROVE FALSE
      BY <2>3
    <3>1. Before(SectionsIn(content), new[1], content[1][1])
      BY <1>4, <2>2, <2>3
    <3>2. PICK i \in 1..Len(content) :
            \A j \in 1..i : SectionsIn(content)[j] # content[1][1]
      BY <2>5, <3>1 DEF Before
    <3>3. 1 \in 1..i
      BY <1>5, <3>2
    <3> QED BY <2>4, <3>2, <3>3
  <2> QED BY <1>6, <1>7, <2>2, <2>6
<1>8. (\A j \in DOMAIN read' : read'[j].content = <<>>) => order' = <<>>
  <2> SUFFICES ASSUME \A j \in DOMAIN read' : read'[j].content = <<>>
               PROVE  order' = <<>>
    OBVIOUS
  <2>1. order = <<>> /\ content = <<>>
    BY <1>3 DEF SectionInv
  <2>2. DOMAIN new = {}
    BY <1>4, <1>5, <2>1
  <2>3. Len(new) = 0
    BY <2>2, LenProperties
  <2> QED BY <1>6, <2>1, <2>3, EmptySeq
<1>9. ASSUME NEW i \in DOMAIN read', read'[i].content # <<>>
      PROVE  /\ order' # <<>>
             /\ (\A j \in 1..(i - 1) : read'[j].content = <<>>) =>
                  order'[1] = read'[i].content[1][1]
  <2>1. CASE i = n
    <3>1. (\A j \in 1..(i - 1) : read'[j].content = <<>>) => order = <<>>
      BY <1>3, <2>1 DEF SectionInv
    <3> QED BY <1>3, <1>6, <1>7, <1>9, <2>1, <3>1
  <2>2. CASE i # n
    <3>1. i \in DOMAIN read /\ read'[i] = read[i]
      BY <1>3, <2>2
    <3>2. \A j \in 1..(i - 1) : read'[j] = read[j]
      BY <1>3, <3>1
    <3> QED BY <1>6, <1>9, <3>1, <3>2 DEF SectionInv, FirstSectionStays
  <2> QED BY <2>1, <2>2
<1> QED BY <1>8, <1>9 DEF SectionInv, FirstSectionStays

\* The default server is the first section that any file has an entry of, and
\* stays it (load_merged).
LEMMA FirstSectionFirst == Spec => []FirstSectionStays
<1>1. Init => SectionInv
  BY DEF Init, SectionInv, FirstSectionStays
<1>2. TypeOK /\ SectionInv /\ [Next]_vars => SectionInv'
  <2> SUFFICES ASSUME TypeOK, SectionInv, [Next]_vars PROVE SectionInv'
    OBVIOUS
  <2>1. CASE UNCHANGED <<read, order>>
    BY <2>1 DEF SectionInv, FirstSectionStays
  <2> QED
    BY <2>1, LoadOrdersSections DEF Next, Build, CheckMain, ListDropIns, Exists,
       LoadFails, Finish, Change, vars, result
<1>3. SectionInv => FirstSectionStays
  BY DEF SectionInv
<1>4. ScanInv => TypeOK
  BY DEF ScanInv
<1> QED BY <1>1, <1>2, <1>3, <1>4, LookupScans, PTL DEF Spec

-----------------------------------------------------------------------------
(* The values of the entries.                                              *)

\* The inductive invariant: read is a sequence, whatever it holds.
MergeInv ==
  /\ \E S : read \in Seq(S)
  /\ LaterFilesWin

LEMMA ReadGrows ==
  ASSUME NEW S, read \in Seq(S), NEW r, read' = Append(read, r)
  PROVE  /\ read' \in Seq(S \cup {r})
         /\ Len(read) \in Nat /\ DOMAIN read = 1..Len(read)
         /\ DOMAIN read' = 1..(Len(read) + 1)
         /\ read'[Len(read) + 1] = r
         /\ \A i \in DOMAIN read : read'[i] = read[i]
<1>1. read \in Seq(S \cup {r})
  BY SeqMonotonic
<1> QED BY <1>1, AppendProperties, LenProperties

LEMMA LoadMerges ==
  ASSUME MergeInv, Load
  PROVE  MergeInv'
<1> DEFINE content == fs[listed[next]]
           r == [file |-> listed[next], content |-> content]
           n == Len(read) + 1
<1>1. PICK S : read \in Seq(S)
  BY DEF MergeInv
<1>2. read' = Append(read, r) /\ merged' = SetTo(content, listed[next])
  BY DEF Load
<1>3. /\ read' \in Seq(S \cup {r})
      /\ Len(read) \in Nat /\ DOMAIN read = 1..Len(read)
      /\ DOMAIN read' = 1..n /\ read'[n] = r
      /\ \A i \in DOMAIN read : read'[i] = read[i]
  BY <1>1, <1>2, ReadGrows
<1>4. ASSUME NEW e \in Entries
      PROVE  LET having == {i \in DOMAIN read' : e \in Range(read'[i].content)}
             IN IF having = {} THEN merged'[e] = Unset
                ELSE \E i \in having :
                       merged'[e] = read'[i].file /\ \A j \in having : j <= i
  <2> DEFINE having == {i \in DOMAIN read : e \in Range(read[i].content)}
             after == {i \in DOMAIN read' : e \in Range(read'[i].content)}
  <2>1. merged'[e] = IF e \in Range(content) THEN listed[next] ELSE merged[e]
    BY <1>2 DEF SetTo
  <2>2. CASE e \in Range(content)
    <3>1. n \in after /\ \A j \in after : j <= n
      BY <1>3, <2>2
    <3>2. merged'[e] = read'[n].file
      BY <1>3, <2>1, <2>2
    <3> QED BY <3>1, <3>2
  <2>3. CASE e \notin Range(content)
    <3>1. after = having
      BY <1>3, <2>3
    <3>2. merged'[e] = merged[e]
      BY <2>1, <2>3
    <3>3. IF having = {} THEN merged[e] = Unset
          ELSE \E i \in having :
                 merged[e] = read[i].file /\ \A j \in having : j <= i
      BY DEF MergeInv, LaterFilesWin
    <3>4. \A i \in having : read'[i] = read[i]
      BY <1>3
    <3> HIDE DEF having, after
    <3> QED BY <3>1, <3>2, <3>3, <3>4 DEF after
  <2> QED BY <2>2, <2>3
<1>5. LaterFilesWin'
  BY <1>4 DEF LaterFilesWin
<1> QED BY <1>3, <1>5 DEF MergeInv

\* Whatever the files hold and however they change, each entry of the merged
\* configuration has the value of the last file that was read with it, and an
\* entry of no file has none (load_merged).
LEMMA LastFileWins == Spec => []LaterFilesWin
<1>1. Init => MergeInv
  BY EmptySeq DEF Init, MergeInv, LaterFilesWin
<1>2. MergeInv /\ [Next]_vars => MergeInv'
  <2> SUFFICES ASSUME MergeInv, [Next]_vars PROVE MergeInv'
    OBVIOUS
  <2>1. CASE Load
    BY <2>1, LoadMerges
  <2>2. CASE UNCHANGED <<merged, read>>
    BY <2>2 DEF MergeInv, LaterFilesWin
  <2> QED
    BY <2>1, <2>2 DEF Next, Build, CheckMain, ListDropIns, Exists, LoadFails,
       Finish, Change, vars, result
<1>3. MergeInv => LaterFilesWin
  BY DEF MergeInv
<1> QED BY <1>1, <1>2, <1>3, PTL DEF Spec

\* Files are merged in their order, the last value of an entry wins, and the first
\* section stays the first, for any tiers, contents and changes.
THEOREM MergesInOrder == Spec => []MergedInOrder
<1>1. MergeOrder /\ LaterFilesWin /\ FirstSectionStays => MergedInOrder
  BY DEF MergedInOrder
<1> QED BY FilesInOrder, LastFileWins, FirstSectionFirst, <1>1, PTL

=============================================================================

---------------------------- MODULE ConfigLookup ----------------------------
(***************************************************************************)
(* How a build finds and merges its client.conf files (src/src/config.rs): *)
(* lookup_config_files over tiers of directories, then load_merged over    *)
(* the files it found, while somebody else creates, rewrites and removes   *)
(* files.  Each look at the file system is a step of its own, and may fail *)
(* to see a file that is there.                                            *)
(***************************************************************************)
EXTENDS Naturals, Sequences, FiniteSets, SequencesExt

CONSTANTS
  Tiers,       \* sequence of tiers, a tier being a sequence of directories
  DropIns,     \* names of *.conf drop-ins, sorted
  Sections,
  Keys,
  Contents,    \* what a file may hold: sequences of <<section, key>>
  MaxFiles,    \* bound on the files there are at first
  MaxTouched,  \* bound on the files others change
  Absent,
  Garbled,     \* a file that is no ini file, or cannot be read
  Unset

ASSUME LookupAssumption ==
  /\ Tiers \in Seq(Seq(STRING))
  /\ Tiers # <<>> /\ \A t \in DOMAIN Tiers : Tiers[t] # <<>>
  /\ DropIns \in Seq(STRING) /\ "client.conf" \notin Range(DropIns)
  /\ Contents \subseteq Seq(Sections \X Keys)
  /\ MaxFiles \in Nat /\ MaxTouched \in Nat
  /\ {Absent, Garbled} \cap Contents = {}

Dirs == UNION {Range(Tiers[t]) : t \in DOMAIN Tiers}
Main == "client.conf"
Files == Dirs \X ({Main} \cup Range(DropIns))
Entries == Sections \X Keys

VARIABLES
  fs,       \* content of every file
  pc,
  tier, dir,   \* where the lookup is
  hasMain,  \* has_main of the directory at hand
  listed,   \* the files found, in merge order
  next,     \* index of the file to be read next
  merged,   \* file whose value each entry has
  order,    \* sections of the merged configuration, oldest first
  read,     \* history: files and the contents that were merged
  touched,  \* history: the files others changed
  unseen    \* history: the files that a look did not see although they were there

lookup == <<tier, dir, hasMain, listed>>
result == <<merged, order, read>>
vars == <<fs, pc, lookup, next, result, touched, unseen>>

Init ==
  /\ \E present \in SUBSET Files :
       /\ Cardinality(present) <= MaxFiles
       /\ \E content \in [present -> Contents \cup {Garbled}] :
            fs = [f \in Files |-> IF f \in present THEN content[f] ELSE Absent]
  /\ pc = "main"
  /\ tier = 1 /\ dir = 1
  /\ hasMain = FALSE
  /\ listed = <<>>
  /\ next = 1
  /\ merged = [e \in Entries |-> Unset]
  /\ order = <<>>
  /\ read = <<>>
  /\ touched = {}
  /\ unseen = {}

-----------------------------------------------------------------------------
\* x appears in a sequence before any y.
Before(seq, x, y) ==
  \E i \in DOMAIN seq : seq[i] = x /\ \A j \in 1..i : seq[j] # y

\* The elements of a set, each once, in the order of a sequence that has them:
\* a set with one member.
InOrderOf(seq, set) ==
  {s \in SeqOf(set, Len(seq)) :
     /\ Range(s) = set
     /\ \A i, j \in DOMAIN s : i < j => Before(seq, s[i], s[j])}

Here == Tiers[tier][dir]

\* A look at files sees some of those that are there: is_file and exists take an
\* error for an absent file, a directory that cannot be read is an empty one.
See(files, seen) ==
  LET there == {file \in files : fs[file] # Absent}
  IN seen \subseteq there /\ unseen' = unseen \cup (there \ seen)

\* main.is_file()
CheckMain ==
  /\ pc = "main"
  /\ hasMain' \in BOOLEAN
  /\ See({<<Here, Main>>}, IF hasMain' THEN {<<Here, Main>>} ELSE {})
  /\ listed' = IF hasMain' THEN Append(listed, <<Here, Main>>) ELSE listed
  /\ pc' = "dropins"
  /\ UNCHANGED <<fs, tier, dir, next, result, touched>>

\* Variants: any file of a directory hides the directories after it; a tier
\* ends at a client.conf only.
LeavesTierEarly == hasMain \/ listed' # <<>> \/ dir = Len(Tiers[tier])
LeavesTierOnMain == hasMain
LeavesTier == hasMain \/ dir = Len(Tiers[tier])

\* Variant: the tiers are merged, as they were once.
StopsAtLastTier == tier = Len(Tiers)
StopsLookup == listed' # <<>> \/ tier = Len(Tiers)

\* drop_ins, taken as one look at the directory, and sorted.
AddDropIns ==
  \E seen \in SUBSET Range(DropIns) : \E names \in InOrderOf(DropIns, seen) :
    /\ See({Here} \X Range(DropIns), {Here} \X seen)
    /\ listed' = listed \o [i \in DOMAIN names |-> <<Here, names[i]>>]

\* Then the directory, the tier or the lookup is done.
ListDropIns ==
  /\ pc = "dropins"
  /\ AddDropIns
  /\ \/ /\ ~LeavesTier
        /\ dir' = dir + 1 /\ pc' = "main" /\ UNCHANGED tier
     \/ /\ LeavesTier /\ ~StopsLookup
        /\ tier' = tier + 1 /\ dir' = 1 /\ pc' = "main"
     \/ /\ LeavesTier /\ StopsLookup
        /\ pc' = "exists" /\ UNCHANGED <<tier, dir>>
  /\ UNCHANGED <<fs, hasMain, next, result, touched>>

-----------------------------------------------------------------------------
\* path.exists()
Exists ==
  /\ pc = "exists" /\ next <= Len(listed)
  /\ \/ See({listed[next]}, {}) /\ next' = next + 1 /\ UNCHANGED pc
     \/ See({listed[next]}, {listed[next]}) /\ pc' = "load" /\ UNCHANGED next
  /\ UNCHANGED <<fs, lookup, result, touched>>

\* Variant: the first value of an entry stays.
FirstWins(content, file) ==
  [e \in Entries |->
     IF merged[e] = Unset /\ e \in Range(content) THEN file ELSE merged[e]]

\* set_to: the last value of an entry stays.
SetTo(content, file) ==
  [e \in Entries |-> IF e \in Range(content) THEN file ELSE merged[e]]

\* A section appears with its first entry: an empty one leaves no trace.
SectionsIn(content) == [i \in DOMAIN content |-> content[i][1]]
NewSections(content) == Range(SectionsIn(content)) \ Range(order)
AddSections(content) ==
  \E new \in InOrderOf(SectionsIn(content), NewSections(content)) :
    order' = order \o new

Load ==
  /\ pc = "load"
  /\ fs[listed[next]] \in Contents
  /\ LET content == fs[listed[next]]
     IN /\ merged' = SetTo(content, listed[next])
        /\ AddSections(content)
        /\ read' = Append(read, [file |-> listed[next], content |-> content])
  /\ next' = next + 1
  /\ pc' = "exists"
  /\ UNCHANGED <<fs, lookup, touched, unseen>>

\* Error::Config, also for a file that has gone since exists().
LoadFails ==
  /\ pc = "load"
  /\ fs[listed[next]] \in {Absent, Garbled}
  /\ pc' = "failed"
  /\ UNCHANGED <<fs, lookup, next, result, touched, unseen>>

Finish ==
  /\ pc = "exists" /\ next > Len(listed)
  /\ pc' = "merged"
  /\ UNCHANGED <<fs, lookup, next, result, touched, unseen>>

\* Somebody else creates, rewrites or removes a file.
Change(file, content) ==
  /\ pc \notin {"merged", "failed"}
  /\ fs[file] # content
  /\ fs' = [fs EXCEPT ![file] = content]
  /\ touched' = touched \cup {file}
  /\ Cardinality(touched') <= MaxTouched
  /\ UNCHANGED <<pc, lookup, next, result, unseen>>

Build == CheckMain \/ ListDropIns \/ Exists \/ Load \/ LoadFails \/ Finish

Next ==
  \/ Build
  \/ \E file \in Files, content \in Contents \cup {Absent, Garbled} :
       Change(file, content)

Spec == Init /\ [][Next]_vars

-----------------------------------------------------------------------------
\* Types, and where next is.
TypeOK ==
  /\ fs \in [Files -> Contents \cup {Absent, Garbled}]
  /\ pc \in {"main", "dropins", "exists", "load", "merged", "failed"}
  /\ tier \in DOMAIN Tiers /\ dir \in DOMAIN Tiers[tier]
  /\ hasMain \in BOOLEAN
  /\ listed \in Seq(Files)
  /\ next \in 1..(Len(listed) + 1)
  /\ pc \in {"main", "dropins"} => next = 1
  /\ pc = "load" => next <= Len(listed)
  /\ merged \in [Entries -> Files \cup {Unset}]
  /\ order \in Seq(Sections)
  /\ read \in Seq([file : Files, content : Contents])
  /\ touched \subseteq Files /\ unseen \subseteq Files

Listed == pc \in {"exists", "load", "merged", "failed"}
\* There all the time, and seen by every look at it so far.
Stable(file) == file \notin touched \cup unseen /\ fs[file] # Absent

\* "The first tier that yields any file wins outright": files of two tiers are
\* never merged, and no tier is passed over but one whose files were all touched
\* or not seen (one that cannot be read is passed over: drop_ins says so).
FirstTierWins ==
  \E t \in DOMAIN Tiers :
    /\ \A i \in DOMAIN listed : listed[i][1] \in Range(Tiers[t])
    /\ Listed => \A file \in Files : Stable(file) =>
         /\ listed # <<>>
         /\ \A u \in DOMAIN Tiers : file[1] \in Range(Tiers[u]) => t <= u

\* In the tier that wins, a file nobody touched and every look saw is merged unless
\* a client.conf of an earlier directory ended the scan, whatever happens to others.
NothingStableIsLost ==
  (pc = "merged" /\ listed # <<>>) =>
    \A d \in DOMAIN Tiers[tier] :
      (\A e \in 1..(d - 1) : <<Tiers[tier][e], Main>> \notin Range(listed)) =>
        \A file \in Files :
          (file[1] = Tiers[tier][d] /\ Stable(file)) =>
             \E i \in DOMAIN read : read[i].file = file

\* The order of the merge: directories as the tier has them, in each first the
\* client.conf and then the drop-ins by name.
Precedes(a, b) ==
  \/ \E d, e \in DOMAIN Tiers[tier] :
       d < e /\ Tiers[tier][d] = a[1] /\ Tiers[tier][e] = b[1]
  \/ a[1] = b[1] /\ a[2] = Main /\ b[2] # Main
  \/ /\ a[1] = b[1]
     /\ \E m, n \in DOMAIN DropIns :
          m < n /\ DropIns[m] = a[2] /\ DropIns[n] = b[2]
MergeOrder ==
  \A i, j \in DOMAIN listed : i < j => Precedes(listed[i], listed[j])

\* "Later files winning": an entry has the value of the last file that was read
\* with it, and of none if there is none.
LaterFilesWin ==
  \A e \in Entries :
    LET having == {i \in DOMAIN read : e \in Range(read[i].content)}
    IN IF having = {} THEN merged[e] = Unset
       ELSE \E i \in having :
              merged[e] = read[i].file /\ \A j \in having : j <= i

\* The default server is the first section with an entry, in the order the files
\* were read in: nothing read later comes before it.
FirstSectionStays ==
  \A i \in DOMAIN read : read[i].content # <<>> =>
    /\ order # <<>>
    /\ (\A j \in 1..(i - 1) : read[j].content = <<>>) =>
         order[1] = read[i].content[1][1]

\* "Merged in that order": the files in theirs, the last value of an entry
\* winning, although the first section of the first file stays the first.
MergedInOrder == MergeOrder /\ LaterFilesWin /\ FirstSectionStays

=============================================================================

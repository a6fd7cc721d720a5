------------------------- MODULE RadioSettingsProofs -------------------------
(***************************************************************************)
(* Proofs about the settings of the radio, for all profiles and values and *)
(* any number of calls and restarts: the state is well-typed, what is set  *)
(* is stored, what is stored is saved, the hardware follows, and the radio *)
(* comes back as it was left.                                              *)
(***************************************************************************)
EXTENDS RadioSettings, TLAPS

AnyValue == Profiles \cup Freqs \cup Modes \cup Levels \cup BFOs
Kept == [Settings -> AnyValue]
Sides == Profiles \X {"lower", "upper"}
Places == {"idle", "apply", "call", "compare", "filters", "tune", "levels", "format", "store",
           "mark"}
Tops == {"apply", "filters", "tune", "levels", "format", "store", "mark"}

ThreadSet == [pc : Places, setting : Settings, value : AnyValue,
              profile : Profiles \cup {"main"}, read : Sides \cup {<<>>}]

(* Where a thread is while it is inside set_profile, and in the setters    *)
(* that are called there.                                                  *)
Nested(th) ==
  /\ th.pc = "idle" => th = Idle
  /\ th.pc # "idle" /\ th.setting = Active => th.profile \in Profiles /\ th.pc \in Tops
  /\ th.pc \in {"call", "compare"} => th.profile \in Profiles
  /\ th.pc = "levels" => th.setting = Active
  /\ th.pc = "tune" => th.read \in Sides
  /\ th.pc \in {"filters", "tune"} => th.setting = Active \/ th.setting[2] = "mode"
  /\ th.pc = "store" => th.value \in Values(th.setting)
  /\ th.profile \in Profiles /\ th.setting # Active =>
       th.setting \in {<<th.profile, "freq">>, <<th.profile, "mode">>}

ThreadOK(th) == th \in ThreadSet /\ ThreadType(th) /\ Nested(th)

Shapes ==
  /\ radio \in Kept /\ dict \in Kept /\ file \in Kept
  /\ SettingsType(radio) /\ SettingsType(dict) /\ SettingsType(file)
  /\ dirty \in [Files -> BOOLEAN]
  /\ oscillator \in Freqs /\ speaker \in Levels /\ filters \in Sides
  /\ thread \in [Threads -> ThreadSet] /\ \A t \in Threads : ThreadOK(thread[t])
  /\ config \in [pc : {"look", "write", "clean"}, at : Files, copy : Kept]
  /\ SettingsType(config.copy)

(* A thread has assigned s and has not stored it yet.                      *)
Unstored == {"apply", "filters", "tune", "levels", "format", "store"}
Pending(th, s) ==
  IF s = Active THEN th.profile \in Profiles /\ ~ (th.pc = "mark" /\ th.setting = Active)
  ELSE th.setting = s /\ th.pc \in Unstored

(* If it is about to store s, then as v.                                   *)
WillStore(th, s, v) ==
  th.setting = s /\ Pending(th, s) /\ (s[2] = "mode" \/ th.pc = "store") => th.value = v

(* The dictionary has the setting, or the mode of a file that the radio    *)
(* took for LSB.                                                           *)
Agree(s) == dict[s] = radio[s] \/ (Unreadable(dict, s) /\ radio[s] = "LSB")

Held(s) ==
  \/ s \in raced
  \/ /\ \A t, u \in Threads : Pending(thread[t], s) /\ Pending(thread[u], s) => t = u
     /\ \A t \in Threads : WillStore(thread[t], s, radio[s])
     /\ (\A t \in Threads : ~ Pending(thread[t], s)) => Agree(s)

StoredOrPending == \A s \in Settings : Held(s)

(* A setting is in its file, or on its way there, or marked to be, or was  *)
(* stored while the file was written.                                      *)
Marking(th, s) == th.pc = "mark" /\ th.setting = s
Filed(s) ==
  \/ s \in overtaken
  \/ Writing(File(s)) /\ config.pc = "write" /\ config.copy[s] = dict[s]
  \/ Writing(File(s)) /\ config.pc = "clean" /\ file[s] = dict[s]
  \/ ~ Writing(File(s)) /\ (dirty[File(s)] \/ file[s] = dict[s]
                            \/ \E t \in Threads : Marking(thread[t], s))

SavedOrMarked == \A s \in Settings : Filed(s)

(* The loudspeaker and the filters are as the active profile has them, or  *)
(* a thread is going to set them so.                                       *)
Level == <<radio[Active], "speaker_level">>
SpeakerDue(th) ==
  \/ th.pc = "apply" /\ th.setting = Level
  \/ th.profile \in Profiles /\ ~ (th.setting = Active /\ th.pc \in {"format", "store", "mark"})

SpeakerFollows ==
  \/ Device("speaker") \in raced
  \/ /\ \A t \in Threads : InProfile(t) => thread[t].profile = radio[Active]
     /\ \A t \in Threads :
          thread[t].pc = "apply" /\ thread[t].setting = Level => thread[t].value = radio[Level]
     /\ speaker = radio[Level] \/ \E t \in Threads : SpeakerDue(thread[t])

FiltersDue(th) ==
  \/ th.pc \in {"filters", "tune"}
  \/ th.pc = "apply" /\ th.setting = <<radio[Active], "mode">>
  \/ th.profile \in Profiles /\ (th.setting # Active \/ th.pc = "apply")

FiltersFollow ==
  \/ Device("filters") \in raced
  \/ /\ \A t \in Threads : thread[t].pc = "tune" => thread[t].read = FiltersFor(radio)
     /\ filters = FiltersFor(radio) \/ \E t \in Threads : FiltersDue(thread[t])

IInv == Shapes /\ StoredOrPending /\ SavedOrMarked /\ SpeakerFollows /\ FiltersFollow

Assumptions == ProfilesAssumption /\ ValuesAssumption /\ BoundsAssumption

-----------------------------------------------------------------------------
(* The settings.                                                           *)
LEMMA Kinds ==
  ASSUME NEW s \in Settings
  PROVE  /\ Values(s) \subseteq AnyValue
         /\ s[2] = "freq" => Values(s) = Freqs
         /\ s[2] = "mode" => Values(s) = Modes
         /\ s[2] = "speaker_level" => Values(s) = Levels
         /\ s[2] \in {"current_profile", "freq", "mode", "speaker_level", "bfo"}
         /\ s[2] = "current_profile" <=> s = Active
         /\ File(s) \in Files
<1>1. CASE s = Active
  BY <1>1 DEF Active, BFO, Values, AnyValue, File, Files
<1>2. CASE s = BFO
  BY <1>2 DEF Active, BFO, Values, AnyValue, File, Files
<1>3. CASE s \in Profiles \X {"freq", "mode", "speaker_level"}
  <2>1. s[2] \in {"freq", "mode", "speaker_level"} /\ s # Active /\ s # BFO
    BY <1>3 DEF Active, BFO
  <2>. QED BY <2>1 DEF Values, AnyValue, File, Files
<1>. QED BY <1>1, <1>2, <1>3 DEF Settings

LEMMA ActiveKind == Active \in Settings /\ BFO \in Settings /\ Values(Active) = Profiles
BY DEF Settings, Active, BFO, Values

LEMMA OfProfile ==
  ASSUME NEW p \in Profiles, NEW n \in {"freq", "mode", "speaker_level"}
  PROVE  /\ <<p, n>> \in Settings /\ <<p, n>> # Active /\ <<p, n>> # BFO /\ <<p, n>>[2] = n
         /\ <<p, n>>[1] = p
BY DEF Settings, Active, BFO

(* What a thread changes has no name of a device, so the races of settings *)
(* and of devices do not mix.                                              *)
LEMMA Changing ==
  ASSUME NEW s \in Settings, NEW r \in Settings
  PROVE  s \in Changes(s) /\ (r \in Changes(s) => r = s)
         /\ \A n \in {"oscillator", "filters", "speaker"} : Device(n) # r
<1>1. \A n \in {"oscillator", "filters", "speaker"} : Device(n) # r
  BY Kinds DEF Device
<1>2. r \in Changes(s) => r = s
  BY <1>1, Kinds DEF Changes
<1>. QED BY <1>1, <1>2 DEF Changes

LEMMA FiltersTypes ==
  ASSUME NEW f, SettingsType(f)
  PROVE  FiltersFor(f) \in Sides /\ f[Active] \in Profiles
<1>1. f[Active] \in Profiles
  BY ActiveKind DEF SettingsType
<1>. QED BY <1>1 DEF FiltersFor, Side, Sides

LEMMA ShippedTypes ==
  Assumptions => Shipped \in Kept /\ SettingsType(Shipped)
<1>. SUFFICES ASSUME Assumptions, NEW s \in Settings PROVE Shipped[s] \in Values(s)
  BY Kinds DEF Kept, SettingsType, Shipped
<1>1. Values(s) # {}
  BY Kinds DEF Settings, Active, BFO, Values, Assumptions, ProfilesAssumption, ValuesAssumption
<1>. QED BY <1>1 DEF Shipped

LEMMA LoadedTypes ==
  ASSUME Assumptions, NEW f \in Kept, SettingsType(f)
  PROVE  Loaded(f) \in Kept /\ SettingsType(Loaded(f))
<1>. SUFFICES ASSUME NEW s \in Settings PROVE Loaded(f)[s] \in Values(s)
  BY Kinds DEF Kept, SettingsType, Loaded
<1>1. Loaded(f)[s] = IF s[2] = "mode" /\ f[s] = "CW" THEN "LSB" ELSE f[s]
  BY DEF Loaded
<1>2. f[s] \in Values(s)
  BY DEF SettingsType
<1>3. s[2] = "mode" => "LSB" \in Values(s)
  BY Kinds DEF Assumptions, ValuesAssumption
<1>. QED BY <1>1, <1>2, <1>3

LEMMA IdleTypes ==
  Assumptions => ThreadOK(Idle)
BY ActiveKind DEF Assumptions, ProfilesAssumption, ThreadOK, ThreadSet, ThreadType, Nested, Idle,
                  Places, AnyValue

LEMMA ShapesTypes == Shapes => TypeOK
BY DEF Shapes, TypeOK, ThreadOK, Sides

-----------------------------------------------------------------------------
(* One thread moves.                                                       *)
LEMMA OneMoves ==
  ASSUME Shapes, NEW t \in Threads, NEW x, ThreadOK(x), thread' = [thread EXCEPT ![t] = x]
  PROVE  /\ thread' \in [Threads -> ThreadSet] /\ \A u \in Threads : ThreadOK(thread'[u])
         /\ thread'[t] = x /\ \A u \in Threads \ {t} : thread'[u] = thread[u]
BY DEF Shapes, ThreadOK

(* On to the next step of the same setter.                                 *)
LEMMA NextTypes ==
  ASSUME NEW th, ThreadOK(th), NEW to \in Tops, th.pc \in Tops,
         to = "levels" => th.setting = Active, to \notin {"tune", "store"},
         to = "filters" => th.setting[2] = "mode"
  PROVE  ThreadOK([th EXCEPT !.pc = to])
<1>. DEFINE x == [th EXCEPT !.pc = to]
<1>1. th \in ThreadSet /\ ThreadType(th) /\ Nested(th)
  BY DEF ThreadOK
<1>2. x \in ThreadSet /\ x.pc = to /\ x.setting = th.setting /\ x.value = th.value
      /\ x.profile = th.profile
  BY <1>1 DEF ThreadSet, Tops, Places
<1>. HIDE DEF x
<1>3. ThreadType(x)
  BY <1>1, <1>2 DEF ThreadType, Tops
<1>4. Nested(x)
  BY <1>1, <1>2 DEF Nested, Tops
<1>. QED BY <1>2, <1>3, <1>4 DEF ThreadOK, x

LEMMA ReturnedTypes ==
  ASSUME Assumptions, NEW th, ThreadOK(th), th.pc \in {"compare", "mark"}
  PROVE  ThreadOK(Returned(th))
<1>1. th \in ThreadSet /\ ThreadType(th) /\ Nested(th)
  BY DEF ThreadOK
<1>2. CASE th.profile \notin Profiles \/ th.setting = Active
  BY <1>2, IdleTypes DEF Returned
<1>3. CASE th.profile \in Profiles /\ th.setting # Active
  <2>. DEFINE s == <<th.profile, "mode">>
  <2>1. s \in Settings /\ s # Active
    BY <1>3, OfProfile
  <2>. HIDE DEF s
  <2>2. CASE th.setting[2] = "freq"
    <3>. DEFINE x == [th EXCEPT !.pc = "call", !.setting = s]
    <3>1. Returned(th) = x
      BY <1>3, <2>2 DEF Returned, s
    <3>2. x \in ThreadSet /\ x.pc = "call" /\ x.setting = s /\ x.profile = th.profile
      BY <1>1, <2>1 DEF ThreadSet, Places
    <3>. HIDE DEF x
    <3>3. ThreadType(x)
      BY <1>1, <2>1, <3>2 DEF ThreadType
    <3>4. Nested(x)
      BY <1>3, <2>1, <3>2 DEF Nested, s
    <3>. QED BY <3>1, <3>2, <3>3, <3>4 DEF ThreadOK
  <2>3. CASE th.setting[2] # "freq"
    <3>. DEFINE x == [th EXCEPT !.pc = "filters", !.setting = Active]
    <3>1. Returned(th) = x
      BY <1>3, <2>3 DEF Returned
    <3>2. x \in ThreadSet /\ x.pc = "filters" /\ x.setting = Active /\ x.profile = th.profile
      BY <1>1, ActiveKind DEF ThreadSet, Places
    <3>. HIDE DEF x
    <3>3. ThreadType(x)
      BY <1>1, <3>2, ActiveKind DEF ThreadType
    <3>4. Nested(x)
      BY <1>3, <3>2 DEF Nested, Tops
    <3>. QED BY <3>1, <3>2, <3>3, <3>4 DEF ThreadOK
  <2>. QED BY <2>2, <2>3
<1>. QED BY <1>2, <1>3

LEMMA AssignTypes ==
  ASSUME Shapes, NEW t \in Threads, NEW s \in Settings, NEW v \in Values(s),
         NEW profile \in Profiles \cup {"main"}, Assign(t, s, v, profile),
         s = Active => profile \in Profiles,
         profile \in Profiles /\ s # Active => s \in {<<profile, "freq">>, <<profile, "mode">>}
  PROVE  /\ radio' \in Kept /\ SettingsType(radio')
         /\ thread' \in [Threads -> ThreadSet] /\ \A u \in Threads : ThreadOK(thread'[u])
<1>. DEFINE x == [pc |-> "apply", setting |-> s, value |-> v, profile |-> profile, read |-> <<>>]
<1>1. v \in AnyValue
  BY Kinds
<1>2. x \in ThreadSet
  BY <1>1 DEF ThreadSet, Places
<1>3. x.pc = "apply" /\ x.setting = s /\ x.value = v /\ x.profile = profile
  OBVIOUS
<1>4. thread' = [thread EXCEPT ![t] = x] /\ radio' = [radio EXCEPT ![s] = v]
  BY DEF Assign
<1>. HIDE DEF x
<1>5. ThreadOK(x)
  <2>1. ThreadType(x)
    BY <1>3 DEF ThreadType
  <2>2. Nested(x)
    BY <1>3 DEF Nested, Tops
  <2>. QED BY <1>2, <2>1, <2>2 DEF ThreadOK
<1>6. radio' \in Kept /\ SettingsType(radio')
  BY <1>1, <1>4 DEF Shapes, Kept, SettingsType
<1>. QED BY <1>4, <1>5, <1>6, OneMoves

LEMMA SetTypes ==
  ASSUME Assumptions, Shapes, NEW t \in Threads, NEW s \in Settings, NEW v, Set(t, s, v)
  PROVE  Shapes'
<1>1. v \in Values(s) /\ Assign(t, s, v, IF s = Active THEN v ELSE "main")
      /\ UNCHANGED <<hardware, stored, dirty, saving>>
  BY DEF Set
<1>2. CASE s = Active
  <2>1. v \in Profiles /\ Assign(t, s, v, v)
    BY <1>1, <1>2, ActiveKind
  <2>2. /\ radio' \in Kept /\ SettingsType(radio')
        /\ thread' \in [Threads -> ThreadSet] /\ \A u \in Threads : ThreadOK(thread'[u])
    BY <1>1, <1>2, <2>1, AssignTypes
  <2>. QED BY <1>1, <2>2 DEF hardware, stored, saving, Shapes
<1>3. CASE s # Active
  <2>1. Assign(t, s, v, "main") /\ "main" \notin Profiles
    BY <1>1, <1>3 DEF Assumptions, ProfilesAssumption
  <2>2. /\ radio' \in Kept /\ SettingsType(radio')
        /\ thread' \in [Threads -> ThreadSet] /\ \A u \in Threads : ThreadOK(thread'[u])
    BY <1>1, <1>3, <2>1, AssignTypes
  <2>. QED BY <1>1, <2>2 DEF hardware, stored, saving, Shapes
<1>. QED BY <1>2, <1>3

(* Every call sets one of the settings.                                    *)
LEMMA CallsSet ==
  ASSUME Shapes, Command \/ Knob \/ TimeOut
  PROVE  \E t \in Threads, s \in Settings, v \in AnyValue : Set(t, s, v)
<1>1. "command" \in Threads /\ "io" \in Threads
  BY DEF Threads
<1>2. radio[Active] \in Profiles
  BY FiltersTypes DEF Shapes
<1>3. \A t \in Threads, s \in Settings : \A v : Set(t, s, v) => v \in AnyValue
  BY Kinds DEF Set
<1>4. CASE Command
  BY <1>1, <1>3, <1>4 DEF Command
<1>5. CASE Knob
  <2>1. <<radio[Active], "freq">> \in Settings /\ <<radio[Active], "speaker_level">> \in Settings
    BY <1>2, OfProfile
  <2>. QED BY <1>1, <1>3, <1>5, <2>1 DEF Knob
<1>6. CASE TimeOut
  BY <1>1, <1>3, <1>6, ActiveKind DEF TimeOut
<1>. QED BY <1>4, <1>5, <1>6

(* The steps inside a setter, but for the assignment.                      *)
LEMMA KeptApart ==
  ASSUME Shapes, NEW t \in Threads, UNCHANGED <<radio, stored, saving>>,
         dirty' \in [Files -> BOOLEAN], oscillator' \in Freqs, speaker' \in Levels,
         filters' \in Sides, NEW x, ThreadOK(x), thread' = [thread EXCEPT ![t] = x]
  PROVE  Shapes'
BY OneMoves DEF Shapes, stored, saving

LEMMA ThreadFields ==
  ASSUME Shapes, NEW t \in Threads
  PROVE  /\ ThreadOK(thread[t]) /\ thread[t] \in ThreadSet
         /\ thread[t].setting \in Settings /\ thread[t].pc \in Places
         /\ thread[t].setting[2] \in {"current_profile", "freq", "mode", "speaker_level", "bfo"}
         /\ thread[t].setting[2] = "current_profile" <=> thread[t].setting = Active
BY Kinds DEF Shapes, ThreadOK, ThreadSet

LEMMA ApplyTypes ==
  ASSUME Assumptions, Shapes, NEW t \in Threads,
         ApplyFreq(t) \/ ApplyLevel(t) \/ ApplyMode(t) \/ ApplyBFO(t)
  PROVE  Shapes'
<1>. DEFINE th == thread[t]
<1>1. /\ ThreadOK(th) /\ th.setting \in Settings /\ th.setting # Active /\ th.pc = "apply"
      /\ th.value \in Values(th.setting) /\ radio[th.setting] \in Values(th.setting)
  BY ThreadFields DEF ApplyFreq, ApplyLevel, ApplyMode, ApplyBFO, At, ThreadOK, ThreadType, Shapes,
                      SettingsType
<1>2. PICK to \in {"filters", "format"} :
        thread' = [thread EXCEPT ![t].pc = to] /\ (to = "filters" => th.setting[2] = "mode")
  BY DEF ApplyFreq, ApplyLevel, ApplyMode, ApplyBFO, Goto, At
<1>3. thread' = [thread EXCEPT ![t] = [th EXCEPT !.pc = to]] /\ ThreadOK([th EXCEPT !.pc = to])
  BY <1>1, <1>2, NextTypes DEF Tops
<1>4. oscillator' \in Freqs
  BY <1>1, Kinds DEF ApplyFreq, ApplyLevel, ApplyMode, ApplyBFO, At, hardware, Shapes
<1>5. speaker' \in Levels
  BY <1>1, Kinds DEF ApplyFreq, ApplyLevel, ApplyMode, ApplyBFO, At, hardware, Shapes
<1>6. UNCHANGED <<radio, stored, saving, dirty, filters>>
  BY DEF ApplyFreq, ApplyLevel, ApplyMode, ApplyBFO, hardware
<1>. QED BY <1>3, <1>4, <1>5, <1>6, KeptApart DEF Shapes

LEMMA CallTypes ==
  ASSUME Assumptions, Shapes, NEW t \in Threads, ApplyProfile(t) \/ Call(t) \/ CompareSame(t)
  PROVE  Shapes'
<1>. DEFINE th == thread[t]
<1>1. /\ ThreadOK(th) /\ th \in ThreadSet /\ th.setting \in Settings
      /\ ThreadType(th) /\ Nested(th)
  BY ThreadFields DEF ThreadOK
<1>2. UNCHANGED <<radio, stored, saving, dirty, oscillator, speaker, filters>>
  BY DEF ApplyProfile, Call, CompareSame, hardware
<1>3. CASE ApplyProfile(t)
  <2>. DEFINE s == <<th.profile, "freq">>
              x == [th EXCEPT !.pc = "call", !.setting = s]
  <2>1. thread' = [thread EXCEPT ![t] = x]
    BY <1>3 DEF ApplyProfile
  <2>2. th.profile \in Profiles
    BY <1>1, <1>3, ThreadFields DEF ApplyProfile, At, Nested
  <2>3. s \in Settings /\ s # Active
    BY <2>2, OfProfile
  <2>. HIDE DEF s
  <2>4. x \in ThreadSet /\ x.pc = "call" /\ x.setting = s /\ x.profile = th.profile
    BY <1>1, <2>3 DEF ThreadSet, Places
  <2>. HIDE DEF x
  <2>5. ThreadType(x)
    BY <1>1, <2>3, <2>4 DEF ThreadType
  <2>6. Nested(x)
    BY <2>2, <2>3, <2>4 DEF Nested, s
  <2>7. ThreadOK(x)
    BY <2>4, <2>5, <2>6 DEF ThreadOK
  <2>. QED BY <1>2, <2>1, <2>7, KeptApart DEF Shapes
<1>4. CASE Call(t)
  <2>. DEFINE v == radio[th.setting]
              x == [th EXCEPT !.pc = "compare", !.value = v]
  <2>1. thread' = [thread EXCEPT ![t] = x] /\ th.pc = "call"
    BY <1>4 DEF Call
  <2>2. v \in Values(th.setting) /\ v \in AnyValue
    BY <1>1, Kinds DEF Shapes, SettingsType
  <2>. HIDE DEF v
  <2>3. x \in ThreadSet /\ x.pc = "compare" /\ x.setting = th.setting /\ x.profile = th.profile
        /\ x.value = v
    BY <1>1, <2>2 DEF ThreadSet, Places
  <2>. HIDE DEF x
  <2>4. ThreadType(x)
    BY <1>1, <2>2, <2>3 DEF ThreadType
  <2>5. Nested(x)
    BY <1>1, <2>1, <2>3 DEF Nested, Tops
  <2>6. ThreadOK(x)
    BY <2>3, <2>4, <2>5 DEF ThreadOK
  <2>. QED BY <1>2, <2>1, <2>6, KeptApart DEF Shapes
<1>5. CASE CompareSame(t)
  <2>1. thread' = [thread EXCEPT ![t] = Returned(th)] /\ th.pc = "compare"
    BY <1>5 DEF CompareSame
  <2>. QED BY <1>1, <1>2, <2>1, ReturnedTypes, KeptApart DEF Shapes
<1>. QED BY <1>3, <1>4, <1>5

LEMMA CompareTypes ==
  ASSUME Assumptions, Shapes, NEW t \in Threads, CompareDiffers(t)
  PROVE  Shapes'
<1>. DEFINE th == thread[t]
<1>1. /\ th \in ThreadSet /\ th.setting \in Settings /\ ThreadType(th) /\ Nested(th)
      /\ th.pc = "compare"
  BY ThreadFields DEF ThreadOK, CompareDiffers
<1>2. th.setting # Active /\ th.profile \in Profiles
      /\ th.setting \in {<<th.profile, "freq">>, <<th.profile, "mode">>}
      /\ th.value \in Values(th.setting)
  BY <1>1 DEF Nested, Tops, ThreadType
<1>3. Assign(t, th.setting, th.value, th.profile) /\ UNCHANGED <<hardware, stored, dirty, saving>>
  BY DEF CompareDiffers
<1>. HIDE DEF th
<1>4. /\ radio' \in Kept /\ SettingsType(radio')
      /\ thread' \in [Threads -> ThreadSet] /\ \A u \in Threads : ThreadOK(thread'[u])
  BY <1>1, <1>2, <1>3, AssignTypes
<1>. QED BY <1>3, <1>4 DEF hardware, stored, saving, Shapes

LEMMA TuneTypes ==
  ASSUME Assumptions, Shapes, NEW t \in Threads, ReadFilters(t) \/ TuneFilters(t) \/ SetLevels(t)
  PROVE  Shapes'
<1>. DEFINE th == thread[t]
<1>1. /\ ThreadOK(th) /\ th \in ThreadSet /\ th.setting \in Settings
      /\ ThreadType(th) /\ Nested(th)
  BY ThreadFields DEF ThreadOK
<1>2. CASE ReadFilters(t)
  <2>. DEFINE f == FiltersFor(radio)
              x == [th EXCEPT !.pc = "tune", !.read = f]
  <2>1. thread' = [thread EXCEPT ![t] = x] /\ th.pc = "filters"
    BY <1>2 DEF ReadFilters
  <2>2. f \in Sides
    BY FiltersTypes DEF Shapes
  <2>. HIDE DEF f
  <2>3. x \in ThreadSet /\ x.pc = "tune" /\ x.setting = th.setting /\ x.profile = th.profile
        /\ x.value = th.value /\ x.read = f
    BY <1>1, <2>2 DEF ThreadSet, Places
  <2>. HIDE DEF x
  <2>4. ThreadType(x)
    BY <1>1, <2>1, <2>3 DEF ThreadType
  <2>5. Nested(x)
    BY <1>1, <2>1, <2>2, <2>3 DEF Nested, Tops
  <2>6. ThreadOK(x)
    BY <2>3, <2>4, <2>5 DEF ThreadOK
  <2>. QED BY <1>2, <2>1, <2>6, KeptApart DEF Shapes, ReadFilters, hardware
<1>3. CASE TuneFilters(t)
  <2>. DEFINE to == IF th.setting = Active THEN "levels" ELSE "format"
              x == [th EXCEPT !.pc = to, !.read = <<>>]
  <2>1. thread' = [thread EXCEPT ![t] = x] /\ th.pc = "tune" /\ filters' = th.read
    BY <1>3 DEF TuneFilters
  <2>2. to \in {"levels", "format"} /\ (to = "levels" => th.setting = Active)
    OBVIOUS
  <2>. HIDE DEF to
  <2>3. x \in ThreadSet /\ x.pc = to /\ x.setting = th.setting /\ x.profile = th.profile
        /\ x.value = th.value
    BY <1>1, <2>2 DEF ThreadSet, Places
  <2>. HIDE DEF x
  <2>4. ThreadType(x)
    BY <1>1, <2>1, <2>2, <2>3 DEF ThreadType
  <2>5. Nested(x)
    BY <1>1, <2>1, <2>2, <2>3 DEF Nested, Tops
  <2>6. ThreadOK(x) /\ filters' \in Sides
    BY <1>1, <2>1, <2>3, <2>4, <2>5 DEF ThreadOK, Nested
  <2>. QED BY <1>3, <2>1, <2>6, KeptApart DEF Shapes, TuneFilters
<1>4. CASE SetLevels(t)
  <2>1. th.pc = "levels" /\ th.setting = Active /\ th.profile \in Profiles
    BY <1>1, <1>4 DEF SetLevels, Nested
  <2>2. thread' = [thread EXCEPT ![t] = [th EXCEPT !.pc = "format"]]
    BY <1>4 DEF SetLevels, Goto
  <2>3. ThreadOK([th EXCEPT !.pc = "format"])
    BY <1>1, <2>1, NextTypes DEF Tops
  <2>4. speaker' \in Levels
    <3>. DEFINE s == <<th.profile, "speaker_level">>
    <3>1. s \in Settings /\ s[2] = "speaker_level"
      BY <2>1, OfProfile
    <3>2. speaker' = radio[s]
      BY <1>4 DEF SetLevels
    <3>. HIDE DEF s
    <3>. QED BY <3>1, <3>2, Kinds DEF Shapes, SettingsType
  <2>. QED BY <1>4, <2>2, <2>3, <2>4, KeptApart DEF Shapes, SetLevels
<1>. QED BY <1>2, <1>3, <1>4

LEMMA FormatTypes ==
  ASSUME Assumptions, Shapes, NEW t \in Threads, Format(t)
  PROVE  Shapes'
<1>. DEFINE th == thread[t]
            v == IF th.setting[2] = "mode" THEN th.value ELSE radio[th.setting]
            x == [th EXCEPT !.pc = "store", !.value = v]
<1>1. /\ th \in ThreadSet /\ th.setting \in Settings /\ ThreadType(th) /\ Nested(th)
      /\ th.pc = "format"
  BY ThreadFields DEF ThreadOK, Format
<1>2. thread' = [thread EXCEPT ![t] = x]
  BY DEF Format
<1>3. v \in Values(th.setting) /\ v \in AnyValue
  <2>1. th.setting[2] = "mode" => th.setting # Active
    BY DEF Active
  <2>. QED BY <1>1, <2>1, Kinds DEF Shapes, SettingsType, ThreadType
<1>. HIDE DEF v
<1>4. x \in ThreadSet /\ x.pc = "store" /\ x.setting = th.setting /\ x.profile = th.profile
      /\ x.value = v
  BY <1>1, <1>3 DEF ThreadSet, Places
<1>. HIDE DEF x
<1>5. ThreadType(x)
  BY <1>1, <1>3, <1>4 DEF ThreadType
<1>6. Nested(x)
  BY <1>1, <1>3, <1>4 DEF Nested, Tops
<1>7. ThreadOK(x)
  BY <1>4, <1>5, <1>6 DEF ThreadOK
<1>. QED BY <1>2, <1>7, KeptApart DEF Shapes, Format, hardware

LEMMA StoreTypes ==
  ASSUME Assumptions, Shapes, NEW t \in Threads, Store(t)
  PROVE  Shapes'
<1>. DEFINE th == thread[t]
            s == th.setting
            x == [th EXCEPT !.pc = "mark"]
<1>1. ThreadOK(th) /\ th.pc = "store" /\ s \in Settings
  BY ThreadFields DEF Store
<1>2. thread' = [thread EXCEPT ![t] = x] /\ dict' = [dict EXCEPT ![s] = th.value]
      /\ UNCHANGED <<radio, hardware, dirty, saving>>
  BY DEF Store, Goto
<1>3. ThreadOK(x)
  BY <1>1, NextTypes DEF Tops
<1>4. th.value \in Values(s)
  BY <1>1 DEF ThreadOK, ThreadType, Nested
<1>5. dict' \in Kept /\ SettingsType(dict')
  BY <1>1, <1>2, <1>4, Kinds DEF Shapes, Kept, SettingsType
<1>. HIDE DEF x
<1>. QED BY <1>2, <1>3, <1>5, OneMoves DEF Shapes, hardware, saving

LEMMA MarkTypes ==
  ASSUME Assumptions, Shapes, NEW t \in Threads, Mark(t)
  PROVE  Shapes'
<1>1. ThreadOK(thread[t]) /\ thread[t].pc = "mark" /\ thread[t].setting \in Settings
  BY ThreadFields DEF Mark
<1>2. ThreadOK(Returned(thread[t]))
  BY <1>1, ReturnedTypes
<1>3. dirty' \in [Files -> BOOLEAN]
  BY <1>1, Kinds DEF Mark, Shapes
<1>. QED BY <1>2, <1>3, KeptApart DEF Mark, hardware, Shapes

-----------------------------------------------------------------------------
(* config_thread and the end of the controller.                            *)
LEMMA ConfigTypes ==
  ASSUME Assumptions, Shapes, ConfigThread
  PROVE  Shapes'
<1>1. config.at \in Files /\ config.copy \in Kept /\ config.pc \in {"look", "write", "clean"}
      /\ After(config.at) \in Files
  BY DEF Shapes, After, Files
<1>2. UNCHANGED <<radio, hardware, dict, thread>>
  BY DEF ConfigThread, LookClean, Dump, WriteFile, ClearDirty, stored
<1>3. config' \in [pc : {"look", "write", "clean"}, at : Files, copy : Kept]
      /\ SettingsType(config'.copy)
  BY <1>1, ShippedTypes DEF ConfigThread, LookClean, Dump, WriteFile, ClearDirty, Shapes
<1>4. dirty' \in [Files -> BOOLEAN]
  BY <1>1 DEF ConfigThread, LookClean, Dump, WriteFile, ClearDirty, Shapes
<1>5. file' \in Kept /\ SettingsType(file')
  <2>1. CASE WriteFile
    <3>. DEFINE g == [s \in Settings |-> IF File(s) = config.at THEN config.copy[s] ELSE file[s]]
    <3>1. \A s \in Settings : g[s] \in Values(s) /\ g[s] \in AnyValue
      BY Kinds DEF Shapes, SettingsType
    <3>2. g \in Kept /\ SettingsType(g)
      BY <3>1 DEF Kept, SettingsType
    <3>. QED BY <2>1, <3>2 DEF WriteFile
  <2>2. CASE LookClean \/ Dump \/ ClearDirty
    BY <2>2 DEF LookClean, Dump, ClearDirty, Shapes
  <2>. QED BY <2>1, <2>2 DEF ConfigThread
<1>. QED BY <1>2, <1>3, <1>4, <1>5 DEF hardware, Shapes

LEMMA FreshTypes ==
  ASSUME Assumptions, NEW f \in Kept, SettingsType(f)
  PROVE  /\ Loaded(f) \in Kept /\ SettingsType(Loaded(f))
         /\ Loaded(f)[<<Loaded(f)[Active], "freq">>] \in Freqs
         /\ Loaded(f)[<<Loaded(f)[Active], "speaker_level">>] \in Levels
         /\ FiltersFor(Loaded(f)) \in Sides
         /\ [t \in Threads |-> Idle] \in [Threads -> ThreadSet] /\ ThreadOK(Idle)
         /\ Asleep \in [pc : {"look", "write", "clean"}, at : Files, copy : Kept]
         /\ Asleep.pc = "look" /\ SettingsType(Asleep.copy)
<1>. DEFINE l == Loaded(f)
<1>1. l \in Kept /\ SettingsType(l)
  BY LoadedTypes
<1>. HIDE DEF l
<1>2. l[Active] \in Profiles /\ FiltersFor(l) \in Sides
  BY <1>1, FiltersTypes
<1>3. l[<<l[Active], "freq">>] \in Freqs
  <2>. DEFINE s == <<l[Active], "freq">>
  <2>1. s \in Settings /\ s[2] = "freq"
    BY <1>2, OfProfile
  <2>. HIDE DEF s
  <2>2. l[s] \in Freqs
    BY <1>1, <2>1, Kinds DEF SettingsType
  <2>. QED BY <2>2 DEF s
<1>4. l[<<l[Active], "speaker_level">>] \in Levels
  <2>. DEFINE s == <<l[Active], "speaker_level">>
  <2>1. s \in Settings /\ s[2] = "speaker_level"
    BY <1>2, OfProfile
  <2>. HIDE DEF s
  <2>2. l[s] \in Levels
    BY <1>1, <2>1, Kinds DEF SettingsType
  <2>. QED BY <2>2 DEF s
<1>5. ThreadOK(Idle) /\ Idle \in ThreadSet
  BY IdleTypes DEF ThreadOK
<1>6. Asleep \in [pc : {"look", "write", "clean"}, at : Files, copy : Kept]
      /\ Asleep.pc = "look" /\ SettingsType(Asleep.copy)
  BY ShippedTypes DEF Asleep, Files
<1>. QED BY <1>1, <1>2, <1>3, <1>4, <1>5, <1>6 DEF l

LEMMA RestartTypes ==
  ASSUME Assumptions, Shapes, Restart
  PROVE  Shapes'
<1>1. file \in Kept /\ SettingsType(file)
  BY DEF Shapes
<1>2. dirty' \in [Files -> BOOLEAN]
  BY DEF Restart
<1>. QED BY <1>1, <1>2, FreshTypes DEF Restart, Shapes

LEMMA ShapesStep ==
  ASSUME Assumptions, Shapes, [Next]_vars
  PROVE  Shapes'
<1>1. CASE UNCHANGED vars
  BY <1>1 DEF vars, hardware, stored, saving, Shapes
<1>2. CASE Command \/ Knob \/ TimeOut
  BY <1>2, CallsSet, SetTypes
<1>3. ASSUME NEW t \in Threads, Setter(t) PROVE Shapes'
  BY <1>3, ApplyTypes, CallTypes, CompareTypes, TuneTypes, FormatTypes, StoreTypes, MarkTypes
     DEF Setter
<1>4. CASE Restart \/ ConfigThread
  BY <1>4, RestartTypes, ConfigTypes
<1>. QED BY <1>1, <1>2, <1>3, <1>4 DEF Next

-----------------------------------------------------------------------------
(* What is set is stored, or about to be.                                  *)
LEMMA StoredKept ==
  ASSUME Shapes, NEW s \in Settings, Held(s), NEW t \in Threads, NEW x,
         thread' = [thread EXCEPT ![t] = x], radio'[s] = radio[s], dict'[s] = dict[s],
         s \in raced => s \in raced', Pending(x, s) <=> Pending(thread[t], s),
         WillStore(thread[t], s, radio[s]) => WillStore(x, s, radio[s])
  PROVE  Held(s)'
<1>1. thread'[t] = x /\ \A u \in Threads \ {t} : thread'[u] = thread[u]
  BY DEF Shapes
<1>2. \A u \in Threads : Pending(thread'[u], s) <=> Pending(thread[u], s)
  BY <1>1
<1>3. \A u \in Threads :
        WillStore(thread[u], s, radio[s]) => WillStore(thread'[u], s, radio'[s])
  BY <1>1
<1>4. Agree(s) => Agree(s)'
  BY DEF Agree, Unreadable
<1>. QED BY <1>2, <1>3, <1>4 DEF Held

(* A thread inside a setter changes what it has not stored.                *)
LEMMA PendingChanged ==
  ASSUME Shapes, NEW s \in Settings, NEW t \in Threads, Pending(thread[t], s)
  PROVE  s \in ChangedBy(t)
<1>1. CASE s = Active
  BY <1>1, ActiveKind, Changing DEF Pending, ChangedBy, InProfile
<1>2. CASE s # Active
  BY <1>2, Changing DEF Pending, ChangedBy, Busy, Unstored
<1>. QED BY <1>1, <1>2

(* What becomes of the setting that is assigned, and of the others.        *)
LEMMA AssignStores ==
  ASSUME Shapes, StoredOrPending, NEW t \in Threads, NEW s \in Settings, NEW v \in Values(s),
         NEW profile, Assign(t, s, v, profile), dict' = dict,
         s = Active => profile \in Profiles,
         \A r \in Settings \ {s} : ~ (thread[t].setting = r /\ thread[t].pc \in Unstored),
         s # Active => (profile \in Profiles <=> Pending(thread[t], Active))
  PROVE  StoredOrPending'
<1>. DEFINE x == [pc |-> "apply", setting |-> s, value |-> v, profile |-> profile, read |-> <<>>]
<1>1. x.pc = "apply" /\ x.setting = s /\ x.value = v /\ x.profile = profile
  OBVIOUS
<1>2. thread' = [thread EXCEPT ![t] = x] /\ radio' = [radio EXCEPT ![s] = v]
  BY DEF Assign
<1>. HIDE DEF x
<1>3. thread'[t] = x /\ \A u \in Threads \ {t} : thread'[u] = thread[u]
  BY <1>2 DEF Shapes
<1>4. radio'[s] = v /\ \A r \in Settings \ {s} : radio'[r] = radio[r]
  BY <1>2 DEF Shapes, Kept
<1>5. ASSUME NEW r \in Settings, r # s PROVE Held(r)'
  <2>1. r \in raced => r \in raced'
    BY <1>5, Changing DEF Assign
  <2>2. Pending(x, r) <=> Pending(thread[t], r)
    <3>1. CASE r = Active
      BY <1>1, <1>5, <3>1 DEF Pending
    <3>2. CASE r # Active
      BY <1>1, <1>5, <3>2 DEF Pending
    <3>. QED BY <3>1, <3>2
  <2>3. WillStore(x, r, radio[r])
    BY <1>1, <1>5 DEF WillStore
  <2>. QED BY <1>2, <1>4, <1>5, <2>1, <2>2, <2>3, StoredKept DEF StoredOrPending
<1>6. Held(s)'
  <2>1. CASE s \in raced'
    BY <2>1 DEF Held
  <2>2. CASE s \notin raced'
    <3>1. s \notin ByOthers(t)
      BY <2>2, Changing DEF Assign
    <3>2. \A u \in Threads \ {t} : ~ Pending(thread'[u], s)
      BY <1>3, <3>1, PendingChanged DEF ByOthers
    <3>3. Pending(x, s)
      BY <1>1 DEF Pending, Unstored
    <3>4. \A u \in Threads : WillStore(thread'[u], s, radio'[s])
      BY <1>1, <1>3, <1>4, <3>2 DEF WillStore
    <3>. QED BY <1>3, <3>2, <3>3, <3>4 DEF Held
  <2>. QED BY <2>1, <2>2
<1>. QED BY <1>5, <1>6 DEF StoredOrPending

LEMMA SetStores ==
  ASSUME Assumptions, Shapes, StoredOrPending,
         NEW t \in Threads, NEW s \in Settings, NEW v, Set(t, s, v)
  PROVE  StoredOrPending'
<1>1. v \in Values(s) /\ Assign(t, s, v, IF s = Active THEN v ELSE "main") /\ dict' = dict
  BY DEF Set, stored
<1>2. thread[t] = Idle
  BY ThreadFields DEF Set, Busy, ThreadOK, Nested
<1>3. thread[t].pc = "idle" /\ thread[t].profile = "main" /\ "main" \notin Profiles
  BY <1>2 DEF Idle, Assumptions, ProfilesAssumption
<1>4. ~ Pending(thread[t], Active) /\ thread[t].pc \notin Unstored
  BY <1>3 DEF Pending, Unstored
<1>5. CASE s = Active
  BY <1>1, <1>4, <1>5, ActiveKind, AssignStores
<1>6. CASE s # Active
  BY <1>1, <1>3, <1>4, <1>6, AssignStores
<1>. QED BY <1>5, <1>6

LEMMA CompareStores ==
  ASSUME Assumptions, Shapes, StoredOrPending, NEW t \in Threads, CompareDiffers(t)
  PROVE  StoredOrPending'
<1>. DEFINE th == thread[t]
<1>1. th.setting \in Settings /\ ThreadType(th) /\ Nested(th) /\ th.pc = "compare"
  BY ThreadFields DEF ThreadOK, CompareDiffers
<1>2. th.setting # Active /\ th.profile \in Profiles /\ th.value \in Values(th.setting)
      /\ th.pc \notin Unstored
  BY <1>1 DEF Nested, Tops, ThreadType, Unstored
<1>3. Assign(t, th.setting, th.value, th.profile) /\ dict' = dict
  BY DEF CompareDiffers, stored
<1>4. Pending(th, Active)
  BY <1>1, <1>2 DEF Pending
<1>. HIDE DEF th
<1>. QED BY <1>1, <1>2, <1>3, <1>4, AssignStores DEF th

(* The steps of a setter between the assignment and the store.             *)
LEMMA WithinStores ==
  ASSUME Assumptions, Shapes, StoredOrPending, NEW t \in Threads,
         UNCHANGED <<radio, dict>>, \A s \in Settings : s \in raced => s \in raced',
         NEW to \in Unstored \ {"store"}, thread[t].pc \in Unstored \ {"store"},
         NEW x, thread' = [thread EXCEPT ![t] = x], x.pc = to,
         x.setting = thread[t].setting, x.profile = thread[t].profile,
         x.value = thread[t].value
  PROVE  StoredOrPending'
<1>. SUFFICES ASSUME NEW s \in Settings PROVE Held(s)'
  BY DEF StoredOrPending
<1>1. Pending(x, s) <=> Pending(thread[t], s)
  BY DEF Pending, Unstored
<1>2. WillStore(thread[t], s, radio[s]) => WillStore(x, s, radio[s])
  BY <1>1 DEF WillStore, Unstored
<1>. QED BY <1>1, <1>2, StoredKept DEF StoredOrPending

LEMMA ApplyStores ==
  ASSUME Assumptions, Shapes, StoredOrPending, NEW t \in Threads,
         \/ ApplyFreq(t) \/ ApplyLevel(t) \/ ApplyMode(t) \/ ApplyBFO(t)
         \/ ReadFilters(t) \/ TuneFilters(t) \/ SetLevels(t)
  PROVE  StoredOrPending'
<1>1. thread[t] \in ThreadSet
  BY ThreadFields
<1>2. UNCHANGED <<radio, dict>> /\ thread[t].pc \in Unstored \ {"store"}
  BY DEF ApplyFreq, ApplyLevel, ApplyMode, ApplyBFO, ReadFilters, TuneFilters, SetLevels, At,
         stored, Unstored
<1>3. \A s \in Settings : s \in raced => s \in raced'
  BY Changing DEF ApplyFreq, ApplyLevel, ApplyMode, ApplyBFO, ReadFilters, TuneFilters, SetLevels
<1>4. CASE ApplyFreq(t) \/ ApplyLevel(t) \/ ApplyMode(t) \/ ApplyBFO(t) \/ SetLevels(t)
  <2>1. PICK to \in {"filters", "format"} : thread' = [thread EXCEPT ![t] = [@ EXCEPT !.pc = to]]
    BY <1>4 DEF ApplyFreq, ApplyLevel, ApplyMode, ApplyBFO, SetLevels, Goto
  <2>. DEFINE x == [thread[t] EXCEPT !.pc = to]
  <2>2. x.pc = to /\ x.setting = thread[t].setting /\ x.profile = thread[t].profile
        /\ x.value = thread[t].value /\ thread' = [thread EXCEPT ![t] = x]
    BY <1>1, <2>1 DEF ThreadSet
  <2>3. to \in Unstored \ {"store"}
    BY DEF Unstored
  <2>. HIDE DEF x
  <2>. QED BY <1>2, <1>3, <2>2, <2>3, WithinStores
<1>5. CASE ReadFilters(t)
  <2>. DEFINE f == FiltersFor(radio)
              x == [thread[t] EXCEPT !.pc = "tune", !.read = f]
  <2>1. x.pc = "tune" /\ x.setting = thread[t].setting /\ x.profile = thread[t].profile
        /\ x.value = thread[t].value /\ thread' = [thread EXCEPT ![t] = x]
    BY <1>1, <1>5 DEF ThreadSet, ReadFilters
  <2>2. "tune" \in Unstored \ {"store"}
    BY DEF Unstored
  <2>. HIDE DEF x
  <2>. QED BY <1>2, <1>3, <2>1, <2>2, WithinStores
<1>6. CASE TuneFilters(t)
  <2>. DEFINE to == IF thread[t].setting = Active THEN "levels" ELSE "format"
              x == [thread[t] EXCEPT !.pc = to, !.read = <<>>]
  <2>1. x.pc = to /\ x.setting = thread[t].setting /\ x.profile = thread[t].profile
        /\ x.value = thread[t].value /\ thread' = [thread EXCEPT ![t] = x]
    BY <1>1, <1>6 DEF ThreadSet, TuneFilters
  <2>2. to \in Unstored \ {"store"}
    BY DEF Unstored
  <2>. HIDE DEF x, to
  <2>. QED BY <1>2, <1>3, <2>1, <2>2, WithinStores
<1>. QED BY <1>4, <1>5, <1>6

(* Returning from a setter, or calling one from set_profile.               *)
LEMMA ReturnedPending ==
  ASSUME Assumptions, NEW th, ThreadOK(th), th.pc \in {"compare", "mark"}, NEW s \in Settings,
         NEW v
  PROVE  (Pending(Returned(th), s) <=> Pending(th, s)) /\ WillStore(Returned(th), s, v)
<1>1. th \in ThreadSet /\ Nested(th) /\ "main" \notin Profiles
  BY DEF ThreadOK, Assumptions, ProfilesAssumption
<1>2. CASE th.profile \notin Profiles \/ th.setting = Active
  <2>1. Returned(th) = Idle /\ ~ Pending(Idle, s)
    BY <1>1, <1>2 DEF Returned, Pending, Idle, Unstored
  <2>2. ~ Pending(th, s)
    BY <1>1, <1>2 DEF Pending, Nested, Tops, Unstored
  <2>. QED BY <2>1, <2>2 DEF WillStore
<1>3. CASE th.profile \in Profiles /\ th.setting # Active
  <2>1. PICK x :
          /\ Returned(th) = x /\ x.profile = th.profile
          /\ x.pc = "call" \/ (x.pc = "filters" /\ x.setting = Active)
    <3>1. CASE th.setting[2] = "freq"
      <4>. DEFINE m == <<th.profile, "mode">>
                  y == [th EXCEPT !.pc = "call", !.setting = m]
      <4>1. Returned(th) = y
        BY <1>3, <3>1 DEF Returned
      <4>. HIDE DEF m
      <4>2. y.profile = th.profile /\ y.pc = "call"
        BY <1>1 DEF ThreadSet
      <4>. HIDE DEF y
      <4>. QED BY <4>1, <4>2
    <3>2. CASE th.setting[2] # "freq"
      <4>. DEFINE y == [th EXCEPT !.pc = "filters", !.setting = Active]
      <4>1. Returned(th) = y
        BY <1>3, <3>2 DEF Returned
      <4>2. y.profile = th.profile /\ y.pc = "filters" /\ y.setting = Active
        BY <1>1 DEF ThreadSet
      <4>. HIDE DEF y
      <4>. QED BY <4>1, <4>2
    <3>. QED BY <3>1, <3>2
  <2>2. CASE s = Active
    BY <1>3, <2>1, <2>2 DEF Pending, WillStore, Active
  <2>3. CASE s # Active
    BY <2>1, <2>3 DEF Pending, WillStore, Unstored
  <2>. QED BY <2>1, <2>2, <2>3
<1>. QED BY <1>2, <1>3

LEMMA CallStores ==
  ASSUME Assumptions, Shapes, StoredOrPending, NEW t \in Threads,
         ApplyProfile(t) \/ Call(t) \/ CompareSame(t) \/ Mark(t)
  PROVE  StoredOrPending'
<1>. DEFINE th == thread[t]
<1>1. ThreadOK(th) /\ th \in ThreadSet /\ Nested(th) /\ th.setting \in Settings
  BY ThreadFields DEF ThreadOK
<1>2. UNCHANGED <<radio, dict, raced>>
  BY DEF ApplyProfile, Call, CompareSame, Mark, stored
<1>. SUFFICES ASSUME NEW s \in Settings PROVE Held(s)'
  BY DEF StoredOrPending
<1>3. CASE ApplyProfile(t)
  <2>. DEFINE f == <<th.profile, "freq">>
              x == [th EXCEPT !.pc = "call", !.setting = f]
  <2>1. thread' = [thread EXCEPT ![t] = x] /\ th.pc = "apply" /\ th.setting = Active
    BY <1>3, ThreadFields DEF ApplyProfile, At
  <2>2. x.pc = "call" /\ x.profile = th.profile /\ x.setting # Active
    BY <1>1 DEF ThreadSet, Active
  <2>. HIDE DEF x
  <2>3. Pending(x, s) <=> Pending(th, s)
    BY <2>1, <2>2 DEF Pending, Unstored
  <2>4. WillStore(x, s, radio[s])
    BY <2>2 DEF WillStore, Pending, Unstored
  <2>. QED BY <1>2, <2>1, <2>3, <2>4, StoredKept DEF StoredOrPending
<1>4. CASE Call(t)
  <2>. DEFINE v == radio[th.setting]
              x == [th EXCEPT !.pc = "compare", !.value = v]
  <2>1. thread' = [thread EXCEPT ![t] = x] /\ th.pc = "call" /\ th.setting # Active
    BY <1>1, <1>4 DEF Call, Nested, Tops
  <2>2. x.pc = "compare" /\ x.profile = th.profile /\ x.setting = th.setting
    BY <1>1 DEF ThreadSet
  <2>. HIDE DEF x
  <2>3. Pending(x, s) <=> Pending(th, s)
    BY <2>1, <2>2 DEF Pending, Unstored
  <2>4. WillStore(x, s, radio[s])
    BY <2>1, <2>2 DEF WillStore, Pending, Unstored
  <2>. QED BY <1>2, <2>1, <2>3, <2>4, StoredKept DEF StoredOrPending
<1>5. CASE CompareSame(t) \/ Mark(t)
  <2>1. thread' = [thread EXCEPT ![t] = Returned(th)] /\ th.pc \in {"compare", "mark"}
    BY <1>5 DEF CompareSame, Mark
  <2>2. (Pending(Returned(th), s) <=> Pending(th, s)) /\ WillStore(Returned(th), s, radio[s])
    BY <1>1, <2>1, ReturnedPending
  <2>. QED BY <1>2, <2>1, <2>2, StoredKept DEF StoredOrPending
<1>. QED BY <1>3, <1>4, <1>5

LEMMA FormatStores ==
  ASSUME Assumptions, Shapes, StoredOrPending, NEW t \in Threads, Format(t)
  PROVE  StoredOrPending'
<1>. DEFINE th == thread[t]
            v == IF th.setting[2] = "mode" THEN th.value ELSE radio[th.setting]
            x == [th EXCEPT !.pc = "store", !.value = v]
<1>1. th \in ThreadSet /\ th.setting \in Settings /\ th.pc = "format"
  BY ThreadFields DEF Format
<1>2. thread' = [thread EXCEPT ![t] = x] /\ UNCHANGED <<radio, dict, raced>>
  BY DEF Format, stored
<1>3. x.pc = "store" /\ x.setting = th.setting /\ x.profile = th.profile /\ x.value = v
  BY <1>1 DEF ThreadSet
<1>. HIDE DEF x
<1>. SUFFICES ASSUME NEW s \in Settings PROVE Held(s)'
  BY DEF StoredOrPending
<1>4. Pending(x, s) <=> Pending(th, s)
  BY <1>1, <1>3 DEF Pending, Unstored
<1>5. WillStore(th, s, radio[s]) => WillStore(x, s, radio[s])
  BY <1>3, <1>4 DEF WillStore
<1>. QED BY <1>2, <1>4, <1>5, StoredKept DEF StoredOrPending

(* The dictionary gets the value the radio has, or the setting was raced.  *)
LEMMA StoreStores ==
  ASSUME Assumptions, Shapes, StoredOrPending, NEW t \in Threads, Store(t)
  PROVE  StoredOrPending'
<1>. DEFINE th == thread[t]
            x == [th EXCEPT !.pc = "mark"]
<1>1. th \in ThreadSet /\ th.setting \in Settings /\ th.pc = "store" /\ Nested(th)
  BY ThreadFields DEF Store, ThreadOK
<1>2. thread' = [thread EXCEPT ![t] = x] /\ UNCHANGED <<radio, raced>>
      /\ dict' = [dict EXCEPT ![th.setting] = th.value]
  BY DEF Store, Goto
<1>3. x.pc = "mark" /\ x.setting = th.setting /\ x.profile = th.profile
  BY <1>1 DEF ThreadSet
<1>. HIDE DEF x
<1>. SUFFICES ASSUME NEW s \in Settings PROVE Held(s)'
  BY DEF StoredOrPending
<1>4. thread'[t] = x /\ \A u \in Threads \ {t} : thread'[u] = thread[u]
  BY <1>2 DEF Shapes
<1>5. CASE s # th.setting
  <2>1. dict'[s] = dict[s]
    BY <1>1, <1>2, <1>5 DEF Shapes, Kept
  <2>2. Pending(x, s) <=> Pending(th, s)
    BY <1>1, <1>3, <1>5 DEF Pending
  <2>3. WillStore(x, s, radio[s])
    BY <1>3, <1>5 DEF WillStore
  <2>. QED BY <1>2, <2>1, <2>2, <2>3, StoredKept DEF StoredOrPending
<1>6. CASE s = th.setting /\ s \notin raced
  <2>1. dict'[s] = th.value
    BY <1>1, <1>2, <1>6 DEF Shapes, Kept
  <2>2. Pending(th, s)
    BY <1>1, <1>6 DEF Pending, Nested, Unstored
  <2>3. th.value = radio[s]
    BY <1>1, <1>6, <2>2 DEF StoredOrPending, Held, WillStore
  <2>4. \A u \in Threads \ {t} : ~ Pending(thread'[u], s)
    BY <1>4, <1>6, <2>2 DEF StoredOrPending, Held
  <2>5. ~ Pending(x, s)
    BY <1>3, <1>6 DEF Pending, Unstored
  <2>6. \A u \in Threads : ~ Pending(thread'[u], s)
    BY <1>4, <2>4, <2>5
  <2>7. Agree(s)'
    BY <1>2, <2>1, <2>3 DEF Agree
  <2>. QED BY <2>6, <2>7 DEF Held, WillStore
<1>7. CASE s \in raced
  BY <1>2, <1>7 DEF Held
<1>. QED BY <1>5, <1>6, <1>7

(* The controller has started.                                             *)
LEMMA FreshStores ==
  ASSUME Assumptions, NEW f \in Kept, radio' = Loaded(f), dict' = f,
         thread' = [t \in Threads |-> Idle]
  PROVE  StoredOrPending'
<1>. SUFFICES ASSUME NEW s \in Settings PROVE Held(s)'
  BY DEF StoredOrPending
<1>1. \A t \in Threads : ~ Pending(thread'[t], s)
  BY DEF Pending, Idle, Unstored, Assumptions, ProfilesAssumption
<1>2. Agree(s)'
  BY DEF Agree, Unreadable, Loaded
<1>. QED BY <1>1, <1>2 DEF Held, WillStore

LEMMA StoredStep ==
  ASSUME Assumptions, Shapes, StoredOrPending, [Next]_vars
  PROVE  StoredOrPending'
<1>1. CASE UNCHANGED vars \/ ConfigThread
  <2>1. UNCHANGED <<radio, dict, thread, raced>>
    BY <1>1 DEF vars, stored, ConfigThread, LookClean, Dump, WriteFile, ClearDirty
  <2>. QED BY <2>1 DEF StoredOrPending, Held, Agree, Unreadable
<1>2. CASE Command \/ Knob \/ TimeOut
  BY <1>2, CallsSet, SetStores
<1>3. ASSUME NEW t \in Threads, Setter(t) PROVE StoredOrPending'
  BY <1>3, ApplyStores, CallStores, CompareStores, FormatStores, StoreStores DEF Setter
<1>4. CASE Restart
  BY <1>4, FreshStores DEF Restart, Shapes
<1>. QED BY <1>1, <1>2, <1>3, <1>4 DEF Next

-----------------------------------------------------------------------------
(* What is stored is saved, or about to be.                                *)
LEMMA SavedKept ==
  ASSUME NEW s \in Settings, Filed(s), UNCHANGED <<file, config>>, dict'[s] = dict[s],
         s \in overtaken => s \in overtaken', dirty[File(s)] => dirty'[File(s)],
         \A t \in Threads :
           Marking(thread[t], s) => dirty'[File(s)] \/ Marking(thread'[t], s)
  PROVE  Filed(s)'
BY DEF Filed, Writing

(* Where nothing is stored or marked.                                      *)
LEMMA OtherSaves ==
  ASSUME Shapes, SavedOrMarked, UNCHANGED <<stored, saving, dirty>>, NEW t \in Threads,
         thread[t].pc # "mark", \A u \in Threads \ {t} : thread'[u] = thread[u]
  PROVE  SavedOrMarked'
BY SavedKept DEF SavedOrMarked, stored, saving, Marking

LEMMA SetterSaves ==
  ASSUME Shapes, SavedOrMarked, NEW t \in Threads,
         (\E s \in Settings, v \in AnyValue : Set(t, s, v))
           \/ (Setter(t) /\ ~ Store(t) /\ ~ Mark(t))
  PROVE  SavedOrMarked'
<1>1. UNCHANGED <<stored, saving, dirty>>
  BY DEF Set, Setter, ApplyFreq, ApplyLevel, ApplyMode, ApplyBFO, ApplyProfile, Call, CompareSame,
         CompareDiffers, ReadFilters, TuneFilters, SetLevels, Format
<1>2. thread[t].pc # "mark"
  BY DEF Set, Busy, Setter, ApplyFreq, ApplyLevel, ApplyMode, ApplyBFO, ApplyProfile, Call,
         CompareSame, CompareDiffers, ReadFilters, TuneFilters, SetLevels, Format, At
<1>3. \E x : thread' = [thread EXCEPT ![t] = x]
  BY DEF Set, Setter, ApplyFreq, ApplyLevel, ApplyMode, ApplyBFO, ApplyProfile, Call, CompareSame,
         CompareDiffers, ReadFilters, TuneFilters, SetLevels, Format, Assign, Goto
<1>4. \A u \in Threads \ {t} : thread'[u] = thread[u]
  BY <1>3 DEF Shapes
<1>. QED BY <1>1, <1>2, <1>4, OtherSaves

(* A setting that is stored is to be marked by the thread that stored it.  *)
LEMMA StoreSaves ==
  ASSUME Shapes, SavedOrMarked, NEW t \in Threads, Store(t)
  PROVE  SavedOrMarked'
<1>. DEFINE th == thread[t]
            x == [th EXCEPT !.pc = "mark"]
<1>1. th \in ThreadSet /\ th.setting \in Settings /\ th.pc = "store"
  BY ThreadFields DEF Store
<1>2. thread' = [thread EXCEPT ![t] = x] /\ UNCHANGED <<dirty, file, config>>
      /\ dict' = [dict EXCEPT ![th.setting] = th.value]
      /\ overtaken' = overtaken \cup (IF Writing(File(th.setting)) THEN {th.setting} ELSE {})
  BY DEF Store, Goto, saving
<1>3. x.pc = "mark" /\ x.setting = th.setting
  BY <1>1 DEF ThreadSet
<1>. HIDE DEF x
<1>4. thread'[t] = x /\ \A u \in Threads \ {t} : thread'[u] = thread[u]
  BY <1>2 DEF Shapes
<1>. SUFFICES ASSUME NEW s \in Settings PROVE Filed(s)'
  BY DEF SavedOrMarked
<1>5. CASE s # th.setting
  <2>1. dict'[s] = dict[s]
    BY <1>1, <1>2, <1>5 DEF Shapes, Kept
  <2>2. \A u \in Threads : Marking(thread[u], s) => Marking(thread'[u], s)
    BY <1>1, <1>4 DEF Marking
  <2>. QED BY <1>2, <2>1, <2>2, SavedKept DEF SavedOrMarked
<1>6. CASE s = th.setting
  <2>1. CASE Writing(File(s))
    BY <1>2, <1>6, <2>1 DEF Filed
  <2>2. CASE ~ Writing(File(s))
    <3>1. Marking(thread'[t], s) /\ ~ Writing(File(s))'
      BY <1>2, <1>3, <1>4, <1>6, <2>2 DEF Marking, Writing
    <3>. QED BY <3>1 DEF Filed
  <2>. QED BY <2>1, <2>2
<1>. QED BY <1>5, <1>6

LEMMA MarkSaves ==
  ASSUME Shapes, SavedOrMarked, NEW t \in Threads, Mark(t)
  PROVE  SavedOrMarked'
<1>. SUFFICES ASSUME NEW s \in Settings PROVE Filed(s)'
  BY DEF SavedOrMarked
<1>1. UNCHANGED <<dict, overtaken, file, config>>
  BY DEF Mark, stored, saving
<1>2. dirty' = [dirty EXCEPT ![File(thread[t].setting)] = TRUE]
      /\ \A u \in Threads \ {t} : thread'[u] = thread[u]
  BY DEF Mark, Shapes
<1>3. dirty[File(s)] => dirty'[File(s)]
  BY <1>2, Kinds DEF Shapes
<1>4. Marking(thread[t], s) => dirty'[File(s)]
  BY <1>2, Kinds DEF Shapes, Marking
<1>. QED BY <1>1, <1>2, <1>3, <1>4, SavedKept DEF SavedOrMarked

(* The copy that is written is that of the dictionary, but for what was    *)
(* stored since; only then is the mark taken away.                         *)
LEMMA ConfigSaves ==
  ASSUME Shapes, SavedOrMarked, ConfigThread
  PROVE  SavedOrMarked'
<1>. SUFFICES ASSUME NEW s \in Settings PROVE Filed(s)'
  BY DEF SavedOrMarked
<1>1. Filed(s) /\ File(s) \in Files /\ UNCHANGED <<dict, thread>>
  BY Kinds DEF SavedOrMarked, ConfigThread, LookClean, Dump, WriteFile, ClearDirty, stored
<1>2. config \in [pc : {"look", "write", "clean"}, at : Files, copy : Kept]
      /\ dirty \in [Files -> BOOLEAN]
  BY DEF Shapes
<1>3. CASE LookClean
  <2>1. UNCHANGED <<file, overtaken, dirty>> /\ config.pc = "look" /\ config'.pc = "look"
    BY <1>2, <1>3 DEF LookClean, stored
  <2>. QED BY <1>1, <2>1 DEF Filed, Writing
<1>4. CASE Dump
  <2>1. /\ UNCHANGED <<file, dirty>> /\ config.pc = "look" /\ config'.pc = "write"
        /\ config'.at = config.at /\ config'.copy = dict
        /\ overtaken' = overtaken \ {r \in Settings : File(r) = config.at}
    BY <1>2, <1>4 DEF Dump
  <2>. QED BY <1>1, <2>1 DEF Filed, Writing
<1>5. CASE WriteFile
  <2>1. /\ UNCHANGED <<overtaken, dirty>> /\ config.pc = "write" /\ config'.pc = "clean"
        /\ config'.at = config.at
        /\ file'[s] = IF File(s) = config.at THEN config.copy[s] ELSE file[s]
    BY <1>2, <1>5 DEF WriteFile, stored
  <2>. QED BY <1>1, <2>1 DEF Filed, Writing
<1>6. CASE ClearDirty
  <2>1. /\ UNCHANGED <<overtaken, file>> /\ config.pc = "clean" /\ config'.pc = "look"
        /\ File(s) # config.at => dirty'[File(s)] = dirty[File(s)]
    BY <1>1, <1>2, <1>6 DEF ClearDirty, stored
  <2>. QED BY <1>1, <2>1 DEF Filed, Writing
<1>. QED BY <1>3, <1>4, <1>5, <1>6 DEF ConfigThread

LEMMA SavedStep ==
  ASSUME Shapes, SavedOrMarked, [Next]_vars
  PROVE  SavedOrMarked'
<1>1. CASE UNCHANGED vars
  BY <1>1 DEF vars, stored, saving, SavedOrMarked, Filed, Writing
<1>2. CASE Command \/ Knob \/ TimeOut
  BY <1>2, CallsSet, SetterSaves
<1>3. ASSUME NEW t \in Threads, Setter(t) PROVE SavedOrMarked'
  BY <1>3, SetterSaves, StoreSaves, MarkSaves
<1>4. CASE Restart
  BY <1>4 DEF Restart, SavedOrMarked, Filed, Writing, Asleep
<1>5. CASE ConfigThread
  BY <1>5, ConfigSaves
<1>. QED BY <1>1, <1>2, <1>3, <1>4, <1>5 DEF Next

-----------------------------------------------------------------------------
(* The loudspeaker and the filters follow.                                 *)
LEMMA Pairs ==
  ASSUME NEW s \in Settings
  PROVE  s = <<s[1], s[2]>>
BY DEF Settings, Active, BFO

(* What a thread may set in the hardware it changes.                       *)
LEMMA DevicesChanged ==
  ASSUME Shapes, NEW t \in Threads
  PROVE  /\ InProfile(t) => Device("speaker") \in ChangedBy(t) /\ Device("filters") \in ChangedBy(t)
         /\ Busy(t) /\ thread[t].setting[2] = "speaker_level" => Device("speaker") \in ChangedBy(t)
         /\ Busy(t) /\ thread[t].setting[2] = "mode" => Device("filters") \in ChangedBy(t)
         /\ thread[t].pc = "tune" => Device("filters") \in ChangedBy(t)
<1>1. Active[2] = "current_profile"
  BY DEF Active
<1>2. InProfile(t) => Device("speaker") \in ChangedBy(t) /\ Device("filters") \in ChangedBy(t)
  BY <1>1 DEF ChangedBy, Changes
<1>3. Busy(t) /\ thread[t].setting[2] = "mode" => Device("filters") \in ChangedBy(t)
  BY DEF ChangedBy, Changes
<1>4. Busy(t) /\ thread[t].setting[2] = "speaker_level" => Device("speaker") \in ChangedBy(t)
  BY DEF ChangedBy, Changes
<1>5. thread[t].pc = "tune" =>
        Busy(t) /\ (InProfile(t) \/ thread[t].setting[2] = "mode")
  BY ThreadFields DEF ThreadOK, Nested, Busy, InProfile
<1>. QED BY <1>2, <1>3, <1>4, <1>5

(* A step that leaves a device and the radio alone.                        *)
LEMMA SpeakerKept ==
  ASSUME Shapes, SpeakerFollows, NEW t \in Threads, NEW x, thread' = [thread EXCEPT ![t] = x],
         radio'[Active] = radio[Active], radio'[Level] = radio[Level], speaker' = speaker,
         Device("speaker") \in raced => Device("speaker") \in raced',
         ~ (x.pc = "apply" /\ x.setting = Level),
         x.profile \in Profiles => x.profile = thread[t].profile,
         SpeakerDue(thread[t]) => SpeakerDue(x)
  PROVE  SpeakerFollows'
<1>1. thread'[t] = x /\ \A u \in Threads \ {t} : thread'[u] = thread[u]
  BY DEF Shapes
<1>2. Level' = Level
  BY DEF Level
<1>3. \A u \in Threads : SpeakerDue(thread[u]) => SpeakerDue(thread[u])'
  BY <1>1, <1>2 DEF SpeakerDue
<1>4. \A u \in Threads : InProfile(u)' => InProfile(u) /\ thread'[u].profile = thread[u].profile
  BY <1>1 DEF InProfile
<1>5. \A u \in Threads : thread'[u].pc = "apply" /\ thread'[u].setting = Level =>
        thread'[u] = thread[u]
  BY <1>1
<1>. QED BY <1>2, <1>3, <1>4, <1>5 DEF SpeakerFollows

LEMMA FiltersKept ==
  ASSUME Shapes, FiltersFollow, NEW t \in Threads, NEW x, thread' = [thread EXCEPT ![t] = x],
         radio'[Active] = radio[Active], filters' = filters,
         radio'[<<radio[Active], "mode">>] = radio[<<radio[Active], "mode">>],
         Device("filters") \in raced => Device("filters") \in raced',
         x.pc # "tune", FiltersDue(thread[t]) => FiltersDue(x)
  PROVE  FiltersFollow'
<1>1. thread'[t] = x /\ \A u \in Threads \ {t} : thread'[u] = thread[u]
  BY DEF Shapes
<1>2. FiltersFor(radio)' = FiltersFor(radio)
  BY DEF FiltersFor
<1>3. \A u \in Threads : FiltersDue(thread[u]) => FiltersDue(thread[u])'
  BY <1>1 DEF FiltersDue
<1>4. \A u \in Threads : thread'[u].pc = "tune" => thread'[u] = thread[u]
  BY <1>1
<1>. QED BY <1>2, <1>3, <1>4 DEF FiltersFollow

LEMMA HardwareKept ==
  ASSUME Shapes, SpeakerFollows, FiltersFollow, NEW t \in Threads, NEW x,
         thread' = [thread EXCEPT ![t] = x], UNCHANGED <<radio, speaker, filters, raced>>,
         x.pc \notin {"apply", "tune"}, x.profile \in Profiles => x.profile = thread[t].profile,
         SpeakerDue(thread[t]) => SpeakerDue(x), FiltersDue(thread[t]) => FiltersDue(x)
  PROVE  SpeakerFollows' /\ FiltersFollow'
BY SpeakerKept, FiltersKept

(* On to the next step of a setter that has nothing to do with a device.   *)
LEMMA WithinHardware ==
  ASSUME Assumptions, Shapes, SpeakerFollows, FiltersFollow, NEW t \in Threads,
         ApplyFreq(t) \/ ApplyMode(t) \/ ApplyBFO(t) \/ Call(t) \/ Format(t) \/ Store(t)
  PROVE  SpeakerFollows' /\ FiltersFollow'
<1>. DEFINE th == thread[t]
<1>1. th \in ThreadSet /\ Nested(th) /\ th.setting \in Settings
  BY ThreadFields DEF ThreadOK
<1>2. UNCHANGED <<radio, speaker, filters, raced>>
  BY DEF ApplyFreq, ApplyMode, ApplyBFO, Call, Format, Store, hardware
<1>3. PICK x : /\ thread' = [thread EXCEPT ![t] = x]
               /\ x.setting = th.setting /\ x.profile = th.profile
               /\ \/ /\ th.pc = "apply" /\ th.setting[2] \in {"freq", "mode", "bfo"}
                     /\ x.pc \in {"filters", "format"}
                     /\ th.setting[2] = "mode" /\ OfActive(t) => x.pc = "filters"
                  \/ th.pc = "call" /\ x.pc = "compare"
                  \/ th.pc = "format" /\ x.pc = "store"
                  \/ th.pc = "store" /\ x.pc = "mark"
  <2>1. CASE ApplyFreq(t) \/ ApplyMode(t) \/ ApplyBFO(t)
    <3>1. PICK to \in {"filters", "format"} :
            /\ thread' = [thread EXCEPT ![t] = [@ EXCEPT !.pc = to]] /\ th.pc = "apply"
            /\ th.setting[2] \in {"freq", "mode", "bfo"}
            /\ th.setting[2] = "mode" /\ OfActive(t) => to = "filters"
      BY <2>1 DEF ApplyFreq, ApplyMode, ApplyBFO, At, Goto
    <3>. DEFINE x == [th EXCEPT !.pc = to]
    <3>2. x.pc = to /\ x.setting = th.setting /\ x.profile = th.profile
      BY <1>1 DEF ThreadSet
    <3>3. thread' = [thread EXCEPT ![t] = x]
      BY <3>1
    <3>. HIDE DEF x
    <3>. QED BY <3>1, <3>2, <3>3
  <2>2. CASE Call(t)
    <3>. DEFINE v == radio[th.setting]
                x == [th EXCEPT !.pc = "compare", !.value = v]
    <3>1. thread' = [thread EXCEPT ![t] = x] /\ th.pc = "call"
      BY <2>2 DEF Call
    <3>2. x.pc = "compare" /\ x.setting = th.setting /\ x.profile = th.profile
      BY <1>1 DEF ThreadSet
    <3>. HIDE DEF x
    <3>. QED BY <3>1, <3>2
  <2>3. CASE Format(t)
    <3>. DEFINE v == IF th.setting[2] = "mode" THEN th.value ELSE radio[th.setting]
                x == [th EXCEPT !.pc = "store", !.value = v]
    <3>1. thread' = [thread EXCEPT ![t] = x] /\ th.pc = "format"
      BY <2>3 DEF Format
    <3>2. x.pc = "store" /\ x.setting = th.setting /\ x.profile = th.profile
      BY <1>1 DEF ThreadSet
    <3>. HIDE DEF x
    <3>. QED BY <3>1, <3>2
  <2>4. CASE Store(t)
    <3>. DEFINE x == [th EXCEPT !.pc = "mark"]
    <3>1. thread' = [thread EXCEPT ![t] = x] /\ th.pc = "store"
      BY <2>4 DEF Store, Goto
    <3>2. x.pc = "mark" /\ x.setting = th.setting /\ x.profile = th.profile
      BY <1>1 DEF ThreadSet
    <3>. HIDE DEF x
    <3>. QED BY <3>1, <3>2
  <2>. QED BY <2>1, <2>2, <2>3, <2>4
<1>. HIDE DEF th
<1>4. x.pc \notin {"apply", "tune"}
  BY <1>3
<1>5. SpeakerDue(th) => SpeakerDue(x)
  BY <1>1, <1>3 DEF SpeakerDue, Level, Nested, Tops, Active
<1>6. FiltersDue(th) => FiltersDue(x)
  BY <1>1, <1>3 DEF FiltersDue, OfActive, Nested, Tops, Active, th
<1>. QED BY <1>2, <1>3, <1>4, <1>5, <1>6, HardwareKept DEF th

LEMMA ReturnedHardware ==
  ASSUME Assumptions, Shapes, NEW th, ThreadOK(th), th.pc \in {"compare", "mark"}
  PROVE  /\ Returned(th).pc \notin {"apply", "tune"}
         /\ Returned(th).profile \in Profiles => Returned(th).profile = th.profile
         /\ SpeakerDue(th) => SpeakerDue(Returned(th))
         /\ FiltersDue(th) => FiltersDue(Returned(th))
<1>1. th \in ThreadSet /\ Nested(th) /\ "main" \notin Profiles
  BY DEF ThreadOK, Assumptions, ProfilesAssumption
<1>2. CASE th.profile \notin Profiles \/ th.setting = Active
  <2>1. Returned(th) = Idle /\ Idle.pc = "idle" /\ Idle.profile = "main"
    BY <1>2 DEF Returned, Idle
  <2>2. ~ SpeakerDue(th) /\ ~ FiltersDue(th)
    BY <1>1, <1>2 DEF SpeakerDue, FiltersDue, Nested, Tops
  <2>. QED BY <1>1, <2>1, <2>2
<1>3. CASE th.profile \in Profiles /\ th.setting # Active
  <2>1. PICK x : Returned(th) = x /\ x.profile = th.profile
                 /\ \/ x.pc = "call" /\ x.setting # Active
                    \/ x.pc = "filters"
    <3>1. CASE th.setting[2] = "freq"
      <4>. DEFINE m == <<th.profile, "mode">>
                  y == [th EXCEPT !.pc = "call", !.setting = m]
      <4>1. Returned(th) = y /\ m # Active
        BY <1>3, <3>1 DEF Returned, Active
      <4>. HIDE DEF m
      <4>2. y.profile = th.profile /\ y.pc = "call" /\ y.setting = m
        BY <1>1 DEF ThreadSet
      <4>. HIDE DEF y
      <4>. QED BY <4>1, <4>2
    <3>2. CASE th.setting[2] # "freq"
      <4>. DEFINE y == [th EXCEPT !.pc = "filters", !.setting = Active]
      <4>1. Returned(th) = y
        BY <1>3, <3>2 DEF Returned
      <4>2. y.profile = th.profile /\ y.pc = "filters"
        BY <1>1 DEF ThreadSet
      <4>. HIDE DEF y
      <4>. QED BY <4>1, <4>2
    <3>. QED BY <3>1, <3>2
  <2>2. SpeakerDue(x) /\ FiltersDue(x)
    BY <1>3, <2>1 DEF SpeakerDue, FiltersDue
  <2>. QED BY <2>1, <2>2
<1>. QED BY <1>2, <1>3

LEMMA ProfileHardware ==
  ASSUME Assumptions, Shapes, SpeakerFollows, FiltersFollow, NEW t \in Threads,
         ApplyProfile(t) \/ CompareSame(t) \/ Mark(t)
  PROVE  SpeakerFollows' /\ FiltersFollow'
<1>. DEFINE th == thread[t]
<1>1. ThreadOK(th) /\ th \in ThreadSet /\ Nested(th)
  BY ThreadFields DEF ThreadOK
<1>2. UNCHANGED <<radio, speaker, filters, raced>>
  BY DEF ApplyProfile, CompareSame, Mark, hardware
<1>3. CASE ApplyProfile(t)
  <2>. DEFINE f == <<th.profile, "freq">>
              x == [th EXCEPT !.pc = "call", !.setting = f]
  <2>1. thread' = [thread EXCEPT ![t] = x] /\ th.profile \in Profiles /\ f # Active
    BY <1>1, <1>3, ThreadFields DEF ApplyProfile, At, Nested, Active
  <2>. HIDE DEF f
  <2>2. x.pc = "call" /\ x.profile = th.profile /\ x.setting = f
    BY <1>1 DEF ThreadSet
  <2>. HIDE DEF x
  <2>3. SpeakerDue(x) /\ FiltersDue(x)
    BY <2>1, <2>2 DEF SpeakerDue, FiltersDue
  <2>. QED BY <1>2, <2>1, <2>2, <2>3, HardwareKept
<1>4. CASE CompareSame(t) \/ Mark(t)
  <2>1. thread' = [thread EXCEPT ![t] = Returned(th)] /\ th.pc \in {"compare", "mark"}
    BY <1>4 DEF CompareSame, Mark
  <2>. HIDE DEF th
  <2>. QED BY <1>1, <1>2, <2>1, ReturnedHardware, HardwareKept DEF th
<1>. QED BY <1>3, <1>4

(* The steps that set the loudspeaker.                                     *)
LEMMA LevelHardware ==
  ASSUME Assumptions, Shapes, SpeakerFollows, FiltersFollow, NEW t \in Threads,
         ApplyLevel(t) \/ SetLevels(t)
  PROVE  SpeakerFollows' /\ FiltersFollow'
<1>. DEFINE th == thread[t]
            x == [th EXCEPT !.pc = "format"]
<1>1. th \in ThreadSet /\ Nested(th) /\ th.setting \in Settings /\ "main" \notin Profiles
  BY ThreadFields DEF ThreadOK, Assumptions, ProfilesAssumption
<1>2. thread' = [thread EXCEPT ![t] = x] /\ UNCHANGED <<radio, filters>>
  BY DEF ApplyLevel, SetLevels, Goto
<1>3. x.pc = "format" /\ x.setting = th.setting /\ x.profile = th.profile
  BY <1>1 DEF ThreadSet
<1>4. CASE ApplyLevel(t)
  <2>1. th.pc = "apply" /\ th.setting[2] = "speaker_level" /\ th.setting # Active
        /\ raced' = raced /\ speaker' = IF OfActive(t) THEN th.value ELSE speaker
    BY <1>4 DEF ApplyLevel, At, Active
  <2>2. OfActive(t) <=> th.setting = Level
    BY <1>1, <2>1, Pairs DEF OfActive, Level
  <2>3. th.profile \notin Profiles
    BY <1>1, <2>1 DEF Nested
  <2>4. FiltersDue(th) => FiltersDue(x)
    BY <1>3, <2>1, <2>3 DEF FiltersDue
  <2>. HIDE DEF x, th
  <2>5. FiltersFollow'
    BY <1>2, <1>3, <2>1, <2>4, FiltersKept DEF th
  <2>6. CASE OfActive(t)
    <3>1. thread'[t] = x /\ \A u \in Threads \ {t} : thread'[u] = thread[u]
      BY <1>2 DEF Shapes
    <3>2. Device("speaker") \notin raced => speaker' = radio[Level]
      BY <2>1, <2>2, <2>6 DEF SpeakerFollows, th
    <3>3. \A u \in Threads : InProfile(u)' => InProfile(u) /\ thread'[u].profile = thread[u].profile
      BY <1>3, <3>1 DEF InProfile, th
    <3>4. \A u \in Threads : thread'[u].pc = "apply" => thread'[u] = thread[u]
      BY <1>3, <3>1
    <3>5. Level' = Level
      BY <1>2 DEF Level
    <3>. QED BY <1>2, <2>1, <2>5, <3>2, <3>3, <3>4, <3>5 DEF SpeakerFollows
  <2>7. CASE ~ OfActive(t)
    <3>1. ~ SpeakerDue(th)
      BY <2>2, <2>3, <2>7 DEF SpeakerDue
    <3>2. SpeakerFollows'
      BY <1>2, <1>3, <2>1, <2>7, <3>1, SpeakerKept DEF th
    <3>. QED BY <2>5, <3>2
  <2>. QED BY <2>6, <2>7
<1>5. CASE SetLevels(t)
  <2>1. th.pc = "levels" /\ th.setting = Active /\ th.profile \in Profiles
        /\ speaker' = radio[<<th.profile, "speaker_level">>]
        /\ raced' \subseteq raced
        /\ (Device("filters") \in raced => Device("filters") \in raced')
        /\ (th.profile # radio[Active] => raced' = raced)
    BY <1>1, <1>5 DEF SetLevels, Nested, Device
  <2>2. FiltersDue(th) => FiltersDue(x)
    BY <2>1 DEF FiltersDue
  <2>3. Device("speaker") \in raced /\ Device("speaker") \notin raced' =>
          th.profile = radio[Active] /\ Device("speaker") \notin ByOthers(t)
    BY <1>5 DEF SetLevels
  <2>. HIDE DEF x
  <2>4. FiltersFollow'
    BY <1>2, <1>3, <2>1, <2>2, FiltersKept
  <2>5. thread'[t] = x /\ \A u \in Threads \ {t} : thread'[u] = thread[u]
    BY <1>2 DEF Shapes
  <2>6. CASE Device("speaker") \in raced'
    BY <2>4, <2>6 DEF SpeakerFollows
  <2>7. CASE Device("speaker") \notin raced'
    <3>1. th.profile = radio[Active]
      BY <2>1, <2>3, <2>7 DEF SpeakerFollows, InProfile
    <3>2. ASSUME NEW u \in Threads \ {t}
          PROVE  /\ InProfile(u) => thread[u].profile = radio[Active]
                 /\ thread[u].pc = "apply" /\ thread[u].setting = Level =>
                      thread[u].value = radio[Level]
      <4>1. CASE Device("speaker") \in raced
        <5>1. Device("speaker") \notin ChangedBy(u)
          BY <2>3, <2>7, <4>1 DEF ByOthers
        <5>. QED BY <5>1, DevicesChanged DEF Busy, Level
      <4>2. CASE Device("speaker") \notin raced
        BY <4>2 DEF SpeakerFollows
      <4>. QED BY <4>1, <4>2
    <3>3. Level' = Level /\ speaker' = radio[Level]
      BY <1>2, <2>1, <3>1 DEF Level
    <3>. HIDE DEF th
    <3>4. \A u \in Threads : InProfile(u)' => thread'[u].profile = radio'[Active]
      BY <1>2, <1>3, <2>5, <3>1, <3>2 DEF InProfile
    <3>5. \A u \in Threads : thread'[u].pc = "apply" /\ thread'[u].setting = Level =>
            thread'[u].value = radio[Level]
      BY <1>3, <2>5, <3>2
    <3>. QED BY <1>2, <2>4, <3>3, <3>4, <3>5 DEF SpeakerFollows
  <2>. QED BY <2>6, <2>7
<1>. QED BY <1>4, <1>5

(* The steps that set the filters.                                         *)
LEMMA TuneHardware ==
  ASSUME Assumptions, Shapes, SpeakerFollows, FiltersFollow, NEW t \in Threads,
         ReadFilters(t) \/ TuneFilters(t)
  PROVE  SpeakerFollows' /\ FiltersFollow'
<1>. DEFINE th == thread[t]
<1>1. th \in ThreadSet /\ Nested(th)
  BY ThreadFields DEF ThreadOK
<1>2. UNCHANGED <<radio, speaker>>
  BY DEF ReadFilters, TuneFilters, hardware
<1>3. CASE ReadFilters(t)
  <2>. DEFINE f == FiltersFor(radio)
              x == [th EXCEPT !.pc = "tune", !.read = f]
  <2>1. /\ thread' = [thread EXCEPT ![t] = x] /\ th.pc = "filters" /\ filters' = filters
        /\ raced' = raced \ ({Device("filters")} \ ByOthers(t))
    BY <1>3 DEF ReadFilters, hardware
  <2>2. x.pc = "tune" /\ x.setting = th.setting /\ x.profile = th.profile /\ x.read = f
    BY <1>1 DEF ThreadSet
  <2>3. f' = f
    BY <1>2 DEF FiltersFor
  <2>. HIDE DEF x, f
  <2>4. SpeakerFollows'
    <3>1. SpeakerDue(th) => SpeakerDue(x)
      BY <2>1, <2>2 DEF SpeakerDue
    <3>2. Device("speaker") \in raced => Device("speaker") \in raced'
      BY <2>1 DEF Device
    <3>. QED BY <1>2, <2>1, <2>2, <3>1, <3>2, SpeakerKept
  <2>5. thread'[t] = x /\ \A u \in Threads \ {t} : thread'[u] = thread[u]
    BY <2>1 DEF Shapes
  <2>6. CASE Device("filters") \in raced'
    BY <2>4, <2>6 DEF FiltersFollow
  <2>7. CASE Device("filters") \notin raced'
    <3>1. ASSUME NEW u \in Threads \ {t}, thread[u].pc = "tune" PROVE thread[u].read = f
      <4>1. CASE Device("filters") \in raced
        <5>1. Device("filters") \notin ChangedBy(u)
          BY <2>1, <2>7, <4>1 DEF ByOthers
        <5>. QED BY <3>1, <5>1, DevicesChanged
      <4>2. CASE Device("filters") \notin raced
        BY <3>1, <4>2 DEF FiltersFollow, f
      <4>. QED BY <4>1, <4>2
    <3>2. \A u \in Threads : thread'[u].pc = "tune" => thread'[u].read = f
      BY <2>2, <2>5, <3>1
    <3>3. FiltersDue(thread[t])'
      BY <2>2, <2>5 DEF FiltersDue
    <3>. QED BY <2>3, <2>4, <3>2, <3>3 DEF FiltersFollow, f
  <2>. QED BY <2>6, <2>7
<1>4. CASE TuneFilters(t)
  <2>. DEFINE to == IF th.setting = Active THEN "levels" ELSE "format"
              x == [th EXCEPT !.pc = to, !.read = <<>>]
  <2>1. thread' = [thread EXCEPT ![t] = x] /\ th.pc = "tune" /\ filters' = th.read
        /\ raced' = raced
    BY <1>4 DEF TuneFilters
  <2>2. to \in {"levels", "format"} /\ (th.setting = Active => to = "levels")
    OBVIOUS
  <2>. HIDE DEF to
  <2>3. x.pc = to /\ x.setting = th.setting /\ x.profile = th.profile
    BY <1>1, <2>2 DEF ThreadSet
  <2>. HIDE DEF x
  <2>4. SpeakerFollows'
    <3>1. SpeakerDue(th) => SpeakerDue(x)
      BY <2>1, <2>2, <2>3 DEF SpeakerDue
    <3>. QED BY <1>2, <2>1, <2>2, <2>3, <3>1, SpeakerKept
  <2>5. thread'[t] = x /\ \A u \in Threads \ {t} : thread'[u] = thread[u]
    BY <2>1 DEF Shapes
  <2>6. FiltersFor(radio)' = FiltersFor(radio)
    BY <1>2 DEF FiltersFor
  <2>7. \A u \in Threads : thread'[u].pc = "tune" => thread'[u] = thread[u]
    BY <2>2, <2>3, <2>5
  <2>8. Device("filters") \notin raced => th.read = FiltersFor(radio)
    BY <2>1 DEF FiltersFollow
  <2>. QED BY <2>1, <2>4, <2>6, <2>7, <2>8 DEF FiltersFollow
<1>. QED BY <1>3, <1>4

(* An assignment: when no other thread is at the device, the one that has  *)
(* assigned is going to set it; else it is raced.                          *)
LEMMA AssignSpeaker ==
  ASSUME Assumptions, Shapes, SpeakerFollows, NEW t \in Threads, NEW s \in Settings,
         NEW v \in Values(s), NEW profile, Assign(t, s, v, profile), speaker' = speaker,
         s = Active => profile = v,
         s[2] = "speaker_level" => profile \notin Profiles,
         s # Active => profile = thread[t].profile,
         thread[t].pc # "apply",
         thread[t].profile \in Profiles => thread[t].setting = s
  PROVE  SpeakerFollows'
<1>. DEFINE x == [pc |-> "apply", setting |-> s, value |-> v, profile |-> profile, read |-> <<>>]
<1>1. x.pc = "apply" /\ x.setting = s /\ x.value = v /\ x.profile = profile
  OBVIOUS
<1>2. thread' = [thread EXCEPT ![t] = x] /\ radio' = [radio EXCEPT ![s] = v]
  BY DEF Assign
<1>. HIDE DEF x
<1>3. thread'[t] = x /\ \A u \in Threads \ {t} : thread'[u] = thread[u]
  BY <1>2 DEF Shapes
<1>4. radio'[s] = v /\ \A r \in Settings \ {s} : radio'[r] = radio[r]
  BY <1>2 DEF Shapes, Kept
<1>5. radio[Active] \in Profiles /\ Active \in Settings /\ Level \in Settings /\ Level # Active
      /\ Level[2] = "speaker_level" /\ Active[1] = "main" /\ "main" \notin Profiles
  BY FiltersTypes, ActiveKind, OfProfile
     DEF Shapes, Level, Active, Assumptions, ProfilesAssumption
<1>6. (s = Active \/ s = Level) /\ Device("speaker") \notin raced' =>
        \A u \in Threads \ {t} :
          ~ InProfile(u) /\ ~ (thread[u].pc = "apply" /\ thread[u].setting[2] = "speaker_level")
  <2>1. s = Active \/ s = Level => Device("speaker") \in Changes(s)
    BY <1>5, Kinds DEF Changes
  <2>2. (s = Active \/ s = Level) /\ Device("speaker") \notin raced' =>
          Device("speaker") \notin ByOthers(t)
    BY <2>1 DEF Assign
  <2>. QED BY <2>2, DevicesChanged DEF ByOthers, Busy
<1>7. CASE s = Active
  <2>1. CASE Device("speaker") \in raced'
    BY <2>1 DEF SpeakerFollows
  <2>2. CASE Device("speaker") \notin raced'
    <3>1. \A u \in Threads : InProfile(u)' => thread'[u].profile = radio'[Active]
      BY <1>1, <1>3, <1>4, <1>6, <1>7, <2>2 DEF InProfile
    <3>2. Level'[2] = "speaker_level" /\ Level' # Active
      BY DEF Level, Active
    <3>3. \A u \in Threads : ~ (thread'[u].pc = "apply" /\ thread'[u].setting = Level')
      BY <1>1, <1>3, <1>6, <1>7, <2>2, <3>2
    <3>4. SpeakerDue(thread[t])'
      BY <1>1, <1>3, <1>7, ActiveKind DEF SpeakerDue
    <3>. QED BY <3>1, <3>3, <3>4 DEF SpeakerFollows
  <2>. QED BY <2>1, <2>2
<1>8. CASE s = Level
  <2>1. CASE Device("speaker") \in raced'
    BY <2>1 DEF SpeakerFollows
  <2>2. CASE Device("speaker") \notin raced'
    <3>1. Level' = Level
      BY <1>4, <1>5, <1>8 DEF Level
    <3>2. \A u \in Threads : ~ InProfile(u)'
      BY <1>1, <1>3, <1>5, <1>6, <1>8, <2>2 DEF InProfile
    <3>3. \A u \in Threads : thread'[u].pc = "apply" /\ thread'[u].setting = Level =>
            thread'[u].value = radio'[Level]
      BY <1>1, <1>3, <1>4, <1>5, <1>6, <1>8, <2>2
    <3>4. SpeakerDue(thread[t])'
      BY <1>1, <1>3, <1>8, <3>1 DEF SpeakerDue
    <3>. QED BY <3>1, <3>2, <3>3, <3>4 DEF SpeakerFollows
  <2>. QED BY <2>1, <2>2
<1>9. CASE s # Active /\ s # Level
  <2>1. ~ (s[1] = radio[Active] /\ s[2] = "speaker_level")
    BY <1>9, Pairs DEF Level
  <2>2. Device("speaker") \in raced => Device("speaker") \in raced'
    <3>1. s[1] = radio[Active] => Device("speaker") \notin Changes(s)
      BY <1>5, <1>9, <2>1, Kinds, Changing DEF Changes, Device
    <3>2. Device("speaker") # s
      BY Changing
    <3>. QED BY <3>1, <3>2 DEF Assign
  <2>3. SpeakerDue(thread[t]) => SpeakerDue(x)
    BY <1>1, <1>9 DEF SpeakerDue
  <2>4. radio'[Active] = radio[Active] /\ radio'[Level] = radio[Level]
    BY <1>4, <1>5, <1>9
  <2>. QED BY <1>1, <1>2, <1>9, <2>2, <2>3, <2>4, SpeakerKept
<1>. QED BY <1>7, <1>8, <1>9

LEMMA AssignFilters ==
  ASSUME Assumptions, Shapes, FiltersFollow, NEW t \in Threads, NEW s \in Settings,
         NEW v \in Values(s), NEW profile, Assign(t, s, v, profile), filters' = filters,
         s = Active => profile = v, s # Active => profile = thread[t].profile,
         thread[t].pc \notin {"apply", "filters", "tune"}
  PROVE  FiltersFollow'
<1>. DEFINE x == [pc |-> "apply", setting |-> s, value |-> v, profile |-> profile, read |-> <<>>]
            m == <<radio[Active], "mode">>
<1>1. x.pc = "apply" /\ x.setting = s /\ x.value = v /\ x.profile = profile
  OBVIOUS
<1>2. thread' = [thread EXCEPT ![t] = x] /\ radio' = [radio EXCEPT ![s] = v]
  BY DEF Assign
<1>. HIDE DEF x
<1>3. thread'[t] = x /\ \A u \in Threads \ {t} : thread'[u] = thread[u]
  BY <1>2 DEF Shapes
<1>4. radio'[s] = v /\ \A r \in Settings \ {s} : radio'[r] = radio[r]
  BY <1>2 DEF Shapes, Kept
<1>5. radio[Active] \in Profiles /\ Active \in Settings /\ m \in Settings /\ m # Active
      /\ m[2] = "mode" /\ Active[1] = "main" /\ "main" \notin Profiles
  BY FiltersTypes, ActiveKind, OfProfile DEF Shapes, Active, Assumptions, ProfilesAssumption
<1>6. CASE s = Active \/ s = m
  <2>1. CASE Device("filters") \in raced'
    BY <2>1 DEF FiltersFollow
  <2>2. CASE Device("filters") \notin raced'
    <3>1. Device("filters") \in Changes(s)
      BY <1>5, <1>6, Kinds DEF Changes
    <3>2. Device("filters") \notin ByOthers(t)
      BY <2>2, <3>1 DEF Assign
    <3>3. \A u \in Threads : thread'[u].pc # "tune"
      BY <1>1, <1>3, <3>2, DevicesChanged DEF ByOthers
    <3>4. FiltersDue(thread[t])'
      <4>1. CASE s = Active
        BY <1>1, <1>3, <4>1, ActiveKind DEF FiltersDue
      <4>2. CASE s = m
        <5>1. radio'[Active] = radio[Active]
          BY <1>4, <1>5, <4>2
        <5>. QED BY <1>1, <1>3, <4>2, <5>1 DEF FiltersDue
      <4>. QED BY <1>6, <4>1, <4>2
    <3>. QED BY <3>3, <3>4 DEF FiltersFollow
  <2>. QED BY <2>1, <2>2
<1>7. CASE s # Active /\ s # m
  <2>1. Device("filters") \in raced => Device("filters") \in raced'
    <3>1. s[2] # "mode" => Device("filters") \notin Changes(s)
      BY <1>7, Kinds, Changing DEF Changes, Device
    <3>2. Device("filters") # s
      BY Changing
    <3>. QED BY <3>1, <3>2 DEF Assign
  <2>2. FiltersDue(thread[t]) => FiltersDue(x)
    BY <1>1, <1>7 DEF FiltersDue
  <2>3. radio'[Active] = radio[Active] /\ radio'[m] = radio[m]
    BY <1>4, <1>5, <1>7
  <2>. HIDE DEF x
  <2>. QED BY <1>1, <1>2, <2>1, <2>2, <2>3, FiltersKept
<1>. QED BY <1>6, <1>7

LEMMA SetHardware ==
  ASSUME Assumptions, Shapes, SpeakerFollows, FiltersFollow,
         NEW t \in Threads, NEW s \in Settings, NEW v, Set(t, s, v)
  PROVE  SpeakerFollows' /\ FiltersFollow'
<1>1. /\ v \in Values(s) /\ Assign(t, s, v, IF s = Active THEN v ELSE "main")
      /\ speaker' = speaker /\ filters' = filters
  BY DEF Set, hardware
<1>2. thread[t] = Idle
  BY ThreadFields DEF Set, Busy, ThreadOK, Nested
<1>3. thread[t].pc = "idle" /\ thread[t].profile = "main" /\ "main" \notin Profiles
  BY <1>2 DEF Idle, Assumptions, ProfilesAssumption
<1>4. CASE s = Active
  <2>1. Assign(t, s, v, v) /\ s[2] # "speaker_level"
    BY <1>1, <1>4 DEF Active
  <2>. QED BY <1>1, <1>3, <1>4, <2>1, AssignSpeaker, AssignFilters
<1>5. CASE s # Active
  <2>1. Assign(t, s, v, "main")
    BY <1>1, <1>5
  <2>. QED BY <1>1, <1>3, <1>5, <2>1, AssignSpeaker, AssignFilters
<1>. QED BY <1>4, <1>5

LEMMA CompareHardware ==
  ASSUME Assumptions, Shapes, SpeakerFollows, FiltersFollow, NEW t \in Threads, CompareDiffers(t)
  PROVE  SpeakerFollows' /\ FiltersFollow'
<1>. DEFINE th == thread[t]
<1>1. th.setting \in Settings /\ ThreadType(th) /\ Nested(th) /\ th.pc = "compare"
  BY ThreadFields DEF ThreadOK, CompareDiffers
<1>2. th.setting # Active /\ th.value \in Values(th.setting)
      /\ th.setting[2] \in {"freq", "mode"}
  BY <1>1 DEF Nested, Tops, ThreadType
<1>3. Assign(t, th.setting, th.value, th.profile) /\ UNCHANGED <<speaker, filters>>
  BY DEF CompareDiffers, hardware
<1>. DEFINE s == th.setting
            v == th.value
            profile == th.profile
<1>4. /\ s \in Settings /\ v \in Values(s) /\ Assign(t, s, v, profile) /\ s # Active
      /\ s[2] # "speaker_level" /\ profile = thread[t].profile /\ thread[t].pc = "compare"
      /\ thread[t].setting = s
  BY <1>1, <1>2, <1>3
<1>. HIDE DEF s, v, profile, th
<1>. QED BY <1>3, <1>4, AssignSpeaker, AssignFilters

LEMMA FreshHardware ==
  ASSUME Assumptions, speaker' = radio'[<<radio'[Active], "speaker_level">>],
         filters' = FiltersFor(radio'), thread' = [t \in Threads |-> Idle]
  PROVE  SpeakerFollows' /\ FiltersFollow'
BY DEF SpeakerFollows, Level, FiltersFollow, FiltersFor, InProfile, Idle, Assumptions,
       ProfilesAssumption

LEMMA HardwareStep ==
  ASSUME Assumptions, Shapes, SpeakerFollows, FiltersFollow, [Next]_vars
  PROVE  SpeakerFollows' /\ FiltersFollow'
<1>1. CASE UNCHANGED vars \/ ConfigThread
  <2>1. UNCHANGED <<radio, thread, raced, speaker, filters>>
    BY <1>1 DEF vars, hardware, ConfigThread, LookClean, Dump, WriteFile, ClearDirty
  <2>. QED BY <2>1 DEF SpeakerFollows, SpeakerDue, Level, FiltersFollow, FiltersDue, FiltersFor,
                       InProfile
<1>2. CASE Command \/ Knob \/ TimeOut
  BY <1>2, CallsSet, SetHardware
<1>3. ASSUME NEW t \in Threads, Setter(t) PROVE SpeakerFollows' /\ FiltersFollow'
  BY <1>3, WithinHardware, ProfileHardware, LevelHardware, TuneHardware, CompareHardware
     DEF Setter
<1>4. CASE Restart
  BY <1>4, FreshHardware DEF Restart
<1>. QED BY <1>1, <1>2, <1>3, <1>4 DEF Next

-----------------------------------------------------------------------------
LEMMA InitHolds == Assumptions /\ Init => IInv
<1>. SUFFICES ASSUME Assumptions, Init PROVE IInv
  OBVIOUS
<1>1. Shipped \in Kept /\ SettingsType(Shipped)
  BY ShippedTypes
<1>2. Shapes
  BY <1>1, FreshTypes DEF Init, Shapes
<1>3. StoredOrPending
  <2>. SUFFICES ASSUME NEW s \in Settings PROVE Held(s)
    BY DEF StoredOrPending
  <2>1. \A t \in Threads : ~ Pending(thread[t], s)
    BY DEF Init, Pending, Idle, Unstored, Assumptions, ProfilesAssumption
  <2>2. Agree(s)
    BY DEF Init, Agree, Unreadable, Loaded
  <2>. QED BY <2>1, <2>2 DEF Held, WillStore
<1>4. SavedOrMarked
  BY DEF Init, SavedOrMarked, Filed, Writing, Asleep
<1>5. SpeakerFollows /\ FiltersFollow
  BY DEF Init, SpeakerFollows, Level, FiltersFollow, FiltersFor, InProfile, Idle, Assumptions,
         ProfilesAssumption
<1>. QED BY <1>2, <1>3, <1>4, <1>5 DEF IInv

LEMMA StepHolds == Assumptions /\ IInv /\ [Next]_vars => IInv'
BY ShapesStep, StoredStep, SavedStep, HardwareStep DEF IInv

LEMMA Assumed == Assumptions
BY ProfilesAssumption, ValuesAssumption, BoundsAssumption DEF Assumptions

LEMMA Invariant == Spec => []IInv
<1>1. Init => IInv
  BY InitHolds, Assumed
<1>2. IInv /\ [Next]_vars => IInv'
  BY StepHolds, Assumed
<1>. QED BY <1>1, <1>2, PTL DEF Spec

(* The state is well-typed: whatever is called with, the radio, the        *)
(* dictionaries and the files have values the setters take, each setting   *)
(* its own, and the oscillator and the loudspeaker get such a value too.   *)
THEOREM TypeCorrect == Spec => []TypeOK
<1>1. IInv => TypeOK
  BY ShapesTypes DEF IInv
<1>. QED BY <1>1, Invariant, PTL

(* What a setter leaves in the radio is in the dictionary, in its own      *)
(* section, also when set_profile calls the setters of frequency and mode, *)
(* unless two threads set the same thing at once, or the radio took the    *)
(* CW of a file for LSB.                                                   *)
THEOREM Stored == Spec => []StoredAsSet
<1>1. IInv => StoredAsSet
  <2>. SUFFICES ASSUME IInv, NEW s \in Settings, \A t \in Threads : s \notin ChangedBy(t)
                PROVE  \/ dict[s] = radio[s] \/ s \in raced
                       \/ Unreadable(dict, s) /\ radio[s] = "LSB"
    BY DEF StoredAsSet
  <2>1. \A t \in Threads : ~ Pending(thread[t], s)
    BY PendingChanged DEF IInv
  <2>. QED BY <2>1 DEF IInv, StoredOrPending, Held, Agree
<1>. QED BY <1>1, Invariant, PTL

(* What the dictionary has is in its file whenever the mark is off, but    *)
(* for what config_thread has overtaken: stored while it wrote.            *)
THEOREM Saved == Spec => []SavedWhenClean
<1>1. IInv => SavedWhenClean
  BY DEF IInv, SavedOrMarked, Filed, SavedWhenClean, Marking
<1>. QED BY <1>1, Invariant, PTL

(* When nobody is setting anything the filters and the loudspeaker are as  *)
(* the mode and the level of the active profile say, whichever of the      *)
(* three was changed last, unless two threads changed them at once.        *)
THEOREM HardwareIsSet == Spec => []HardwareFollows
<1>1. IInv => HardwareFollows
  <2>. SUFFICES ASSUME IInv, Quiet
                PROVE  /\ filters = FiltersFor(radio) \/ Device("filters") \in raced
                       /\ speaker = radio[Level] \/ Device("speaker") \in raced
    BY DEF HardwareFollows, Level
  <2>1. \A t \in Threads : thread[t] = Idle
    BY ThreadFields DEF IInv, Quiet, Busy, ThreadOK, Nested
  <2>2. \A t \in Threads : ~ SpeakerDue(thread[t]) /\ ~ FiltersDue(thread[t])
    BY <2>1, Assumed DEF Idle, SpeakerDue, FiltersDue, Assumptions, ProfilesAssumption
  <2>. QED BY <2>2 DEF IInv, SpeakerFollows, FiltersFollow
<1>. QED BY <1>1, Invariant, PTL

(* A radio that was left alone until the marks were off comes back with    *)
(* the settings it had, however many calls and restarts came before, but   *)
(* for what was raced or overtaken, and the mode CW, which is read as LSB. *)
THEOREM ComesBack == Spec => ComesBackAsLeft
<1>1. IInv /\ [Next]_vars =>
        [ restarts' # restarts /\ Quiet /\ (\A f \in Files : ~ dirty[f] /\ ~ Writing(f)) =>
          \A s \in Settings :
            \/ radio'[s] = radio[s] \/ s \in raced \cup overtaken
            \/ Unreadable(radio, s) /\ radio'[s] = "LSB" ]_vars
  <2>. SUFFICES ASSUME IInv, Next, restarts' # restarts, Quiet,
                       \A f \in Files : ~ dirty[f] /\ ~ Writing(f), NEW s \in Settings
                PROVE  \/ radio'[s] = radio[s] \/ s \in raced \cup overtaken
                       \/ Unreadable(radio, s) /\ radio'[s] = "LSB"
    OBVIOUS
  <2>1. Restart
    <3>1. Shapes
      BY DEF IInv
    <3>2. ASSUME Command \/ Knob \/ TimeOut PROVE FALSE
      BY <3>1, <3>2, CallsSet DEF Set
    <3>3. ASSUME NEW t \in Threads, Setter(t) PROVE FALSE
      BY <3>3 DEF Setter, ApplyFreq, ApplyLevel, ApplyMode, ApplyBFO, ApplyProfile, Call,
         CompareSame, CompareDiffers, ReadFilters, TuneFilters, SetLevels, Format, Store, Mark,
         bounds
    <3>4. ASSUME ConfigThread PROVE FALSE
      BY <3>4 DEF ConfigThread, LookClean, Dump, WriteFile, ClearDirty, bounds
    <3>. QED BY <3>2, <3>3, <3>4 DEF Next
  <2>2. \A t \in Threads : thread[t] = Idle
    BY ThreadFields DEF IInv, Quiet, Busy, ThreadOK, Nested
  <2>3. \A t \in Threads : ~ Pending(thread[t], s) /\ ~ Marking(thread[t], s)
    BY <2>2, Assumed DEF Idle, Pending, Marking, Unstored, Assumptions, ProfilesAssumption
  <2>4. s \in overtaken \/ file[s] = dict[s]
    BY <2>3, Kinds DEF IInv, SavedOrMarked, Filed
  <2>5. s \in raced \/ Agree(s)
    BY <2>3 DEF IInv, StoredOrPending, Held
  <2>6. radio'[s] = IF s[2] = "mode" /\ file[s] = "CW" THEN "LSB" ELSE file[s]
    BY <2>1 DEF Restart, Loaded
  <2>. QED BY <2>4, <2>5, <2>6 DEF Agree, Unreadable
<1>. QED BY <1>1, Invariant, PTL DEF Spec, ComesBackAsLeft

=============================================================================

---------------------------- MODULE RadioSettings ----------------------------
(***************************************************************************)
(* The settings of the radio and how they are kept: the radio's own        *)
(* variables, the two INI dictionaries beside them (cfg_core and cfg_user),*)
(* the files config_thread writes these to, and what follows a setting in  *)
(* the hardware: the oscillator, the band-pass filters and the loudspeaker *)
(* (sbitx_core.c, cfg_utils.c, sbitx_shm.c).                               *)
(*                                                                         *)
(* Two threads set: the command thread for the clients, and the thread of  *)
(* io_tick for the knobs and the return to the default profile.  Nothing   *)
(* but the dictionary is under a mutex.                                    *)
(*                                                                         *)
(* One setting stands for each kind: the frequency, mode and loudspeaker   *)
(* level of a profile, the active profile, and the BFO as a setting of the *)
(* core file.  Power level, digital voice, profile timeout, threshold and  *)
(* serial number are as the last of these, or as the level without the     *)
(* loudspeaker.  The radio is receiving throughout (RadioTxRx models the   *)
(* switching).                                                             *)
(***************************************************************************)
EXTENDS Naturals

CONSTANTS
  Profiles,        \* sections of the user file
  DefaultProfile,
  Freqs,           \* frequencies set_frequency takes
  OtherFreqs,      \* and some it does not
  Modes, Levels, BFOs,
  MaxSets,         \* bound: calls that change a setting
  MaxRestarts      \* bound: ends of the controller

ASSUME ProfilesAssumption == DefaultProfile \in Profiles /\ "main" \notin Profiles

ASSUME ValuesAssumption ==
  /\ Freqs # {} /\ Levels # {} /\ BFOs # {} /\ Freqs \cap OtherFreqs = {}
  /\ "LSB" \in Modes /\ Modes \subseteq {"USB", "LSB", "CW"}

ASSUME BoundsAssumption == MaxSets \in Nat /\ MaxRestarts \in Nat

Threads == {"command", "io"}
Files == {"core", "user"}

Active == <<"main", "current_profile">>
BFO == <<"main", "bfo">>
Settings == {Active, BFO} \cup (Profiles \X {"freq", "mode", "speaker_level"})

Values(s) ==
  CASE s[2] = "freq" -> Freqs
    [] s[2] = "mode" -> Modes
    [] s[2] = "speaker_level" -> Levels
    [] s[2] = "bfo" -> BFOs
    [] s[2] = "current_profile" -> Profiles

File(s) == IF s = BFO THEN "core" ELSE "user"

VARIABLES
  radio,       \* the settings as the threads see them
  dict,        \* as the dictionaries hold them
  file,        \* as the files hold them
  dirty,       \* cfg_core_dirty, cfg_user_dirty
  oscillator,  \* the frequency clock 2 was last set for
  filters,     \* the profile and side the band-pass filters were tuned for
  speaker,     \* the level of the loudspeaker
  thread,      \* what each thread is at: [pc, setting, value, profile, read]
  config,      \* config_thread: [pc, at, copy]
  raced,       \* history: what two threads were changing at once
  overtaken,   \* history: settings stored while their file was written
  sets, restarts   \* history

hardware == <<oscillator, filters, speaker>>
stored == <<dict, overtaken>>
saving == <<file, config>>
bounds == <<sets, restarts>>
vars == <<radio, hardware, stored, dirty, saving, thread, raced, bounds>>

-----------------------------------------------------------------------------
(* Mutant: every profile gets the frequency of the default one.            *)
MutantLoaded(saved) ==
  [s \in Settings |-> IF s[2] = "mode" /\ saved[s] = "CW" THEN "LSB"
                      ELSE IF s[2] = "freq" THEN saved[<<DefaultProfile, "freq">>]
                      ELSE saved[s]]

(* Loading the files: a mode is USB or LSB, and after anything else the    *)
(* variable stays as main cleared it, LSB.                                 *)
Loaded(saved) ==
  [s \in Settings |-> IF s[2] = "mode" /\ saved[s] = "CW" THEN "LSB" ELSE saved[s]]

Side(mode) == IF mode = "LSB" THEN "lower" ELSE "upper"
FiltersFor(settings) ==
  <<settings[Active], Side(settings[<<settings[Active], "mode">>])>>

Idle == [pc |-> "idle", setting |-> Active, value |-> DefaultProfile,
         profile |-> "main", read |-> <<>>]

Shipped == [s \in Settings |-> CHOOSE v \in Values(s) : TRUE]

Asleep == [pc |-> "look", at |-> "core", copy |-> Shipped]

(* The controller starts.                                                  *)
Init ==
  /\ radio = Loaded(Shipped) /\ dict = Shipped /\ file = Shipped
  /\ dirty = [f \in Files |-> FALSE]
  /\ oscillator = radio[<<radio[Active], "freq">>]
  /\ filters = FiltersFor(radio)
  /\ speaker = radio[<<radio[Active], "speaker_level">>]
  /\ thread = [t \in Threads |-> Idle]
  /\ config = Asleep
  /\ raced = {} /\ overtaken = {}
  /\ sets = 0 /\ restarts = 0

(* It ends, in order or not, and starts again; an end in the middle of the *)
(* writing of a file is not modelled.                                      *)
Restart ==
  /\ restarts < MaxRestarts /\ restarts' = restarts + 1
  /\ radio' = Loaded(file) /\ dict' = file
  /\ dirty' = [f \in Files |-> FALSE]
  /\ oscillator' = radio'[<<radio'[Active], "freq">>]
  /\ filters' = FiltersFor(radio')
  /\ speaker' = radio'[<<radio'[Active], "speaker_level">>]
  /\ thread' = [t \in Threads |-> Idle]
  /\ config' = Asleep
  /\ raced' = {} /\ overtaken' = {}
  /\ UNCHANGED <<file, sets>>

-----------------------------------------------------------------------------
(* The setters.  A thread inside set_profile has a profile, also while it  *)
(* is inside the set_frequency and the set_mode that are called there.     *)
Device(name) == <<"hardware", name>>

Changes(s) ==
  {s} \cup CASE s[2] = "freq" -> {Device("oscillator")}
            [] s[2] = "mode" -> {Device("filters")}
            [] s[2] = "speaker_level" -> {Device("speaker")}
            [] s[2] = "bfo" -> {}
            [] s = Active -> {Device("oscillator"), Device("filters"), Device("speaker")}

Busy(t) == thread[t].pc # "idle"
InProfile(t) == thread[t].profile \in Profiles
ChangedBy(t) ==
  (IF Busy(t) THEN Changes(thread[t].setting) ELSE {})
    \cup (IF InProfile(t) THEN Changes(Active) ELSE {})
ByOthers(t) == UNION {ChangedBy(u) : u \in Threads \ {t}}

(* The assignment to the radio's variable.                                 *)
Assign(t, s, v, profile) ==
  /\ radio' = [radio EXCEPT ![s] = v]
  /\ thread' = [thread EXCEPT ![t] = [pc |-> "apply", setting |-> s, value |-> v,
                                     profile |-> profile, read |-> <<>>]]
  /\ raced' = (raced \ IF s[1] = radio[Active] /\ s[2] # "mode" THEN Changes(s) ELSE {s})
                 \cup (Changes(s) \cap ByOthers(t))

(* Mutant: set_frequency without its limits.                               *)
MutantSet(t, s, v) ==
  /\ ~ Busy(t)
  /\ sets < MaxSets /\ sets' = sets + 1
  /\ v # radio[s]
  /\ Assign(t, s, v, IF s = Active THEN v ELSE "main")
  /\ UNCHANGED <<hardware, stored, dirty, saving, restarts>>

(* A setter is called; with the value that is there it returns.            *)
Set(t, s, v) ==
  /\ ~ Busy(t)
  /\ sets < MaxSets /\ sets' = sets + 1
  /\ v \in Values(s) /\ v # radio[s]
  /\ Assign(t, s, v, IF s = Active THEN v ELSE "main")
  /\ UNCHANGED <<hardware, stored, dirty, saving, restarts>>

(* A client's command.                                                     *)
Command ==
  \E s \in Settings :
    \E v \in Values(s) \cup (IF s[2] = "freq" THEN OtherFreqs ELSE {}) :
      Set("command", s, v)

(* The knobs: what they set is of the active profile.                      *)
Knob ==
  \/ \E v \in Freqs \cup OtherFreqs : Set("io", <<radio[Active], "freq">>, v)
  \/ \E v \in Levels : Set("io", <<radio[Active], "speaker_level">>, v)

(* The stop watch for reverting to the default profile.                    *)
TimeOut == Set("io", Active, DefaultProfile)

(* Steps inside a setter.                                                  *)
At(t, pc, key) == thread[t].pc = pc /\ thread[t].setting[2] = key
Goto(t, pc) == thread' = [thread EXCEPT ![t].pc = pc]
OfActive(t) == thread[t].setting[1] = radio[Active]

ApplyFreq(t) ==
  /\ At(t, "apply", "freq")
  /\ oscillator' = IF OfActive(t) THEN radio[thread[t].setting] ELSE oscillator
  /\ Goto(t, "format")
  /\ UNCHANGED <<radio, filters, speaker, stored, dirty, saving, raced, bounds>>

(* Mutant: the loudspeaker follows the level of any profile.               *)
MutantApplyLevel(t) ==
  /\ At(t, "apply", "speaker_level")
  /\ speaker' = thread[t].value
  /\ Goto(t, "format")
  /\ UNCHANGED <<radio, oscillator, filters, stored, dirty, saving, raced, bounds>>

ApplyLevel(t) ==
  /\ At(t, "apply", "speaker_level")
  /\ speaker' = IF OfActive(t) THEN thread[t].value ELSE speaker
  /\ Goto(t, "format")
  /\ UNCHANGED <<radio, oscillator, filters, stored, dirty, saving, raced, bounds>>

ApplyMode(t) ==
  /\ At(t, "apply", "mode")
  /\ Goto(t, IF OfActive(t) THEN "filters" ELSE "format")
  /\ UNCHANGED <<radio, hardware, stored, dirty, saving, raced, bounds>>

(* The BFO has a clock of its own, which is not modelled.                  *)
ApplyBFO(t) ==
  /\ At(t, "apply", "bfo")
  /\ Goto(t, "format")
  /\ UNCHANGED <<radio, hardware, stored, dirty, saving, raced, bounds>>

(* set_profile calls set_frequency, then set_mode, with what is there.     *)
ApplyProfile(t) ==
  /\ At(t, "apply", "current_profile")
  /\ thread' = [thread EXCEPT ![t].pc = "call",
                             ![t].setting = <<thread[t].profile, "freq">>]
  /\ UNCHANGED <<radio, hardware, stored, dirty, saving, raced, bounds>>

Call(t) ==
  /\ thread[t].pc = "call"
  /\ thread' = [thread EXCEPT ![t].pc = "compare", ![t].value = radio[thread[t].setting]]
  /\ UNCHANGED <<radio, hardware, stored, dirty, saving, raced, bounds>>

(* Where a thread goes on when a setter returns.                           *)
Returned(th) ==
  IF th.profile \notin Profiles \/ th.setting = Active THEN Idle
  ELSE IF th.setting[2] = "freq"
       THEN [th EXCEPT !.pc = "call", !.setting = <<th.profile, "mode">>]
       ELSE [th EXCEPT !.pc = "filters", !.setting = Active]

(* The value is there, unless the other thread has changed it since.       *)
CompareSame(t) ==
  /\ thread[t].pc = "compare" /\ radio[thread[t].setting] = thread[t].value
  /\ thread' = [thread EXCEPT ![t] = Returned(@)]
  /\ UNCHANGED <<radio, hardware, stored, dirty, saving, raced, bounds>>

CompareDiffers(t) ==
  /\ thread[t].pc = "compare" /\ radio[thread[t].setting] # thread[t].value
  /\ Assign(t, thread[t].setting, thread[t].value, thread[t].profile)
  /\ UNCHANGED <<hardware, stored, dirty, saving, bounds>>

(* dsp_set_filters: what it reads, and the computation that follows.       *)
ReadFilters(t) ==
  /\ thread[t].pc = "filters"
  /\ thread' = [thread EXCEPT ![t].pc = "tune", ![t].read = FiltersFor(radio)]
  /\ raced' = raced \ ({Device("filters")} \ ByOthers(t))
  /\ UNCHANGED <<radio, hardware, stored, dirty, saving, bounds>>

TuneFilters(t) ==
  /\ thread[t].pc = "tune"
  /\ filters' = thread[t].read
  /\ thread' = [thread EXCEPT ![t].pc = IF thread[t].setting = Active THEN "levels"
                                       ELSE "format",
                             ![t].read = <<>>]
  /\ UNCHANGED <<radio, oscillator, speaker, stored, dirty, saving, raced, bounds>>

(* The levels of a profile while receiving.                                *)
SetLevels(t) ==
  /\ thread[t].pc = "levels"
  /\ speaker' = radio[<<thread[t].profile, "speaker_level">>]
  /\ Goto(t, "format")
  /\ raced' = raced \ (IF thread[t].profile = radio[Active]
                       THEN {Device("speaker")} \ ByOthers(t) ELSE {})
  /\ UNCHANGED <<radio, oscillator, filters, stored, dirty, saving, bounds>>

(* The text for the dictionary: the mode that was asked for, or else what  *)
(* the variable is now.                                                    *)
Format(t) ==
  /\ thread[t].pc = "format"
  /\ thread' = [thread EXCEPT ![t].pc = "store", ![t].value =
                 IF thread[t].setting[2] = "mode" THEN @ ELSE radio[thread[t].setting]]
  /\ UNCHANGED <<radio, hardware, stored, dirty, saving, raced, bounds>>

Writing(f) == config.pc # "look" /\ config.at = f

(* Mutant: a frequency is stored in the section of the active profile.     *)
MutantStore(t) ==
  LET s == IF thread[t].setting[2] = "freq" THEN <<radio[Active], "freq">>
           ELSE thread[t].setting
  IN
  /\ thread[t].pc = "store"
  /\ dict' = [dict EXCEPT ![s] = thread[t].value]
  /\ overtaken' = overtaken \cup (IF Writing(File(s)) THEN {s} ELSE {})
  /\ Goto(t, "mark")
  /\ UNCHANGED <<radio, hardware, dirty, saving, raced, bounds>>

(* cfg_set, under the mutex.                                               *)
Store(t) ==
  LET s == thread[t].setting IN
  /\ thread[t].pc = "store"
  /\ dict' = [dict EXCEPT ![s] = thread[t].value]
  /\ overtaken' = overtaken \cup (IF Writing(File(s)) THEN {s} ELSE {})
  /\ Goto(t, "mark")
  /\ UNCHANGED <<radio, hardware, dirty, saving, raced, bounds>>

(* Mutant: a setting of the core file marks the user file.                 *)
MutantMark(t) ==
  /\ thread[t].pc = "mark"
  /\ dirty' = [dirty EXCEPT !["user"] = TRUE]
  /\ thread' = [thread EXCEPT ![t] = Returned(@)]
  /\ UNCHANGED <<radio, hardware, stored, saving, raced, bounds>>

Mark(t) ==
  /\ thread[t].pc = "mark"
  /\ dirty' = [dirty EXCEPT ![File(thread[t].setting)] = TRUE]
  /\ thread' = [thread EXCEPT ![t] = Returned(@)]
  /\ UNCHANGED <<radio, hardware, stored, saving, raced, bounds>>

Setter(t) ==
  \/ ApplyFreq(t) \/ ApplyLevel(t) \/ ApplyMode(t) \/ ApplyBFO(t) \/ ApplyProfile(t)
  \/ Call(t) \/ CompareSame(t) \/ CompareDiffers(t)
  \/ ReadFilters(t) \/ TuneFilters(t) \/ SetLevels(t)
  \/ Format(t) \/ Store(t) \/ Mark(t)

-----------------------------------------------------------------------------
(* config_thread: the core file, the user file, two seconds of sleep.      *)
After(f) == IF f = "core" THEN "user" ELSE "core"

LookClean ==
  /\ config.pc = "look" /\ ~ dirty[config.at]
  /\ config' = [config EXCEPT !.at = After(@)]
  /\ UNCHANGED <<radio, hardware, stored, dirty, file, thread, raced, bounds>>

(* The dictionary is copied under the mutex.                               *)
Dump ==
  /\ config.pc = "look" /\ dirty[config.at]
  /\ config' = [config EXCEPT !.pc = "write", !.copy = dict]
  /\ overtaken' = overtaken \ {s \in Settings : File(s) = config.at}
  /\ UNCHANGED <<radio, hardware, dict, dirty, file, thread, raced, bounds>>

WriteFile ==
  /\ config.pc = "write"
  /\ file' = [s \in Settings |-> IF File(s) = config.at THEN config.copy[s] ELSE file[s]]
  /\ config' = [config EXCEPT !.pc = "clean", !.copy = Shipped]
  /\ UNCHANGED <<radio, hardware, stored, dirty, thread, raced, bounds>>

ClearDirty ==
  /\ config.pc = "clean"
  /\ dirty' = [dirty EXCEPT ![config.at] = FALSE]
  /\ config' = [config EXCEPT !.pc = "look", !.at = After(@)]
  /\ UNCHANGED <<radio, hardware, stored, file, thread, raced, bounds>>

ConfigThread == LookClean \/ Dump \/ WriteFile \/ ClearDirty

-----------------------------------------------------------------------------
Next ==
  \/ Command \/ Knob \/ TimeOut \/ Restart
  \/ \E t \in Threads : Setter(t)
  \/ ConfigThread

Spec == Init /\ [][Next]_vars

-----------------------------------------------------------------------------
SettingsType(f) == \A s \in Settings : f[s] \in Values(s)

ThreadType(th) ==
  /\ th.pc \in {"idle", "apply", "call", "compare", "filters", "tune", "levels",
                "format", "store", "mark"}
  /\ th.setting \in Settings
  /\ th.pc # "call" => th.value \in Values(th.setting) \/ th.setting = Active
  /\ th.profile \in Profiles \cup {"main"}

TypeOK ==
  /\ SettingsType(radio) /\ SettingsType(dict) /\ SettingsType(file)
  /\ dirty \in [Files -> BOOLEAN]
  /\ oscillator \in Freqs /\ speaker \in Levels
  /\ filters \in Profiles \X {"lower", "upper"}
  /\ \A t \in Threads : ThreadType(thread[t])
  /\ config.pc \in {"look", "write", "clean"} /\ config.at \in Files
  /\ SettingsType(config.copy)

Quiet == \A t \in Threads : ~ Busy(t)

(* What a restart reads as something else.                                 *)
Unreadable(f, s) == s[2] = "mode" /\ f[s] = "CW"

(* When nobody is setting it, the dictionary has what the radio has, also  *)
(* where set_profile has called the setters of frequency and mode: in the  *)
(* section of its profile, and with the value that was assigned last.  Two *)
(* threads that set the same thing at once may leave it with the other's,  *)
(* and a CW that a restart read as LSB stands until another mode is set.   *)
StoredAsSet ==
  \A s \in Settings :
    (\A t \in Threads : s \notin ChangedBy(t)) =>
      dict[s] = radio[s] \/ s \in raced \/ (Unreadable(dict, s) /\ radio[s] = "LSB")

(* A dictionary that is not marked is in its file, but for what was stored *)
(* while the file was being written: its mark is taken away with that of   *)
(* what was written.                                                       *)
SavedWhenClean ==
  \A s \in Settings :
    /\ ~ dirty[File(s)] /\ ~ Writing(File(s))
    /\ \A t \in Threads : thread[t].pc = "mark" => thread[t].setting # s
    => file[s] = dict[s] \/ s \in overtaken

(* The filters and the loudspeaker follow the mode and the level of the    *)
(* active profile whichever of the three changes, unless two threads       *)
(* changed them at once.                                                   *)
HardwareFollows ==
  Quiet =>
    /\ filters = FiltersFor(radio) \/ Device("filters") \in raced
    /\ speaker = radio[<<radio[Active], "speaker_level">>] \/ Device("speaker") \in raced

(* A radio that is left alone until nothing is marked comes back with its  *)
(* settings, each in its place, whatever was set in whichever order        *)
(* before, but for three: one that two threads last changed at once, one   *)
(* that was last stored while its file was being written, and the mode CW, *)
(* which comes back as LSB.                                                *)
ComesBackAsLeft ==
  [][ restarts' # restarts /\ Quiet /\ (\A f \in Files : ~ dirty[f] /\ ~ Writing(f)) =>
      \A s \in Settings :
        \/ radio'[s] = radio[s] \/ s \in raced \cup overtaken
        \/ Unreadable(radio, s) /\ radio'[s] = "LSB" ]_vars

(* "set the frequency and mode": when nobody is setting anything, the      *)
(* oscillator is where the active profile's frequency is.                  *)
TunedToProfile ==
  Quiet => oscillator = radio[<<radio[Active], "freq">>] \/ Device("oscillator") \in raced

=============================================================================

---------------------------- MODULE SpeechPlayback ----------------------------
(***************************************************************************)
(* Playing a message of an agent: message_voice (tts_routes.py) with the   *)
(* files of services/text_to_speech.py, under src/src/orkio_v2: a cache of *)
(* the audio of each synthesis identity, and for each Idempotency-Key a    *)
(* lock file and a response file.                                          *)
(*                                                                         *)
(* The requests play one message of one agent, so a synthesis identity is  *)
(* the voice profile.  The cache directory is shared and each request may  *)
(* run on a server process of its own: requests interleave between any two *)
(* operations on files.  One process runs less: it gives its event loop up *)
(* only while it waits for a lock or for the provider.                     *)
(*                                                                         *)
(* A file is written in two operations, open with O_TRUNC and one write;   *)
(* the bytes of two syntheses differ, and what one writes over the other   *)
(* is "mixed".  A lock is stale when it is older than twice the timeout of *)
(* the provider call; that timeout is one per read, so that a call may     *)
(* take longer.  MaxMishaps bounds the locks that grow stale and the deaths.*)
(***************************************************************************)
EXTENDS AgentVoice

CONSTANTS
  Plays,             \* requests
  PlayKey, Keyless,  \* the Idempotency-Key of a request, or Keyless
  Speaker,           \* the agent whose message is played
  CacheEnabled,
  Silence,           \* no audio, no file
  MaxMishaps

(* What a file or an answer holds that is not one request's audio.         *)
Marks == {"mixed", "empty", "nothing", "error"}

ASSUME PlayConstants ==
  /\ CacheEnabled \in BOOLEAN /\ MaxMishaps \in Nat
  /\ Plays \cap Marks = {}
  /\ Silence \notin Plays \cup Drafts \cup {Env} \cup Marks

Sounds == Drafts \cup {Env}
Audio == Plays \cup {"mixed"}

PlaySteps ==
  {"idle", "looking", "locking", "rechecking", "aging", "breaking", "reading", "calling",
   "opening", "writing", "renaming", "completing", "releasing", "answering", "ended", "gone"}

VARIABLES
  play, profile,
  clip,            \* the audio a request holds
  lock, response,  \* the files of a key and a profile
  stale,           \* slots whose lock is stale now
  broken,          \* slots of which a lock was taken for stale
  tmp, cache,      \* the files of a profile: the request that created it
  bytes,           \* the content of the file that a request created
  file,            \* the file that a request has open
  shared,         \* profiles of which one request opened the file of another
  called,          \* requests that the provider gave audio
  heard,           \* what a request was answered
  mishaps

fileVars == <<lock, response, stale, broken, tmp, cache, bytes, file, shared>>
playVars == <<play, profile, clip, fileVars, called, heard, mishaps>>

PlayKeys == {PlayKey[r] : r \in Plays} \ {Keyless}
Slots == PlayKeys \X Sounds

(* request_idempotency_identity.  What synthesis_identity hashes besides   *)
(* the profile is the same for all requests here.                          *)
(* Broken variant: the identity does not tell the profiles apart.          *)
IdentityOfMessage(r) == Env

Identity(r) == profile[r]

Slot(r) == <<PlayKey[r], Identity(r)>>
Keyed(r) == PlayKey[r] # Keyless

Served(r) == play[r] \notin {"idle", "ended", "gone"}

FilesInit ==
  /\ profile = [r \in Plays |-> Silence] /\ clip = [r \in Plays |-> Silence]
  /\ lock = [s \in Slots |-> Silence] /\ response = [s \in Slots |-> Silence]
  /\ stale = {} /\ broken = {} /\ shared = {} /\ called = {}
  /\ tmp = [v \in Sounds |-> Silence] /\ cache = [v \in Sounds |-> Silence]
  /\ bytes = [r \in Plays |-> "empty"] /\ file = [r \in Plays |-> Silence]
  /\ heard = [r \in Plays |-> "nothing"]
  /\ mishaps = 0

PlayInit == FilesInit /\ play = [r \in Plays |-> "idle"]

PlayGoto(r, from, to) ==
  /\ play[r] = from
  /\ play' = [play EXCEPT ![r] = to]
  /\ UNCHANGED <<profile, mishaps>>

Holding(r, audio) == clip' = [clip EXCEPT ![r] = audio]

(* The exception leaves through finally, which releases an owned lock.     *)
PlayRaises(r, from) == PlayGoto(r, from, IF Keyed(r) THEN "releasing" ELSE "answering")

Quiet == UNCHANGED <<clip, called, heard>>

(* message_voice up to the files.  A request that is refused (the limits,  *)
(* the length, no voice) changes nothing and is no step.                   *)
PlayArrive(r) ==
  /\ play[r] = "idle"
  /\ play' = [play EXCEPT ![r] = IF Keyed(r) THEN "looking" ELSE "reading"]
  /\ \E v \in Profiles(Speaker) : profile' = [profile EXCEPT ![r] = v]
  /\ UNCHANGED mishaps
  /\ Quiet /\ UNCHANGED fileVars

(* reserve_tts_idempotency                                                 *)
Replays(r, from, otherwise) ==
  /\ play[r] = from
  /\ IF response[Slot(r)] # Silence
     THEN PlayGoto(r, from, "answering") /\ Holding(r, response[Slot(r)])
     ELSE PlayGoto(r, from, otherwise) /\ UNCHANGED clip
  /\ UNCHANGED <<fileVars, called, heard>>

(* Broken variant: the lock is opened without O_EXCL.                      *)
AcquireLockShared(r) ==
  /\ PlayGoto(r, "locking", "reading")
  /\ lock' = [lock EXCEPT ![Slot(r)] = r]
  /\ stale' = stale \ {Slot(r)}
  /\ Quiet /\ UNCHANGED <<response, broken, tmp, cache, bytes, file, shared>>

AcquireLock(r) ==
  /\ play[r] = "locking"
  /\ \/ /\ lock[Slot(r)] = Silence
        /\ PlayGoto(r, "locking", "reading")
        /\ lock' = [lock EXCEPT ![Slot(r)] = r]
     \/ /\ lock[Slot(r)] # Silence
        /\ PlayGoto(r, "locking", "rechecking")
        /\ UNCHANGED lock
  /\ Quiet /\ UNCHANGED <<response, stale, broken, tmp, cache, bytes, file, shared>>

(* The lock is gone: try again.  It is stale: unlink it.  It is fresh:     *)
(* sleep, and try again.                                                   *)
InspectLock(r) ==
  /\ play[r] = "aging"
  /\ PlayGoto(r, "aging", IF lock[Slot(r)] # Silence /\ Slot(r) \in stale THEN "breaking" ELSE "locking")
  /\ Quiet /\ UNCHANGED fileVars

(* Broken variant: every look at the lock sets the deadline anew.          *)
KeyDeadlineRenewed(r) ==
  /\ play[r] = "aging"
  /\ lock[Slot(r)] # Silence /\ Slot(r) \notin stale
  /\ PlayGoto(r, "aging", "locking")
  /\ Quiet /\ UNCHANGED fileVars

(* TTS_IDEMPOTENCY_IN_PROGRESS                                             *)
KeyDeadline(r) ==
  /\ play[r] = "aging"
  /\ lock[Slot(r)] # Silence /\ Slot(r) \notin stale
  /\ PlayGoto(r, "aging", "ended")
  /\ heard' = [heard EXCEPT ![r] = "error"]
  /\ UNCHANGED <<clip, called, fileVars>>

Unlinked(s) == lock' = [lock EXCEPT ![s] = Silence] /\ stale' = stale \ {s}

(* Whatever lock the path names by now.                                    *)
BreakLock(r) ==
  /\ PlayGoto(r, "breaking", "locking")
  /\ Unlinked(Slot(r))
  /\ broken' = broken \cup {Slot(r)}
  /\ Quiet /\ UNCHANGED <<response, tmp, cache, bytes, file, shared>>

ReserveKey(r) ==
  \/ Replays(r, "looking", "locking") \/ AcquireLock(r) \/ Replays(r, "rechecking", "aging")
  \/ InspectLock(r) \/ KeyDeadline(r) \/ BreakLock(r)

Done(r) == IF Keyed(r) THEN "completing" ELSE "answering"

(* read_cached_speech; an empty file counts as none.                       *)
ReadCache(r) ==
  LET f == cache[Identity(r)]
  IN /\ play[r] = "reading"
     /\ IF CacheEnabled /\ f # Silence /\ bytes[f] # "empty"
        THEN PlayGoto(r, "reading", Done(r)) /\ Holding(r, bytes[f])
        ELSE PlayGoto(r, "reading", "calling") /\ UNCHANGED clip
     /\ UNCHANGED <<fileVars, called, heard>>

(* synthesize_speech                                                       *)
Synthesis(r) ==
  /\ PlayGoto(r, "calling", IF CacheEnabled THEN "opening" ELSE Done(r))
  /\ Holding(r, r)
  /\ called' = called \cup {r}
  /\ UNCHANGED <<fileVars, heard>>

SynthesisFails(r) == PlayRaises(r, "calling") /\ Quiet /\ UNCHANGED fileVars

(* write_cached_speech: open and truncate, write, rename.                  *)
OpenTmp(r) ==
  LET v == Identity(r)
      f == IF tmp[v] = Silence THEN r ELSE tmp[v]
  IN /\ PlayGoto(r, "opening", "writing")
     /\ tmp' = [tmp EXCEPT ![v] = f]
     /\ file' = [file EXCEPT ![r] = f]
     /\ bytes' = [bytes EXCEPT ![f] = "empty"]
     /\ shared' = IF f = r THEN shared ELSE shared \cup {v}
     /\ Quiet /\ UNCHANGED <<lock, response, stale, broken, cache>>

WriteTmp(r) ==
  /\ PlayGoto(r, "writing", "renaming")
  /\ bytes' = [bytes EXCEPT ![file[r]] = IF @ = "empty" THEN clip[r] ELSE "mixed"]
  /\ Quiet /\ UNCHANGED <<lock, response, stale, broken, tmp, cache, file, shared>>

Rename(r) ==
  LET v == Identity(r)
  IN /\ play[r] = "renaming"
     /\ IF tmp[v] # Silence
        THEN /\ PlayGoto(r, "renaming", Done(r))
             /\ cache' = [cache EXCEPT ![v] = tmp[v]]
             /\ UNCHANGED clip
        ELSE PlayRaises(r, "renaming") /\ Holding(r, Silence) /\ UNCHANGED cache
     /\ tmp' = [tmp EXCEPT ![v] = Silence]
     /\ file' = [file EXCEPT ![r] = Silence]
     /\ UNCHANGED <<lock, response, stale, broken, bytes, shared, called, heard>>

ProvideAudio(r) ==
  \/ ReadCache(r) \/ Synthesis(r) \/ SynthesisFails(r)
  \/ OpenTmp(r) \/ WriteTmp(r) \/ Rename(r)

(* complete_tts_idempotency writes a file of its own and renames it.       *)
CompleteKey(r) ==
  /\ PlayGoto(r, "completing", "releasing")
  /\ response' = [response EXCEPT ![Slot(r)] = clip[r]]
  /\ Quiet /\ UNCHANGED <<lock, stale, broken, tmp, cache, bytes, file, shared>>

(* release_tts_idempotency unlinks the path, whoever's lock it names.      *)
ReleaseKey(r) ==
  /\ PlayGoto(r, "releasing", "answering")
  /\ Unlinked(Slot(r))
  /\ Quiet /\ UNCHANGED <<response, broken, tmp, cache, bytes, file, shared>>

(* The audit row and the response; an exception is an error.               *)
PlayAnswer(r) ==
  /\ PlayGoto(r, "answering", "ended")
  /\ heard' = [heard EXCEPT ![r] = IF clip[r] = Silence THEN "error" ELSE clip[r]]
  /\ UNCHANGED <<clip, called, fileVars>>

Mishap == mishaps < MaxMishaps /\ mishaps' = mishaps + 1

LockAges(s) ==
  /\ Mishap
  /\ lock[s] # Silence /\ s \notin stale
  /\ stale' = stale \cup {s}
  /\ Quiet /\ UNCHANGED <<play, profile, lock, response, broken, tmp, cache, bytes, file, shared>>

PlayDies(r) ==
  /\ Mishap
  /\ Served(r)
  /\ play' = [play EXCEPT ![r] = "gone"]
  /\ Quiet /\ UNCHANGED <<profile, fileVars>>

PlayStep(r) == ReserveKey(r) \/ ProvideAudio(r) \/ CompleteKey(r) \/ ReleaseKey(r) \/ PlayAnswer(r)

PlayNext ==
  \/ \E r \in Plays : PlayArrive(r) \/ PlayStep(r) \/ PlayDies(r)
  \/ \E s \in Slots : LockAges(s)

(* Requests beside the administrators' routes.                             *)
PlaybackNext ==
  \/ PlayNext /\ UNCHANGED voiceVars
  \/ AdminStep /\ UNCHANGED playVars

PlaybackSpec == VoiceInit /\ PlayInit /\ [][PlaybackNext]_<<voiceVars, playVars>>

(* The clock passes the deadline of a request that waits.                  *)
PlayFairness ==
  \A r \in Plays : WF_playVars(PlayStep(r)) /\ SF_playVars(KeyDeadline(r))

-------------------------------------------------------------------------------

PlayTypeOK ==
  /\ play \in [Plays -> PlaySteps]
  /\ profile \in [Plays -> Sounds \cup {Silence}]
  /\ clip \in [Plays -> Audio \cup {Silence}]
  /\ lock \in [Slots -> Plays \cup {Silence}]
  /\ response \in [Slots -> Audio \cup {Silence}]
  /\ stale \subseteq Slots /\ broken \subseteq Slots
  /\ tmp \in [Sounds -> Plays \cup {Silence}] /\ cache \in [Sounds -> Plays \cup {Silence}]
  /\ bytes \in [Plays -> Audio \cup {"empty"}]
  /\ file \in [Plays -> Plays \cup {Silence}]
  /\ shared \subseteq Sounds /\ called \subseteq Plays
  /\ heard \in [Plays -> Audio \cup {"nothing", "error"}]
  /\ mishaps \in 0 .. MaxMishaps

(* What a request plays was synthesized with the voice that it resolved,   *)
(* however the assignments change and whichever file it came from; and it  *)
(* is the audio of one synthesis, unless two processes wrote the cache     *)
(* file of that voice at the same time.                                    *)
PlayedAsResolved ==
  \A r \in Plays :
    /\ heard[r] \in Plays => profile[heard[r]] = profile[r]
    /\ heard[r] = "mixed" => profile[r] \in shared

(* With the cache on, one key is synthesized once, unless a lock of it was *)
(* taken for stale or two processes shared a cache file; and all its     *)
(* requests hear the same, unless another key's was synthesized too.       *)
Undisturbed(r) == profile[r] # Silence /\ Slot(r) \notin broken /\ profile[r] \notin shared

KeyedOnce ==
  \A r \in {p \in Plays : Keyed(p) /\ Undisturbed(p)} :
    \A q \in {p \in Plays : Slot(p) = Slot(r)} :
      /\ r \in called /\ q \in called => r = q
      /\ {heard[r], heard[q]} \subseteq Plays /\ heard[r] # heard[q]
           => \E p \in called : profile[p] = profile[r] /\ Slot(p) # Slot(r)

(* Every request is answered, whoever holds the lock of its key or died    *)
(* with it: a time comes when none is being served.                        *)
PlaysEnd == []<>(\A r \in Plays : ~ Served(r))
===============================================================================

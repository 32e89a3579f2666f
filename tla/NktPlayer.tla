----------------------------- MODULE NktPlayer -----------------------------
(***************************************************************************)
(* The NKT player together with the master volume and balance: the main    *)
(* program asks for them in two variables, and each interrupt starts with  *)
(* handleMasterSettings, which compares them with the settings it recorded *)
(* and sends what has changed before it looks at the song.                 *)
(*                                                                         *)
(* setupMidiDevice has run before: it chose the device and left requests.  *)
(* The text for the MT-32's display is left out.                           *)
(***************************************************************************)
EXTENDS NktReplay

CONSTANTS
  Volumes,  \* what setMidiMasterVolume is called with
  Balances  \* what setMidiMasterBalance is called with

MIDI_MASTER_VOL_MAX_GM       == 127
MIDI_MASTER_VOL_MAX_MT32     == 100
MIDI_MASTER_VOL_DEFAULT_GM   == MIDI_MASTER_VOL_MAX_GM \div 2
MIDI_MASTER_VOL_DEFAULT_MT32 == MIDI_MASTER_VOL_MAX_MT32 \div 2
MIDI_MASTER_PAN_CENTER       == 64

Bytes == 0..255
ASSUME RequestsAssumption == Volumes \subseteq Bytes /\ Balances \subseteq Bytes

VARIABLES
  isMT32,                       \* moduleSettings.modelID = MT32_MODEL_ID
  requestedMasterVolume, requestedMasterBalance,
  moduleSettings,               \* recorded masterVolume, masterBalance
  device                        \* the same as the device has them

requests == <<requestedMasterVolume, requestedMasterBalance>>
settings == <<isMT32, requests, moduleSettings, device>>

Unknown == -1

\* setupMidiDevice: recorded settings of 0 force the first update.
setupMidiDevice ==
  /\ isMT32 \in BOOLEAN
  /\ requestedMasterVolume = IF isMT32 THEN MIDI_MASTER_VOL_DEFAULT_MT32
                                       ELSE MIDI_MASTER_VOL_DEFAULT_GM
  /\ requestedMasterBalance = MIDI_MASTER_PAN_CENTER
  /\ moduleSettings = [masterVolume |-> 0, masterBalance |-> 0]
  /\ device = [masterVolume |-> Unknown, masterBalance |-> Unknown]

setMidiMasterVolume(vol) ==
  /\ requestedMasterVolume' = vol
  /\ UNCHANGED <<isMT32, requestedMasterBalance, moduleSettings, device>>

setMidiMasterBalance(bal) ==
  /\ requestedMasterBalance' = bal
  /\ UNCHANGED <<isMT32, requestedMasterVolume, moduleSettings, device>>

MaxVolume == IF isMT32 THEN MIDI_MASTER_VOL_MAX_MT32 ELSE MIDI_MASTER_VOL_MAX_GM

\* Setting f becomes v on the device and in the record.
Sent(s, f, v) == [s EXCEPT ![f] = v]

\* Mutant: the balance is looked after in the branch of the GM devices only.
handleMasterSettingsGM ==
  LET volume(s)  == IF requestedMasterVolume <= MaxVolume
                    THEN Sent(s, "masterVolume", requestedMasterVolume) ELSE s
      balance(s) == IF moduleSettings.masterBalance # requestedMasterBalance /\ ~isMT32
                    THEN Sent(s, "masterBalance", requestedMasterBalance) ELSE s
      differs    == moduleSettings.masterVolume # requestedMasterVolume
  IN  /\ moduleSettings' = IF differs THEN balance(volume(moduleSettings)) ELSE moduleSettings
      /\ device'         = IF differs THEN balance(volume(device)) ELSE device
      /\ UNCHANGED <<isMT32, requests>>

\* The balance is only looked at when the volume differs.
handleMasterSettings ==
  LET volume(s)  == IF requestedMasterVolume <= MaxVolume
                    THEN Sent(s, "masterVolume", requestedMasterVolume) ELSE s
      balance(s) == IF moduleSettings.masterBalance # requestedMasterBalance
                    THEN Sent(s, "masterBalance", requestedMasterBalance) ELSE s
      differs    == moduleSettings.masterVolume # requestedMasterVolume
  IN  /\ moduleSettings' = IF differs THEN balance(volume(moduleSettings)) ELSE moduleSettings
      /\ device'         = IF differs THEN balance(volume(device)) ELSE device
      /\ UNCHANGED <<isMT32, requests>>

-----------------------------------------------------------------------------
\* An interrupt that finds its pause or stop carried out does nothing more.
TickHalted ==
  /\ TickStarts
  /\ \/ NKT_PS_PAUSED \in sequenceState /\ bPaused
     \/ sequenceState \cap {NKT_PS_PLAYING, NKT_PS_PAUSED} = {} /\ bStopped
  /\ UNCHANGED vars

Requests == \/ \E vol \in Volumes : setMidiMasterVolume(vol)
            \/ \E bal \in Balances : setMidiMasterBalance(bal)

PlayerInit == Init /\ setupMidiDevice

PlayerCalls     == (Calls \/ MainStep) /\ UNCHANGED settings
PlayerRequests  == Idle /\ Requests /\ UNCHANGED vars

\* Each interrupt begins with the settings; what follows leaves them alone.
PlayerInterrupt ==
  \/ TickPaused  /\ handleMasterSettings
  \/ TickStopped /\ handleMasterSettings
  \/ TickPlaying /\ handleMasterSettings
  \/ TickHalted  /\ handleMasterSettings
  \/ SingleEnds  /\ UNCHANGED settings
  \/ TrackEnded  /\ UNCHANGED settings
  \/ TrackWaits  /\ UNCHANGED settings
  \/ TrackSends  /\ UNCHANGED settings
  \/ TrackChangesTempo /\ UNCHANGED settings
  \/ TickEnds    /\ UNCHANGED settings

PlayerNext == PlayerCalls \/ PlayerRequests \/ PlayerInterrupt
PlayerVars == <<vars, settings>>

\* The timer keeps firing; and while no interrupt comes a call does not stand still.
PlayerFairness == /\ WF_PlayerVars(PlayerInterrupt)
                  /\ WF_PlayerVars(MainStep /\ UNCHANGED settings)
PlayerSpec == PlayerInit /\ [][PlayerNext]_PlayerVars /\ PlayerFairness

-----------------------------------------------------------------------------
\* A volume the device can have reaches it, paused or playing, unless it is
\* taken back first, and the balance asked for by then goes with it; whatever
\* the device, and though the requests are two variables an interrupt may find
\* half changed.
SettingsArrive ==
  \A vol \in Volumes \cup {MIDI_MASTER_VOL_DEFAULT_GM, MIDI_MASTER_VOL_DEFAULT_MT32},
     bal \in Balances \cup {MIDI_MASTER_PAN_CENTER} :
    /\ hooked /\ requests = <<vol, bal>>
    /\ vol # moduleSettings.masterVolume /\ vol <= MaxVolume
    ~> \/ ~hooked \/ requests # <<vol, bal>>
       \/ device = [masterVolume |-> vol, masterBalance |-> bal]
=============================================================================

-------------------------------- MODULE Startup -------------------------------
(***************************************************************************)
(* From power on to the start of the mission: the battery screen, the region  *)
(* menu and the wait for the start light (main of src/src/main.cpp and         *)
(* InitializeMenu of src/Libraries/FEHWONKA.cpp), with an operator who may     *)
(* press and release any buttons at any time.  What is displayed is left out;  *)
(* the dialogue with the radio and the wait for a packet are the subject of    *)
(* Wonka and take no time here.                                               *)
(*                                                                          *)
(* A tick is 50 ms; in between, the program gets as far as it can.            *)
(***************************************************************************)
EXTENDS Integers

CONSTANT Regions  \* how many letters the menu offers, from A

ASSUME RegionsAssumption == Regions \in Nat \ {0}

VARIABLES
    stage,       \* where the program is
    sleep,       \* ticks left of a Sleep
    pressed,     \* the buttons that are down
    fresh,       \* those that have gone down since the menu last obeyed them
    region,      \* InitializeMenu's, counted from 'A'
    set_region,  \* _region
    lit          \* the start light is on

startupVars == <<stage, sleep, pressed, fresh, region, set_region, lit>>

Buttons == {"left", "middle", "right"}
Ticks(msec) == msec \div 50

StartupInit ==
    /\ stage = "battery"
    /\ sleep = 0
    /\ pressed \in SUBSET Buttons
    /\ fresh = pressed
    /\ region = 0
    /\ set_region = -1
    /\ lit = FALSE

-------------------------------------------------------------------------------
At(s) == stage = s /\ sleep = 0

\* The program polls and finds nothing to do, or sleeps.
Waiting ==
    \/ sleep > 0
    \/ stage = "menu" /\ pressed = {}
    \/ stage = "left" /\ "left" \in pressed
    \/ stage = "right" /\ "right" \in pressed
    \/ stage = "selected" /\ "middle" \in pressed
    \/ stage = "light" /\ ~lit

OperatorTick ==
    /\ Waiting
    /\ sleep' = IF sleep > 0 THEN sleep - 1 ELSE 0
    /\ pressed' \in SUBSET Buttons
    /\ fresh' = fresh \cup (pressed' \ pressed)
    /\ lit' \in {lit, stage = "light"}
    /\ UNCHANGED <<stage, region, set_region>>

\* while (!btns.MiddlePressed()) .. Sleep(500);  then  Sleep(250);
BatteryPoll ==
    /\ At("battery")
    /\ \/ /\ "middle" \notin pressed
          /\ sleep' = Ticks(500)
          /\ UNCHANGED stage
       \/ /\ "middle" \in pressed
          /\ stage' = "menu_start"
          /\ sleep' = Ticks(250)
    /\ UNCHANGED <<pressed, fresh, region, set_region, lit>>

MenuStart ==
    /\ At("menu_start")
    /\ region' = 0
    /\ stage' = "menu"
    /\ UNCHANGED <<sleep, pressed, fresh, set_region, lit>>

Before(letter) == IF letter - 1 < 0 THEN Regions - 1 ELSE letter - 1
After_OneLate(letter) == IF letter + 1 > Regions THEN 0 ELSE letter + 1
After(letter) == IF letter + 1 > Regions - 1 THEN 0 ELSE letter + 1

MoveLeft ==
    /\ region' = Before(region)
    /\ stage' = "left"
    /\ fresh' = fresh \ {"left"}

MoveRight ==
    /\ region' = After(region)
    /\ stage' = "right"
    /\ fresh' = fresh \ {"right"}

\* Initialize( char ) ignores what is not a letter it knows; the clamping of
\* Initialize( int ) changes none of those.
Configured(letter) == IF letter \in 0..Regions - 1 THEN letter ELSE set_region

\* One pass of the menu's loop, up to the wait for the release of a button.
MenuPoll ==
    /\ At("menu")
    /\ \/ /\ "middle" \in pressed
          /\ set_region' = Configured(region)
          /\ stage' = "selected"
          /\ UNCHANGED <<region, fresh>>
       \/ "middle" \notin pressed /\ "left" \in pressed /\ MoveLeft /\ UNCHANGED set_region
       \/ pressed = {"right"} /\ MoveRight /\ UNCHANGED set_region
    /\ UNCHANGED <<sleep, pressed, lit>>

\* while( buttons.LeftPressed() ); Sleep( 100 );
LeftReleased_NoWait ==
    /\ At("left")
    /\ stage' = "menu_right" /\ sleep' = Ticks(100)
    /\ UNCHANGED <<pressed, fresh, region, set_region, lit>>

LeftReleased ==
    /\ At("left") /\ "left" \notin pressed
    /\ stage' = "menu_right" /\ sleep' = Ticks(100)
    /\ UNCHANGED <<pressed, fresh, region, set_region, lit>>

\* The rest of a pass that has moved to the left.
MenuRight ==
    /\ At("menu_right")
    /\ \/ "right" \in pressed /\ MoveRight
       \/ "right" \notin pressed /\ stage' = "menu" /\ UNCHANGED <<region, fresh>>
    /\ UNCHANGED <<sleep, pressed, set_region, lit>>

RightReleased ==
    /\ At("right") /\ "right" \notin pressed
    /\ stage' = "menu" /\ sleep' = Ticks(100)
    /\ UNCHANGED <<pressed, fresh, region, set_region, lit>>

\* while( buttons.MiddlePressed() ); Sleep( 1000 );
MenuEnd ==
    /\ At("selected") /\ "middle" \notin pressed
    /\ stage' = "enable" /\ sleep' = Ticks(1000)
    /\ UNCHANGED <<pressed, fresh, region, set_region, lit>>

\* rps.Enable(); LCD.Clear(); Sleep(250);
EnableFeed ==
    /\ At("enable")
    /\ stage' = "light" /\ sleep' = Ticks(250)
    /\ UNCHANGED <<pressed, fresh, region, set_region, lit>>

\* while(cds_0.Value() > 0.5);
StartMission ==
    /\ At("light") /\ lit
    /\ stage' = "started"
    /\ UNCHANGED <<sleep, pressed, fresh, region, set_region, lit>>

StartupNext ==
    \/ OperatorTick \/ BatteryPoll \/ MenuStart \/ MenuPoll \/ LeftReleased \/ MenuRight
    \/ RightReleased \/ MenuEnd \/ EnableFeed \/ StartMission

\* The region is a letter of the menu, and once one is selected it is the one the
\* radio is configured for.
StartupTypeOK ==
    /\ stage \in {"battery", "menu_start", "menu", "left", "menu_right", "right",
                  "selected", "enable", "light", "started"}
    /\ sleep \in 0..Ticks(1000)
    /\ pressed \subseteq Buttons /\ fresh \subseteq Buttons
    /\ region \in 0..Regions - 1
    /\ stage \in {"selected", "enable", "light", "started"} => set_region = region
    /\ lit \in BOOLEAN

\* The region moves by one letter (or around the end) for each press of a button,
\* however long it is held and whatever other buttons are pressed meanwhile.
OneMovePerPress ==
    [][region' # region =>
        \/ "left" \in fresh /\ region' = Before(region)
        \/ "right" \in fresh /\ region' = After(region)]_startupVars
===============================================================================

----------------------------- MODULE MCHotkeys -----------------------------
(***************************************************************************)
(* Scripts for model checking Hotkeys.                                     *)
(***************************************************************************)
EXTENDS Hotkeys

Variant(criterion, labels, limits, buffers) ==
    [mHotCriterion |-> criterion, mJumpToLabel |-> labels,
     Limits |-> limits, mMaxThreadsBuffer |-> buffers]
Hotkey(key, prefix, up, wild, modifiers, variants) ==
    [mVK |-> key, mModifierVK |-> prefix, mKeyUp |-> up,
     mAllowExtraModifiers |-> wild, mModifiers |-> modifiers,
     mKeybdHookMandatory |-> up \/ wild \/ prefix # "none",
     variants |-> variants]
Simple == <<Variant("HOT_NO_CRITERION", {"other"}, {}, {FALSE})>>

\* b, for a window and for all, b & a, of which b is the prefix, and b up.
PrefixScript == <<
    Hotkey("b", "none", FALSE, FALSE, {},
        <<Variant("HOT_NO_CRITERION", {"other", "suspend"}, {2, 256}, {TRUE, FALSE}),
          Variant("HOT_IF", {"other"}, {}, {FALSE})>>),
    Hotkey("a", "b", FALSE, FALSE, {}, Simple),
    Hotkey("b", "none", TRUE, FALSE, {}, Simple)>>
=============================================================================

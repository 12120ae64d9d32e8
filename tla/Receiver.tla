------------------------------ MODULE Receiver -------------------------------
(***************************************************************************)
(* The receiver of fm_demodulator_cli: SoapyRx, FirDecimator and           *)
(* PfbArbResampler.  The rotator, the demodulator and the de-emphasis      *)
(* between them take sample by sample and are left out; the samples a      *)
(* block has not taken yet wait in the connection before it.               *)
(***************************************************************************)
EXTENDS SoapyRx, FirDecimator, PfbArbResampler

CONSTANT MaxChanges  \* bound: changes of settings, starts and resets

VARIABLE changes

vars == <<edges, soapyVars, firVars, pfbVars, changes>>

Init ==
  /\ rf = <<>> /\ quad = <<>> /\ audio = <<>>
  /\ SoapyInit /\ FirInit /\ PfbInit
  /\ changes = 0

Control ==
  /\ changes < MaxChanges /\ changes' = changes + 1
  /\ \/ (start \/ stop \/ Reset \/ settingsChanged) /\ UNCHANGED <<quad, audio, firVars, pfbVars>>
     \/ (FirStart \/ FirStop \/ FirSettingsChanged) /\ UNCHANGED <<soapyVars, pfbVars>>
     \/ PfbSettingsChanged /\ UNCHANGED <<soapyVars, firVars>>

Work ==
  /\ UNCHANGED changes
  /\ \/ processBulk /\ UNCHANGED <<quad, audio, firVars, pfbVars>>
     \/ FirWork /\ UNCHANGED <<soapyVars, pfbVars>>
     \/ PfbWork /\ UNCHANGED <<soapyVars, firVars>>

Next == Control \/ Work

Spec == Init /\ [][Next]_vars
=============================================================================

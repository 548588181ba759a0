------------------------------ MODULE MCDrivers -----------------------------
(* The small drivers, the NPU sample and the model loader on their           *)
(* instances.  They share nothing, so one run explores them side by side:    *)
(* dut names the one that runs, the variables of the others keep their       *)
(* initial values.                                                           *)
EXTENDS SdDisk, GpioIrq, FlashCtl, NpuSample, NpuLoader, Detection

VARIABLE dut

gpioPinsDef == {<<"A", 2>>, <<"F", 1>>, <<"E", 3>>, <<"E", 4>>}

vars == <<dut, sdVars, gpioVars, flashVars, nsVars, ldVars, detVars>>

Init ==
  /\ \/ dut = "detection" /\ DetInit
     \/ /\ dut \in {"sdmmc", "gpio", "flash", "npu", "loader"}
        /\ DetInit /\ detNear = {}
  /\ (SdInit /\ (dut = "sdmmc" \/ sdCard)) /\ GpioInit /\ FlashInit /\ NsInit /\ LdInit

OnlySd     == dut = "sdmmc" /\ UNCHANGED <<dut, gpioVars, flashVars, nsVars, ldVars, detVars>>
OnlyGpio   == dut = "gpio" /\ UNCHANGED <<dut, sdVars, flashVars, nsVars, ldVars, detVars>>
OnlyFlash  == dut = "flash" /\ UNCHANGED <<dut, sdVars, gpioVars, nsVars, ldVars, detVars>>
OnlyNpu    == dut = "npu" /\ UNCHANGED <<dut, sdVars, gpioVars, flashVars, ldVars, detVars>>
OnlyLoader == dut = "loader" /\ UNCHANGED <<dut, sdVars, gpioVars, flashVars, nsVars, detVars>>
OnlyDet    == dut = "detection" /\ UNCHANGED <<dut, sdVars, gpioVars, flashVars, nsVars, ldVars>>

Next ==
  \/ OnlySd /\ SdNext
  \/ OnlyGpio /\ GpioNext
  \/ OnlyFlash /\ FlashNext
  \/ OnlyNpu /\ NsNext
  \/ OnlyLoader /\ LdNext
  \/ OnlyDet /\ DetNext

\* the fairness of each specification, for the one that runs
Fairness ==
  /\ \A c \in SdClients : WF_sdVars(OnlySd /\ SdStep(c))
  /\ \A c \in FlashClients : SF_flashVars(OnlyFlash /\ FlashStep(c))
  /\ WF_nsVars(OnlyNpu /\ NsThread) /\ WF_nsVars(OnlyNpu /\ NsCreate)

Spec == Init /\ [][Next]_vars /\ Fairness

=============================================================================

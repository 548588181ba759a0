------------------------------ MODULE GpioIrq -------------------------------
(* The interrupts of the GPIO driver, drivers/gpio/gpio_amebapro2.c: the     *)
(* table gpio_irq_adp_pin that pin_interrupt_configure fills, one slot per   *)
(* pin and shared by the three controllers, and the interrupt routines that  *)
(* find the pin of a status bit by counting their controller's slots.        *)
(*                                                                           *)
(* External, from how the routines decode the status: the HAL numbers the    *)
(* interrupts of a controller in the order in which their pins were first    *)
(* initialised, and raises the bit of that number.                           *)
EXTENDS Integers, Sequences, FiniteSets, SequencesExt

CONSTANTS
  GpioPins,  \* <<port, pin>> pairs; ports "A" (AON), "F" (PON) and the rest
  PinUse     \* pin_use, the slots of the table

ASSUME GpioAssumption == PinUse \in Nat \ {0}

Controllers == {"aon", "pon", "syson"}

\* which port a routine counts; the last one counts whatever is not A or F,
\* the free slots (0xFF) at the end of the table included
Serves(controller, pin) ==
  CASE controller = "aon"   -> pin[1] = "A"
    [] controller = "pon"   -> pin[1] = "F"
    [] controller = "syson" -> pin[1] \notin {"A", "F"}

VARIABLES
  gpioTable,    \* gpio_irq_adp_pin up to its first free slot
  gpioNumbers,  \* HAL: the pins of each controller, at their interrupt number
  gpioArmed,    \* HAL: the pins whose interrupt is enabled
  gpioStatus,   \* GPIO_INT_STS of each controller: numbers of raised interrupts
  gpioFired,    \* the pins whose callbacks the last routine fired
  gpioCause     \* history: the pins whose interrupts that routine cleared

gpioVars == <<gpioTable, gpioNumbers, gpioArmed, gpioStatus, gpioFired, gpioCause>>

GpioTypeOK ==
  /\ gpioTable \in Seq(GpioPins) /\ Len(gpioTable) <= PinUse
  /\ gpioNumbers \in [Controllers -> Seq(GpioPins)]
  /\ gpioArmed \subseteq GpioPins
  /\ \A k \in Controllers : gpioStatus[k] \subseteq 0..PinUse - 1
  /\ gpioFired \subseteq GpioPins /\ gpioCause \subseteq GpioPins

GpioInit ==
  /\ gpioTable = <<>>
  /\ gpioNumbers = [k \in Controllers |-> <<>>]
  /\ gpioArmed = {}
  /\ gpioStatus = [k \in Controllers |-> {}]
  /\ gpioFired = {} /\ gpioCause = {}

\* Mutant of Tabled: the pin's own slot is not looked for.
TabledAnew(pin) == Append(gpioTable, pin)

\* the pin's own slot, or the first free one
Tabled(pin) == IF pin \in ToSet(gpioTable) THEN gpioTable ELSE Append(gpioTable, pin)

\* hal_gpio_irq_init
Numbered(k, pin) ==
  IF pin \in ToSet(gpioNumbers[k]) THEN gpioNumbers[k] ELSE Append(gpioNumbers[k], pin)

\* gpio_ameba_pin_interrupt_configure: the slot is taken and the interrupt
\* initialised before the trigger is looked at.  A trigger the mode does not
\* have, which is what disabling passes, returns -1 with no further step
GpioConfigure(pin, valid) ==
  /\ Len(Tabled(pin)) <= PinUse
  /\ gpioTable' = Tabled(pin)
  /\ gpioNumbers' = [k \in Controllers |->
                       IF Serves(k, pin) THEN Numbered(k, pin) ELSE gpioNumbers[k]]
  /\ gpioArmed' = IF valid THEN gpioArmed \cup {pin} ELSE gpioArmed
  /\ UNCHANGED <<gpioStatus, gpioFired, gpioCause>>

\* the hardware raises the interrupt of an enabled pin
GpioRaise(k, n) ==
  /\ n \in 1..Len(gpioNumbers[k]) /\ gpioNumbers[k][n] \in gpioArmed
  /\ gpioStatus' = [gpioStatus EXCEPT ![k] = @ \cup {n - 1}]
  /\ UNCHANGED <<gpioTable, gpioNumbers, gpioArmed, gpioFired, gpioCause>>

\* highest_bit_position of a status that is not 0
IsHighestBit(b, status) == b \in status /\ \A d \in status : d <= b

\* how many of the slots before i the routine of k counts
Before(k, i) == Cardinality({j \in 1..i - 1 : Serves(k, gpioTable[j])})

\* the slot whose count is the highest bit, else slot 0
Decoded(k, high) ==
  LET hits == {i \in 1..Len(gpioTable) : Serves(k, gpioTable[i]) /\ Before(k, i) = high}
  IN IF hits = {} THEN 1 ELSE CHOOSE i \in hits : TRUE

\* the routine reads and clears the whole status and fires one pin's callbacks
GpioIsr(k) ==
  /\ \E high \in gpioStatus[k] :
       IsHighestBit(high, gpioStatus[k]) /\ gpioFired' = {gpioTable[Decoded(k, high)]}
  /\ gpioCause' = {gpioNumbers[k][n + 1] : n \in gpioStatus[k]}
  /\ gpioStatus' = [gpioStatus EXCEPT ![k] = {}]
  /\ UNCHANGED <<gpioTable, gpioNumbers, gpioArmed>>

GpioNext ==
  \/ \E pin \in GpioPins, valid \in BOOLEAN : GpioConfigure(pin, valid)
  \/ \E k \in Controllers : GpioIsr(k) \/ \E n \in 1..PinUse : GpioRaise(k, n)

GpioSpec == GpioInit /\ [][GpioNext]_gpioVars

-----------------------------------------------------------------------------
(* The callbacks a routine fires are those of a pin whose interrupt it has   *)
(* just cleared, in whatever order the pins of the three controllers were    *)
(* configured, refused, configured again: counting the slots of the shared   *)
(* table gives back the HAL's numbering (the three routines against          *)
(* gpio_ameba_pin_interrupt_configure).                                      *)
GpioFiresItsCause == gpioFired \subseteq gpioCause

=============================================================================

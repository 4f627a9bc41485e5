--------------------------- MODULE SensorReadings ---------------------------
(***************************************************************************)
(* How the numbers of the sensors and of the fan are scaled: pressures     *)
(* from two bytes of the I2C sensor, the others from 16-bit registers.     *)
(***************************************************************************)
EXTENDS Integers

\* Without a lower limit of the negative numbers, which the bytes hold as
\* 32768 and more.
Unlimited(p) == IF p <= 0 THEN 0 ELSE p                  \* faulty variant
Limited(p) == IF p <= 0 THEN 0 ELSE IF p >= 127 THEN 0 ELSE p

\* readPressure: the two bytes count 1/240 Pa; 0.95 corrects the altitude.
Pressure(high, low) == Limited((((256 * high + low) \div 240) * 95) \div 100)

\* writeSensor takes 16 bits of ten times the speed.
FanCommand(speed) == (10 * speed) % 65536

\* readAllSensors; a register is read as a number without sign.
ReadAllSensors(register, high, low) ==
    [currentFanSpeed |-> register["fan"] \div 10,
     pressure |-> Pressure(high, low),
     co2 |-> register["co2"],
     rh |-> register["rh"] \div 10,
     temp |-> register["t"] \div 10]
=============================================================================

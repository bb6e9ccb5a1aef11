------------------------------- MODULE Interfaces ------------------------------
(***************************************************************************)
(* The interfaces that Interfaces makes from the settings, by their type.  *)
(* They have nothing in common but the central: one of them is followed,   *)
(* of any type.                                                            *)
(***************************************************************************)
EXTENDS Usb300, Gateway, Hgdc

VARIABLE type  \* the type of the interface

Type == {"usb300", "homegeargateway", "hgdc"}
interfaceVars == <<type, usbVars, gatewayVars, hgdcVars>>

InterfaceTypeOK ==
  /\ type \in Type
  /\ UsbTypeOK
  /\ GatewayTypeOK
  /\ HgdcTypeOK

(* create.  What the other types would be set to does not matter.          *)
InterfaceInit ==
  /\ type \in Type
  /\ UsbInit
  /\ GatewayInit
  /\ HgdcInit
  /\ type # "usb300" => ~force
  /\ type # "homegeargateway" => ~online
  /\ type # "hgdc" => ~master /\ ~forceBase

(* A step of an interface of type y.                                       *)
Of(y, A) ==
  /\ type = y
  /\ A
  /\ UNCHANGED type
  /\ y # "usb300" => UNCHANGED usbVars
  /\ y # "homegeargateway" => UNCHANGED gatewayVars
  /\ y # "hgdc" => UNCHANGED hgdcVars

InterfaceNext ==
  \/ Of("usb300", UsbNext)
  \/ Of("homegeargateway", GatewayNext)
  \/ Of("hgdc", HgdcNext)

(* Threads go on: each of them, not their common step.                     *)
Fairness ==
  /\ WF_interfaceVars(Of("usb300", UsbListens))
  /\ \A t \in Asker : WF_interfaceVars(Of("usb300", Asks(t)))
  /\ WF_interfaceVars(Of("usb300", Refused))
  /\ WF_interfaceVars(Of("homegeargateway", Reads))
  /\ \A t \in Invoker : WF_interfaceVars(Of("homegeargateway", Invokes(t)))
  /\ WF_interfaceVars(Of("hgdc", Updates))

InterfaceSpec == InterfaceInit /\ [][InterfaceNext]_interfaceVars /\ Fairness

(* An interface recovers: once its stick stays and answers, or its gateway *)
(* can be reached, or its module is there and answers, it is open, and     *)
(* initialised, with the address of the stick or module, and remains so.   *)
(* For a stick or a gateway this is so whatever failed before.  It is not  *)
(* for a module one of whose reports was lost, nor after a command or an   *)
(* initialisation has failed: only a report that the module was added ends *)
(* that, since for one that "restarted", or when the HGDC is connected     *)
(* again, there is only another init, of an interface that is stopped.     *)
Recovers ==
  /\ <>[](type = "usb300" /\ UsbSteady) => <>[]UsbUp
  /\ <>[](type = "homegeargateway" /\ steady) => <>[](connected /\ ~gwStopped)
  /\ <>[](type = "hgdc" /\ lasting /\ ~lost /\ ~failed) => <>[]HgdcUp
=============================================================================

CONSTANTS
  App = {foot, gimp}
  Foot = foot
SPECIFICATION Spec
INVARIANTS PinsAgree LauncherPointersLive ToastHasItsTimer

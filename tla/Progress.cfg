\* The bounds stand in the module.
SPECIFICATION Spec
PROPERTIES DevicesServe WaitsEnd

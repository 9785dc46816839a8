SPECIFICATION Spec
CONSTANTS MaxPolls = 1  MaxErrors = 0  MaxDeaths = 0
INVARIANT SuccessAdopted
